-------------------------- MODULE SessionLifeProofs --------------------------
(***************************************************************************)
(* Proofs about SessionLife, for any number of workers, sessions and       *)
(* AcceptEvents.                                                           *)
(***************************************************************************)
EXTENDS SessionLife, FiniteSetTheorems, SequenceTheorems, TLAPS

-----------------------------------------------------------------------------
(* What is left of a worker's calls                                          *)

\* The entries that can come behind e in the todo of a worker.
Behind(e) ==
  CASE e \in {"RegisterAccept", "RegisterConnect", "ConnectRefused", "ProcessSend",
              "RemoveSession"} -> {}
    [] e = "ProcessConnect" -> {"AddSession", "OnConnected", "RegisterRecv", "RegisterAccept"}
    [] e = "AddSession"     -> {"OnConnected", "RegisterRecv", "RegisterAccept"}
    [] e = "OnConnected"    -> {"RegisterRecv", "RegisterAccept"}
    [] e \in {"RegisterRecv", "RecvRefused"} -> {"RegisterAccept"}
    [] e \in {"Send", "RegisterSend", "SendRefused"} ->
         {"RegisterRecv", "RegisterAccept", "Disconnect"}
    [] e = "OnDisconnected" -> {"RemoveSession"}
    [] OTHER -> {"RecvRefused", "RegisterAccept", "SendRefused", "RegisterRecv",
                 "Disconnect", "ConnectRefused", "ProcessSend"}

InOrder(q) == \A i, j \in 1..Len(q) : i < j => q[j] \in Behind(q[i])

Orderly == \A w \in Workers : InOrder(task[w].todo)

\* The entries of a sequence.
Elems(q) == {q[i] : i \in 1..Len(q)}

\* Worker w runs in session s, and has the entry before it there.
Busy(w, s) == task[w].session = s
On(w, s, entry) == Busy(w, s) /\ entry \in Elems(task[w].todo)

Tasks == [Workers -> [session : Sessions \cup {NoSession},
                      accept : AcceptEvents \cup {NoAccept},
                      todo : Seq(Entries)]]

\* No worker but w moves.
Alone(w) ==
  /\ \A v \in Workers \ {w} : task'[v].accept = task[v].accept
  /\ \A v \in Workers \ {w} : \A r \in Sessions :
       /\ Busy(v, r)' <=> Busy(v, r)
       /\ \A x : On(v, r, x)' <=> On(v, r, x)

\* Worker w leaves entry e of session s and has S before it, in front of what was
\* behind e; with nothing left it lets go of s.
Advances(w, s, e, S) ==
  /\ task' \in Tasks /\ Orderly' /\ Alone(w)
  /\ On(w, s, e)
  /\ \A x : On(w, s, x) => x = e \/ x \in Behind(e)
  /\ \A x : x # e => (On(w, s, x)' <=> x \in S \/ On(w, s, x))
  /\ On(w, s, e)' => e \in S \/ e \in Behind(e)
  /\ Busy(w, s)' => \E x \in Entries : On(w, s, x)'
  /\ \A x : On(w, s, x)' => task'[w].accept = task[w].accept
  /\ \A r \in Sessions \ {s} : ~Busy(w, r) /\ ~Busy(w, r)'

\* Worker w, which was idle, has S before it in session s.
Starts(w, s, S) ==
  /\ task' \in Tasks /\ Orderly' /\ Alone(w)
  /\ \A r \in Sessions : /\ ~Busy(w, r)
                         /\ Busy(w, r)' <=> r = s
                         /\ \A x : On(w, r, x)' <=> r = s /\ x \in S

\* An entry is somewhere in a session.
LEMMA OnBusy == \A w, s, x : On(w, s, x) => Busy(w, s)
BY DEF On

\* Putting q in the place of the head keeps a sequence in order if what may
\* come behind the head may come behind all of q.
LEMMA Replaced ==
  ASSUME NEW r \in Seq(Entries), r # <<>>, InOrder(r),
         NEW q \in Seq(Entries), InOrder(q),
         \A i \in 1..Len(q) : Behind(Head(r)) \subseteq Behind(q[i])
  PROVE  /\ q \o Tail(r) \in Seq(Entries)
         /\ InOrder(q \o Tail(r))
         /\ Elems(Tail(r)) \subseteq Behind(Head(r))
         /\ Elems(r) = {Head(r)} \union Elems(Tail(r))
         /\ Elems(q \o Tail(r)) = Elems(q) \union Elems(Tail(r))
<1> DEFINE z == Tail(r)
           p == q \o z
<1>1. /\ z \in Seq(Entries) /\ Len(z) = Len(r) - 1 /\ Len(r) \in Nat \ {0}
      /\ \A i \in 1..Len(z) : z[i] = r[i + 1]
      /\ Head(r) = r[1]
  BY HeadTailProperties
<1>2. /\ p \in Seq(Entries) /\ Len(p) = Len(q) + Len(z) /\ Len(q) \in Nat
      /\ \A i \in 1..Len(p) : p[i] = IF i <= Len(q) THEN q[i] ELSE z[i - Len(q)]
  BY <1>1
<1> HIDE DEF z, p
<1>3. ASSUME NEW i \in 1..Len(z) PROVE z[i] \in Behind(Head(r))
  <2>1. 1 \in 1..Len(r) /\ i + 1 \in 1..Len(r) /\ 1 < i + 1
    BY <1>1
  <2>2. r[i + 1] \in Behind(r[1])
    BY <2>1 DEF InOrder
  <2> QED
    BY <1>1, <2>2
<1>4. InOrder(z)
  BY <1>1 DEF InOrder
<1>5. InOrder(p)
  <2> SUFFICES ASSUME NEW i \in 1..Len(p), NEW j \in 1..Len(p), i < j
               PROVE  p[j] \in Behind(p[i])
    BY DEF InOrder
  <2>1. CASE j <= Len(q)
    BY <1>2, <2>1 DEF InOrder
  <2>2. CASE i <= Len(q) /\ j > Len(q)
    <3>1. j - Len(q) \in 1..Len(z) /\ p[j] = z[j - Len(q)]
      BY <1>1, <1>2, <2>2
    <3>2. i \in 1..Len(q) /\ p[i] = q[i]
      BY <1>2, <2>2
    <3> QED
      BY <1>3, <3>1, <3>2
  <2>3. CASE i > Len(q)
    <3>1. /\ i - Len(q) \in 1..Len(z) /\ p[i] = z[i - Len(q)]
          /\ j - Len(q) \in 1..Len(z) /\ p[j] = z[j - Len(q)]
          /\ i - Len(q) < j - Len(q)
      BY <1>1, <1>2, <2>3
    <3> QED
      BY <1>4, <3>1 DEF InOrder
  <2> QED
    BY <1>1, <1>2, <2>1, <2>2, <2>3
<1>6. Elems(r) = {Head(r)} \union Elems(z)
  <2>1. ASSUME NEW i \in 1..Len(r) PROVE r[i] \in {Head(r)} \union Elems(z)
    <3>1. CASE i = 1
      BY <1>1, <3>1
    <3>2. CASE i # 1
      <4>1. i - 1 \in 1..Len(z) /\ r[i] = z[i - 1]
        BY <1>1, <3>2
      <4> QED
        BY <4>1 DEF Elems
    <3> QED
      BY <3>1, <3>2
  <2>2. ASSUME NEW i \in 1..Len(z) PROVE z[i] \in Elems(r)
    <3>1. i + 1 \in 1..Len(r) /\ z[i] = r[i + 1]
      BY <1>1
    <3> QED
      BY <3>1 DEF Elems
  <2>3. Head(r) \in Elems(r)
    BY <1>1 DEF Elems
  <2> QED
    BY <2>1, <2>2, <2>3 DEF Elems
<1>7. Elems(p) = Elems(q) \union Elems(z)
  <2>1. ASSUME NEW i \in 1..Len(p) PROVE p[i] \in Elems(q) \union Elems(z)
    <3>1. CASE i <= Len(q)
      BY <1>2, <3>1 DEF Elems
    <3>2. CASE i > Len(q)
      <4>1. i - Len(q) \in 1..Len(z) /\ p[i] = z[i - Len(q)]
        BY <1>1, <1>2, <3>2
      <4> QED
        BY <4>1 DEF Elems
    <3> QED
      BY <1>2, <3>1, <3>2
  <2>2. ASSUME NEW i \in 1..Len(q) PROVE q[i] \in Elems(p)
    <3>1. i \in 1..Len(p) /\ p[i] = q[i]
      BY <1>1, <1>2
    <3> QED
      BY <3>1 DEF Elems
  <2>3. ASSUME NEW i \in 1..Len(z) PROVE z[i] \in Elems(p)
    <3>1. i + Len(q) \in 1..Len(p) /\ p[i + Len(q)] = z[i]
      BY <1>1, <1>2
    <3> QED
      BY <3>1 DEF Elems
  <2> QED
    BY <2>1, <2>2, <2>3 DEF Elems
<1> QED
  BY <1>2, <1>3, <1>5, <1>6, <1>7 DEF Elems, z, p

\* What Continue does to the task of a worker.
LEMMA Continues ==
  ASSUME TypeOK, Orderly, NEW w \in Workers, NEW s \in Sessions, NEW e, At(w, s, e),
         NEW q \in Seq(Entries), InOrder(q), Continue(w, q),
         \A i \in 1..Len(q) : Behind(e) \subseteq Behind(q[i])
  PROVE  Advances(w, s, e, Elems(q))
<1> DEFINE z == Tail(task[w].todo)
           p == q \o z
<1>1. /\ task \in Tasks /\ task[w].todo \in Seq(Entries)
      /\ task[w].todo # <<>> /\ e = Head(task[w].todo) /\ task[w].session = s
  BY DEF TypeOK, At, Tasks
<1>2. /\ p \in Seq(Entries) /\ InOrder(p)
      /\ Elems(z) \subseteq Behind(e)
      /\ Elems(task[w].todo) = {e} \union Elems(z)
      /\ Elems(p) = Elems(q) \union Elems(z)
  BY <1>1, Replaced DEF Orderly
<1>3. task' = [task EXCEPT ![w] = IF p = <<>> THEN Idle ELSE [@ EXCEPT !.todo = p]]
  BY DEF Continue
<1> HIDE DEF p, z
<1>4. /\ \A v \in Workers \ {w} : task'[v] = task[v]
      /\ p = <<>> => task'[w] = Idle
      /\ p # <<>> => task'[w] = [task[w] EXCEPT !.todo = p]
  BY <1>1, <1>3 DEF Tasks
<1>5. /\ task'[w].todo = p
      /\ p # <<>> => task'[w].session = s /\ task'[w].accept = task[w].accept
      /\ p = <<>> => task'[w].session = NoSession
  BY <1>1, <1>4 DEF Idle, Tasks
<1>6. task' \in Tasks
  <2>1. task'[w] \in [session : Sessions \cup {NoSession},
                      accept : AcceptEvents \cup {NoAccept}, todo : Seq(Entries)]
    <3>1. CASE p = <<>>
      <4>1. <<>> \in Seq(Entries)
        OBVIOUS
      <4>2. ASSUME NEW r, r \in Seq(Entries)
            PROVE  [session |-> NoSession, accept |-> NoAccept, todo |-> r]
                     \in [session : Sessions \cup {NoSession},
                          accept : AcceptEvents \cup {NoAccept}, todo : Seq(Entries)]
        BY <4>2
      <4> QED
        BY <1>4, <3>1, <4>1, <4>2, Zenon DEF Idle
    <3>2. CASE p # <<>>
      BY <1>1, <1>2, <1>4, <3>2 DEF Tasks
    <3> QED
      BY <3>1, <3>2
  <2> QED
    BY <1>1, <1>3, <1>4, <2>1 DEF Tasks
<1>7. Orderly'
  BY <1>2, <1>4, <1>5 DEF Orderly
<1>8. Alone(w)
  BY <1>4 DEF Alone, On, Busy
<1>9. p # <<>> => \E x \in Entries : x \in Elems(p)
  <2>1. p # <<>> => 1 \in 1..Len(p) /\ p[1] \in Entries
    BY <1>2
  <2> QED
    BY <2>1 DEF Elems
<1>10. p = <<>> => Elems(p) = {}
  <2>1. 1..Len(<<>>) = {}
    OBVIOUS
  <2> QED
    BY <2>1 DEF Elems
<1>11. /\ \A x : On(w, s, x) <=> x = e \/ x \in Elems(z)
       /\ \A x : On(w, s, x)' <=> x \in Elems(q) \/ x \in Elems(z)
       /\ Busy(w, s)' => \E x \in Entries : On(w, s, x)'
  <2>1. \A x : On(w, s, x) <=> x = e \/ x \in Elems(z)
    BY <1>1, <1>2 DEF On, Busy
  <2>2. \A x : On(w, s, x)' <=> x \in Elems(p)
    BY <1>5, <1>10 DEF On, Busy
  <2>3. Busy(w, s)' => p # <<>>
    BY <1>5, NamesAssumption DEF Busy
  <2> QED
    BY <1>2, <1>9, <2>1, <2>2, <2>3
<1>12. \A r \in Sessions \ {s} : ~Busy(w, r) /\ ~Busy(w, r)'
  BY <1>1, <1>5, NamesAssumption DEF Busy
<1>13. \A x : On(w, s, x)' => task'[w].accept = task[w].accept
  BY <1>5, <1>10 DEF On
<1> QED
  BY <1>2, <1>6, <1>7, <1>8, <1>11, <1>12, <1>13 DEF Advances

\* The sequences the actions put in front.
LEMMA Front1 ==
  ASSUME NEW a \in Entries
  PROVE  <<a>> \in Seq(Entries) /\ InOrder(<<a>>) /\ Elems(<<a>>) = {a}
<1>1. <<a>> \in Seq(Entries) /\ Len(<<a>>) = 1 /\ <<a>>[1] = a
  OBVIOUS
<1>2. 1..1 = {1}
  OBVIOUS
<1> QED
  BY <1>1, <1>2 DEF InOrder, Elems

\* Two of them, the second of which may come behind the first.
LEMMA Front2 ==
  ASSUME NEW a \in Entries, NEW b \in Entries, b \in Behind(a)
  PROVE  <<a, b>> \in Seq(Entries) /\ InOrder(<<a, b>>) /\ Elems(<<a, b>>) = {a, b}
<1>1. <<a, b>> \in Seq(Entries) /\ Len(<<a, b>>) = 2 /\ <<a, b>>[1] = a /\ <<a, b>>[2] = b
  OBVIOUS
<1>2. 1..2 = {1, 2}
  OBVIOUS
<1>3. InOrder(<<a, b>>)
  BY <1>1, <1>2 DEF InOrder
<1>4. Elems(<<a, b>>) = {a, b}
  BY <1>1, <1>2 DEF Elems
<1> QED
  BY <1>1, <1>3, <1>4


\* Continue with nothing, one or two entries.
LEMMA Continue0 ==
  ASSUME TypeOK, Orderly, NEW w \in Workers, NEW s \in Sessions, NEW e, At(w, s, e),
         Continue(w, <<>>)
  PROVE  Advances(w, s, e, {})
<1> DEFINE q == <<>>
<1>1. q \in Seq(Entries) /\ InOrder(q) /\ Elems(q) = {} /\ 1..Len(q) = {}
  BY DEF InOrder, Elems
<1>2. Continue(w, q)
  OBVIOUS
<1> HIDE DEF q
<1>3. Advances(w, s, e, Elems(q))
  BY <1>1, <1>2, Continues
<1> QED
  BY <1>1, <1>3

\* With one entry in the place of the head.
LEMMA Continue1 ==
  ASSUME TypeOK, Orderly, NEW w \in Workers, NEW s \in Sessions, NEW e, At(w, s, e),
         NEW a \in Entries, Behind(e) \subseteq Behind(a), Continue(w, <<a>>)
  PROVE  Advances(w, s, e, {a})
<1> DEFINE q == <<a>>
<1>1. q \in Seq(Entries) /\ InOrder(q) /\ Elems(q) = {a}
  BY Front1
<1>2. \A i \in 1..Len(q) : q[i] = a
  OBVIOUS
<1>3. Continue(w, q)
  OBVIOUS
<1> HIDE DEF q
<1>4. Advances(w, s, e, Elems(q))
  BY <1>1, <1>2, <1>3, Continues
<1> QED
  BY <1>1, <1>4

\* With two.
LEMMA Continue2 ==
  ASSUME TypeOK, Orderly, NEW w \in Workers, NEW s \in Sessions, NEW e, At(w, s, e),
         NEW a \in Entries, NEW b \in Entries, b \in Behind(a),
         Behind(e) \subseteq Behind(a), Behind(e) \subseteq Behind(b),
         Continue(w, <<a, b>>)
  PROVE  Advances(w, s, e, {a, b})
<1> DEFINE q == <<a, b>>
<1>1. q \in Seq(Entries) /\ InOrder(q) /\ Elems(q) = {a, b}
  BY Front2
<1>2. \A i \in 1..Len(q) : q[i] \in {a, b}
  BY <1>1 DEF Elems
<1>3. Continue(w, q)
  OBVIOUS
<1> HIDE DEF q
<1>4. Advances(w, s, e, Elems(q))
  BY <1>1, <1>2, <1>3, Continues
<1> QED
  BY <1>1, <1>4

\* What taking up a task does to an idle worker.
LEMMA Begins ==
  ASSUME TypeOK, Orderly, NEW w \in Workers, task[w] = Idle, NEW s \in Sessions,
         NEW a \in AcceptEvents \cup {NoAccept}, NEW q \in Seq(Entries), InOrder(q),
         task' = [task EXCEPT ![w] = [session |-> s, accept |-> a, todo |-> q]]
  PROVE  /\ Starts(w, s, Elems(q))
         /\ task'[w].accept = a
<1>1. task \in Tasks
  BY DEF TypeOK, Tasks
<1>2. /\ \A v \in Workers \ {w} : task'[v] = task[v]
      /\ task'[w].session = s /\ task'[w].accept = a /\ task'[w].todo = q
  BY <1>1 DEF Tasks
<1>3. task' \in Tasks
  BY <1>1 DEF Tasks
<1>4. Orderly'
  BY <1>2 DEF Orderly
<1>5. Alone(w)
  BY <1>2 DEF Alone, On, Busy
<1>6. task[w].session = NoSession
  BY DEF Idle
<1>7. \A r \in Sessions : ~Busy(w, r) /\ (Busy(w, r)' <=> r = s)
  BY <1>2, <1>6, NamesAssumption DEF Busy
<1>8. \A r \in Sessions : \A x : On(w, r, x)' <=> r = s /\ x \in Elems(q)
  BY <1>2 DEF On, Busy
<1> QED
  BY <1>2, <1>3, <1>4, <1>5, <1>7, <1>8 DEF Starts

\* Behind, entry by entry.
LEMMA Behinds ==
  /\ Behind("RegisterAccept") = {} /\ Behind("RegisterConnect") = {}
  /\ Behind("ConnectRefused") = {} /\ Behind("ProcessSend") = {}
  /\ Behind("RemoveSession") = {}
  /\ Behind("ProcessConnect") = {"AddSession", "OnConnected", "RegisterRecv", "RegisterAccept"}
  /\ Behind("AddSession") = {"OnConnected", "RegisterRecv", "RegisterAccept"}
  /\ Behind("OnConnected") = {"RegisterRecv", "RegisterAccept"}
  /\ Behind("RegisterRecv") = {"RegisterAccept"} /\ Behind("RecvRefused") = {"RegisterAccept"}
  /\ Behind("Send") = {"RegisterRecv", "RegisterAccept", "Disconnect"}
  /\ Behind("RegisterSend") = {"RegisterRecv", "RegisterAccept", "Disconnect"}
  /\ Behind("SendRefused") = {"RegisterRecv", "RegisterAccept", "Disconnect"}
  /\ Behind("OnDisconnected") = {"RemoveSession"}
  /\ \A e \in {"Disconnect", "RegisterDisconnect", "DisconnectRefused"} :
       Behind(e) = {"RecvRefused", "RegisterAccept", "SendRefused", "RegisterRecv",
                    "Disconnect", "ConnectRefused", "ProcessSend"}
BY DEF Behind

\* The entries of a connect are in order, with a "RegisterAccept" behind them or not.
LEMMA Connects ==
  /\ /\ ConnectEntries \in Seq(Entries) /\ InOrder(ConnectEntries)
     /\ Elems(ConnectEntries) = {"ProcessConnect", "AddSession", "OnConnected", "RegisterRecv"}
  /\ /\ ConnectEntries \o <<"RegisterAccept">> \in Seq(Entries)
     /\ InOrder(ConnectEntries \o <<"RegisterAccept">>)
     /\ Elems(ConnectEntries \o <<"RegisterAccept">>) =
          {"ProcessConnect", "AddSession", "OnConnected", "RegisterRecv", "RegisterAccept"}
<1> DEFINE q == ConnectEntries
           r == ConnectEntries \o <<"RegisterAccept">>
<1>1. /\ q \in Seq(Entries) /\ Len(q) = 4
      /\ q[1] = "ProcessConnect" /\ q[2] = "AddSession" /\ q[3] = "OnConnected"
      /\ q[4] = "RegisterRecv"
  BY DEF ConnectEntries, Entries
<1>2. <<"RegisterAccept">> \in Seq(Entries) /\ Len(<<"RegisterAccept">>) = 1
  BY DEF Entries
<1> HIDE DEF q
<1>3. /\ r \in Seq(Entries) /\ Len(r) = 5
      /\ r[1] = "ProcessConnect" /\ r[2] = "AddSession" /\ r[3] = "OnConnected"
      /\ r[4] = "RegisterRecv" /\ r[5] = "RegisterAccept"
  <2>1. PICK c : c = <<"RegisterAccept">>
    OBVIOUS
  <2>2. c \in Seq(Entries) /\ Len(c) = 1 /\ c[1] = "RegisterAccept"
    BY <1>2, <2>1
  <2>3. r = q \o c
    BY <2>1 DEF q
  <2> HIDE DEF r
  <2>4. /\ r \in Seq(Entries) /\ Len(r) = 5
        /\ \A i \in 1..5 : r[i] = IF i <= 4 THEN q[i] ELSE c[i - 4]
    <3>1. \A u, v \in Seq(Entries) :
            /\ u \o v \in Seq(Entries) /\ Len(u \o v) = Len(u) + Len(v)
            /\ \A i \in 1..(Len(u) + Len(v)) :
                 (u \o v)[i] = IF i <= Len(u) THEN u[i] ELSE v[i - Len(u)]
      OBVIOUS
    <3>2. q \o c \in Seq(Entries) /\ Len(q \o c) = Len(q) + Len(c)
      BY <1>1, <2>2, <3>1
    <3>3. \A i \in 1..(Len(q) + Len(c)) :
            (q \o c)[i] = IF i <= Len(q) THEN q[i] ELSE c[i - Len(q)]
      BY <1>1, <2>2, <3>1
    <3>4. Len(q) + Len(c) = 5 /\ Len(q) = 4
      BY <1>1, <2>2
    <3> QED
      BY <2>3, <3>2, <3>3, <3>4
  <2>5. r[1] = q[1] /\ r[2] = q[2] /\ r[3] = q[3] /\ r[4] = q[4] /\ r[5] = c[1]
    BY <2>4
  <2> QED
    BY <1>1, <2>2, <2>4, <2>5
<1> HIDE DEF r
<1>4. 1..4 = {1, 2, 3, 4} /\ 1..5 = {1, 2, 3, 4, 5}
  OBVIOUS
<1>5. InOrder(q) /\ Elems(q) = {q[1], q[2], q[3], q[4]}
  <2>1. InOrder(q)
    BY <1>1, <1>4, Behinds DEF InOrder
  <2>2. Elems(q) = {q[1], q[2], q[3], q[4]}
    BY <1>1, <1>4 DEF Elems
  <2> QED
    BY <2>1, <2>2
<1>6. InOrder(r) /\ Elems(r) = {r[1], r[2], r[3], r[4], r[5]}
  <2>1. InOrder(r)
    BY <1>3, <1>4, Behinds DEF InOrder
  <2>2. Elems(r) = {r[1], r[2], r[3], r[4], r[5]}
    BY <1>3, <1>4 DEF Elems
  <2> QED
    BY <2>1, <2>2
<1> QED
  BY <1>1, <1>3, <1>5, <1>6 DEF q, r

\* The ways an operation of Register can go.
Registers(w, s, x, e, cleanup) ==
  \/ s \notin connected /\ Advances(w, s, x, {}) /\ UNCHANGED <<owner, inFlight, deaf>>
  \/ /\ s \in connected /\ Advances(w, s, x, {})
     /\ owner' = owner \cup {<<s, e>>} /\ inFlight' = inFlight \cup {<<s, e>>}
     /\ UNCHANGED deaf
  \/ /\ s \in connected /\ Advances(w, s, x, {"Disconnect", cleanup})
     /\ owner' = owner \cup {<<s, e>>} /\ UNCHANGED <<inFlight, deaf>>
  \/ /\ s \in connected /\ Advances(w, s, x, {cleanup})
     /\ owner' = owner \cup {<<s, e>>} /\ UNCHANGED inFlight
     /\ deaf' = IF e = "recv" THEN deaf \cup {s} ELSE deaf

\* What Register does to the task of the worker that calls it.
LEMMA RegisterTurn ==
  ASSUME TypeOK, Orderly, NEW w \in Workers, NEW s \in Sessions, NEW e, NEW x, At(w, s, x),
         NEW cleanup \in {"RecvRefused", "SendRefused"},
         Behind(x) \subseteq Behind(cleanup), Register(w, s, e, cleanup)
  PROVE  Registers(w, s, x, e, cleanup)
<1>1. /\ cleanup \in Entries /\ "Disconnect" \in Entries /\ cleanup \in Behind("Disconnect")
      /\ Behind(cleanup) \subseteq Behind("Disconnect")
  BY Behinds DEF Entries
<1>2. Continue(w, <<>>) => Advances(w, s, x, {})
  BY Continue0
<1>3. Continue(w, <<cleanup>>) => Advances(w, s, x, {cleanup})
  BY <1>1, Continue1
<1>4. Continue(w, <<"Disconnect", cleanup>>) => Advances(w, s, x, {"Disconnect", cleanup})
  <2>1. Behind(x) \subseteq Behind("Disconnect")
    BY <1>1
  <2> QED
    BY <1>1, <2>1, Continue2
<1>5. <<"Disconnect", cleanup>> # <<cleanup>>
  OBVIOUS
<1>6. CASE /\ s \in connected /\ owner' = owner \cup {<<s, e>>} /\ UNCHANGED inFlight
           /\ \E entries \in Refused(cleanup) :
                /\ Continue(w, entries)
                /\ deaf' = IF e = "recv" /\ entries = <<cleanup>> THEN deaf \cup {s} ELSE deaf
  BY <1>3, <1>4, <1>5, <1>6 DEF Refused, Registers
<1> QED
  BY <1>2, <1>6 DEF Register, Registers, events

\* What the actions do to the task of their worker.
LEMMA Turn ==
  ASSUME TypeOK, Orderly, NEW w \in Workers, NEW s \in Sessions
  PROVE  /\ RegisterAccept(w, s) => Advances(w, s, "RegisterAccept", {})
         /\ RegisterConnect(w, s) =>
              \/ Advances(w, s, "RegisterConnect", {}) /\ UNCHANGED events
              \/ /\ Advances(w, s, "RegisterConnect", {})
                 /\ owner' = owner \cup {<<s, "connect">>}
                 /\ inFlight' = inFlight \cup {<<s, "connect">>}
              \/ /\ \E S \in SUBSET {"Disconnect"} :
                      Advances(w, s, "RegisterConnect", S \cup {"ConnectRefused"})
                 /\ owner' = owner \cup {<<s, "connect">>}
                 /\ UNCHANGED inFlight
         /\ ConnectRefused(w, s) => Advances(w, s, "ConnectRefused", {})
         /\ ProcessConnect(w, s) => Advances(w, s, "ProcessConnect", {})
         /\ AddSession(w, s) => Advances(w, s, "AddSession", {})
         /\ OnConnected(w, s) =>
              \/ s = clientSession /\ Advances(w, s, "OnConnected", {"Send"})
              \/ s # clientSession /\ Advances(w, s, "OnConnected", {})
         /\ RegisterRecv(w, s) => Registers(w, s, "RegisterRecv", "recv", "RecvRefused")
         /\ RecvRefused(w, s) => Advances(w, s, "RecvRefused", {})
         /\ Send(w, s) =>
              \/ s \notin connected /\ Advances(w, s, "Send", {})
              \/ s \in connected /\ s \in sendRegistered /\ Advances(w, s, "Send", {})
              \/ /\ s \in connected /\ s \notin sendRegistered
                 /\ Advances(w, s, "Send", {"RegisterSend"})
         /\ RegisterSend(w, s) => Registers(w, s, "RegisterSend", "send", "SendRefused")
         /\ SendRefused(w, s) => Advances(w, s, "SendRefused", {})
         /\ ProcessSend(w, s) =>
              \/ /\ s \in sendWaiting /\ UNCHANGED sendRegistered
                 /\ Registers(w, s, "ProcessSend", "send", "SendRefused")
              \/ /\ sendRegistered' = sendRegistered \ {s} /\ Advances(w, s, "ProcessSend", {})
                 /\ UNCHANGED <<events, deaf>>
         /\ Disconnect(w, s) =>
              \/ s \notin connected /\ Advances(w, s, "Disconnect", {})
              \/ s \in connected /\ Advances(w, s, "Disconnect", {"RegisterDisconnect"})
         /\ RegisterDisconnect(w, s) =>
              \/ /\ Advances(w, s, "RegisterDisconnect", {})
                 /\ inFlight' = inFlight \cup {<<s, "disconnect">>}
                 /\ UNCHANGED <<misread, abandoned>>
              \/ /\ Advances(w, s, "RegisterDisconnect", {"DisconnectRefused"})
                 /\ inFlight' = inFlight \cup {<<s, "disconnect">>}
                 /\ misread' = misread \cup {s} /\ UNCHANGED abandoned
              \/ /\ Advances(w, s, "RegisterDisconnect", {})
                 /\ abandoned' = abandoned \cup {s}
                 /\ UNCHANGED <<inFlight, misread>>
         /\ DisconnectRefused(w, s) => Advances(w, s, "DisconnectRefused", {})
         /\ OnDisconnected(w, s) => Advances(w, s, "OnDisconnected", {})
         /\ RemoveSession(w, s) => Advances(w, s, "RemoveSession", {})
<1>1. /\ {"ConnectRefused", "Send", "RegisterSend", "Disconnect", "RegisterDisconnect",
          "DisconnectRefused"} \subseteq Entries
      /\ "ConnectRefused" \in Behind("Disconnect")
  BY Behinds DEF Entries
<1>2. RegisterAccept(w, s) => Advances(w, s, "RegisterAccept", {})
  BY Continue0 DEF RegisterAccept
<1>3. RegisterConnect(w, s) =>
        \/ Advances(w, s, "RegisterConnect", {}) /\ UNCHANGED events
        \/ /\ Advances(w, s, "RegisterConnect", {})
           /\ owner' = owner \cup {<<s, "connect">>}
           /\ inFlight' = inFlight \cup {<<s, "connect">>}
        \/ /\ \E S \in SUBSET {"Disconnect"} :
                Advances(w, s, "RegisterConnect", S \cup {"ConnectRefused"})
           /\ owner' = owner \cup {<<s, "connect">>}
           /\ UNCHANGED inFlight
  <2> SUFFICES ASSUME At(w, s, "RegisterConnect")
               PROVE  /\ Continue(w, <<>>) => Advances(w, s, "RegisterConnect", {})
                      /\ \A entries \in Refused("ConnectRefused") :
                           Continue(w, entries) =>
                             \E S \in SUBSET {"Disconnect"} :
                               Advances(w, s, "RegisterConnect", S \cup {"ConnectRefused"})
    BY DEF RegisterConnect
  <2>1. Continue(w, <<>>) => Advances(w, s, "RegisterConnect", {})
    BY Continue0
  <2>2. Continue(w, <<"ConnectRefused">>) =>
          Advances(w, s, "RegisterConnect", {} \cup {"ConnectRefused"})
    <3>1. Continue(w, <<"ConnectRefused">>) =>
            Advances(w, s, "RegisterConnect", {"ConnectRefused"})
      BY <1>1, Continue1, Behinds
    <3>2. {} \cup {"ConnectRefused"} = {"ConnectRefused"}
      OBVIOUS
    <3> QED
      BY <3>1, <3>2
  <2>3. Continue(w, <<"Disconnect", "ConnectRefused">>) =>
          Advances(w, s, "RegisterConnect", {"Disconnect"} \cup {"ConnectRefused"})
    <3>1. Continue(w, <<"Disconnect", "ConnectRefused">>) =>
            Advances(w, s, "RegisterConnect", {"Disconnect", "ConnectRefused"})
      BY <1>1, Continue2, Behinds
    <3>2. {"Disconnect"} \cup {"ConnectRefused"} = {"Disconnect", "ConnectRefused"}
      OBVIOUS
    <3> QED
      BY <3>1, <3>2
  <2> QED
    BY <2>1, <2>2, <2>3 DEF Refused
<1>4. /\ ConnectRefused(w, s) => Advances(w, s, "ConnectRefused", {})
      /\ ProcessConnect(w, s) => Advances(w, s, "ProcessConnect", {})
      /\ AddSession(w, s) => Advances(w, s, "AddSession", {})
  BY Continue0 DEF ConnectRefused, ProcessConnect, AddSession
<1>5. OnConnected(w, s) =>
        \/ s = clientSession /\ Advances(w, s, "OnConnected", {"Send"})
        \/ s # clientSession /\ Advances(w, s, "OnConnected", {})
  BY <1>1, Continue0, Continue1, Behinds DEF OnConnected
<1>6. RegisterRecv(w, s) => Registers(w, s, "RegisterRecv", "recv", "RecvRefused")
  BY RegisterTurn, Behinds DEF RegisterRecv
<1>7. /\ RecvRefused(w, s) => Advances(w, s, "RecvRefused", {})
      /\ SendRefused(w, s) => Advances(w, s, "SendRefused", {})
  BY Continue0 DEF RecvRefused, SendRefused
<1>8. Send(w, s) =>
        \/ s \notin connected /\ Advances(w, s, "Send", {})
        \/ s \in connected /\ s \in sendRegistered /\ Advances(w, s, "Send", {})
        \/ /\ s \in connected /\ s \notin sendRegistered
           /\ Advances(w, s, "Send", {"RegisterSend"})
  BY <1>1, Continue0, Continue1, Behinds DEF Send
<1>9. RegisterSend(w, s) => Registers(w, s, "RegisterSend", "send", "SendRefused")
  BY RegisterTurn, Behinds DEF RegisterSend, PostSend
<1>10. ProcessSend(w, s) =>
         \/ /\ s \in sendWaiting /\ UNCHANGED sendRegistered
            /\ Registers(w, s, "ProcessSend", "send", "SendRefused")
         \/ /\ sendRegistered' = sendRegistered \ {s} /\ Advances(w, s, "ProcessSend", {})
            /\ UNCHANGED <<events, deaf>>
  BY RegisterTurn, Continue0, Behinds DEF ProcessSend, PostSend
<1>11. Disconnect(w, s) =>
         \/ s \notin connected /\ Advances(w, s, "Disconnect", {})
         \/ s \in connected /\ Advances(w, s, "Disconnect", {"RegisterDisconnect"})
  BY <1>1, Continue0, Continue1, Behinds DEF Disconnect
<1>12. RegisterDisconnect(w, s) =>
         \/ /\ Advances(w, s, "RegisterDisconnect", {})
            /\ inFlight' = inFlight \cup {<<s, "disconnect">>}
            /\ UNCHANGED <<misread, abandoned>>
         \/ /\ Advances(w, s, "RegisterDisconnect", {"DisconnectRefused"})
            /\ inFlight' = inFlight \cup {<<s, "disconnect">>}
            /\ misread' = misread \cup {s} /\ UNCHANGED abandoned
         \/ /\ Advances(w, s, "RegisterDisconnect", {})
            /\ abandoned' = abandoned \cup {s}
            /\ UNCHANGED <<inFlight, misread>>
  <2> SUFFICES ASSUME At(w, s, "RegisterDisconnect")
               PROVE  /\ Continue(w, <<>>) => Advances(w, s, "RegisterDisconnect", {})
                      /\ Continue(w, <<"DisconnectRefused">>) =>
                           Advances(w, s, "RegisterDisconnect", {"DisconnectRefused"})
    BY DEF RegisterDisconnect
  <2> QED
    BY <1>1, Continue0, Continue1, Behinds
<1>13. /\ DisconnectRefused(w, s) => Advances(w, s, "DisconnectRefused", {})
       /\ OnDisconnected(w, s) => Advances(w, s, "OnDisconnected", {})
       /\ RemoveSession(w, s) => Advances(w, s, "RemoveSession", {})
  BY Continue0 DEF DisconnectRefused, OnDisconnected, RemoveSession
<1> QED
  BY <1>2, <1>3, <1>4, <1>5, <1>6, <1>7, <1>8, <1>9, <1>10, <1>11, <1>12, <1>13

\* What a worker starts with for a completion, by event, and for an accept.
Firsts(e) ==
  CASE e = "connect" -> {{"ProcessConnect", "AddSession", "OnConnected", "RegisterRecv"}}
    [] e = "recv"    -> {{"Disconnect"}, {"RegisterRecv"}, {"Send", "RegisterRecv"},
                         {"Send", "Disconnect"}}
    [] e = "send"    -> {{"ProcessSend"}, {"Disconnect", "ProcessSend"}}
    [] OTHER         -> {{"OnDisconnected", "RemoveSession"}}

AcceptFirsts ==
  {{"RegisterAccept"},
   {"ProcessConnect", "AddSession", "OnConnected", "RegisterRecv", "RegisterAccept"}}

\* ObserveIO starts the handler of the event, or crashes.
LEMMA Observed ==
  ASSUME TypeOK, Orderly, NEW w \in Workers, NEW s \in Sessions, NEW e \in Events,
         ObserveIO(w, s, e)
  PROVE  IF <<s, e>> \in owner
           THEN (\E S \in Firsts(e) : Starts(w, s, S)) /\ UNCHANGED crash
           ELSE crash' = "owner" /\ UNCHANGED task
<1>1. ASSUME NEW q \in Seq(Entries), InOrder(q),
             task' = [task EXCEPT ![w] = [Idle EXCEPT !.session = s, !.todo = q]]
      PROVE  Starts(w, s, Elems(q))
  <2>1. [Idle EXCEPT !.session = s, !.todo = q] = [session |-> s, accept |-> NoAccept, todo |-> q]
    <3> DEFINE R == [session : Sessions \cup {NoSession}, accept : AcceptEvents \cup {NoAccept},
                     todo : Seq(Entries)]
               p == [Idle EXCEPT !.session = s, !.todo = q]
               r == [session |-> s, accept |-> NoAccept, todo |-> q]
    <3>1. Idle \in R
      BY DEF ObserveIO, TypeOK
    <3>2. Idle.accept = NoAccept
      BY DEF Idle
    <3>3. p \in R /\ p.session = s /\ p.accept = NoAccept /\ p.todo = q
      BY <3>1, <3>2
    <3>4. r \in R /\ r.session = s /\ r.accept = NoAccept /\ r.todo = q
      OBVIOUS
    <3>5. \A u, v \in R :
            u.session = v.session /\ u.accept = v.accept /\ u.todo = v.todo => u = v
      OBVIOUS
    <3> HIDE DEF R, p, r
    <3>6. p = r
      BY <3>3, <3>4, <3>5
    <3> QED
      BY <3>6 DEF p, r
  <2> QED
    BY <1>1, <2>1, Begins DEF ObserveIO
<1>2. ASSUME NEW q \in Handlers(e)
      PROVE  q \in Seq(Entries) /\ InOrder(q) /\ Elems(q) \in Firsts(e)
  <2>1. CASE e = "connect"
    BY <1>2, <2>1, Connects DEF Handlers, Firsts
  <2>2. CASE e = "recv"
    <3>1. \A a \in {"Disconnect", "RegisterRecv"} :
            <<a>> \in Seq(Entries) /\ InOrder(<<a>>) /\ Elems(<<a>>) = {a}
      BY Front1 DEF Entries
    <3>2. \A a \in {"Disconnect", "RegisterRecv"} :
            /\ <<"Send", a>> \in Seq(Entries) /\ InOrder(<<"Send", a>>)
            /\ Elems(<<"Send", a>>) = {"Send", a}
      <4>1. \A a \in {"Disconnect", "RegisterRecv"} : a \in Entries /\ a \in Behind("Send")
        BY Behinds DEF Entries
      <4>2. "Send" \in Entries
        BY DEF Entries
      <4> QED
        BY <4>1, <4>2, Front2
    <3> QED
      BY <1>2, <2>2, <3>1, <3>2 DEF Handlers, Firsts
  <2>3. CASE e = "send"
    <3>1. /\ <<"ProcessSend">> \in Seq(Entries) /\ InOrder(<<"ProcessSend">>)
          /\ Elems(<<"ProcessSend">>) = {"ProcessSend"}
      BY Front1 DEF Entries
    <3>2. /\ <<"Disconnect", "ProcessSend">> \in Seq(Entries)
          /\ InOrder(<<"Disconnect", "ProcessSend">>)
          /\ Elems(<<"Disconnect", "ProcessSend">>) = {"Disconnect", "ProcessSend"}
      BY Front2, Behinds DEF Entries
    <3> QED
      BY <1>2, <2>3, <3>1, <3>2 DEF Handlers, Firsts
  <2>4. CASE e = "disconnect"
    <3>1. /\ <<"OnDisconnected", "RemoveSession">> \in Seq(Entries)
          /\ InOrder(<<"OnDisconnected", "RemoveSession">>)
          /\ Elems(<<"OnDisconnected", "RemoveSession">>) = {"OnDisconnected", "RemoveSession"}
      BY Front2, Behinds DEF Entries
    <3> QED
      BY <1>2, <2>4, <3>1 DEF Handlers, Firsts
  <2> QED
    BY <2>1, <2>2, <2>3, <2>4 DEF Events
<1>3. CASE <<s, e>> \in owner
  <2>1. PICK q \in Handlers(e) :
          task' = [task EXCEPT ![w] = [Idle EXCEPT !.session = s, !.todo = q]]
    BY <1>3 DEF ObserveIO
  <2>2. Starts(w, s, Elems(q)) /\ Elems(q) \in Firsts(e)
    BY <1>1, <1>2, <2>1
  <2>3. UNCHANGED crash
    BY <1>3 DEF ObserveIO
  <2> QED
    BY <1>3, <2>2, <2>3
<1>4. CASE <<s, e>> \notin owner
  BY <1>4 DEF ObserveIO
<1> QED
  BY <1>3, <1>4

\* ProcessAccept starts in the session of its AcceptEvent.
LEMMA Accepted ==
  ASSUME TypeOK, Orderly, NEW w \in Workers, ProcessAccept(w), clientSession = NoSession
  PROVE  \E a \in accepting, S \in AcceptFirsts :
           /\ armed[a] \in Sessions /\ accepting' = accepting \ {a}
           /\ Starts(w, armed[a], S) /\ task'[w].accept = a
<1>1. PICK a \in accepting, q \in AcceptEntries :
        /\ accepting' = accepting \ {a}
        /\ task' = [task EXCEPT ![w] = [session |-> armed[a], accept |-> a, todo |-> q]]
  BY DEF ProcessAccept
<1>2. a \in AcceptEvents /\ armed[a] \in Sessions /\ task[w] = Idle
  BY DEF TypeOK, ProcessAccept
<1>3. q \in Seq(Entries) /\ InOrder(q) /\ Elems(q) \in AcceptFirsts
  <2>1. /\ <<"RegisterAccept">> \in Seq(Entries) /\ InOrder(<<"RegisterAccept">>)
        /\ Elems(<<"RegisterAccept">>) = {"RegisterAccept"}
    BY Front1 DEF Entries
  <2> QED
    BY <2>1, Connects DEF AcceptEntries, AcceptFirsts
<1>4. Starts(w, armed[a], Elems(q)) /\ task'[w].accept = a
  BY <1>1, <1>2, <1>3, Begins
<1> QED
  BY <1>1, <1>2, <1>3, <1>4

-----------------------------------------------------------------------------
(* The inductive invariant                                                   *)

\* The entries that e may put in its place.
After(e) ==
  CASE e = "OnConnected"        -> {"Send"}
    [] e = "Send"               -> {"RegisterSend"}
    [] e = "RegisterConnect"    -> {"Disconnect", "ConnectRefused"}
    [] e = "RegisterRecv"       -> {"Disconnect", "RecvRefused"}
    [] e \in {"RegisterSend", "ProcessSend"} -> {"Disconnect", "SendRefused"}
    [] e = "Disconnect"         -> {"RegisterDisconnect"}
    [] e = "RegisterDisconnect" -> {"DisconnectRefused"}
    [] OTHER -> {}

Moves(w, s, e) == \E S \in SUBSET After(e) : Advances(w, s, e, S)

\* Worker w has one of the entries of F before it in session s.
Among(w, s, F) == \E x \in F : On(w, s, x)

\* An accept in which s is to be the session is outstanding.
Waits(s) == \E a \in accepting : armed[a] = s

\* Only a server accepts, each time with a session of its own.
AcceptInv ==
  /\ \A a, b \in accepting : armed[a] = armed[b] => a = b
  /\ accepting # {} => clientSession = NoSession
  /\ \A w \in Workers, s \in Sessions :
       On(w, s, "RegisterAccept") => task[w].accept \in AcceptEvents /\ clientSession = NoSession

\* The entries of a session nobody else knows of yet.
OpenEntries == {"RegisterConnect", "ProcessConnect", "AddSession", "OnConnected"}

\* Until OnConnected has returned, one accept, one completion or one worker has
\* the session and nothing else.
AloneInv ==
  \A s \in Sessions :
    /\ Waits(s) => /\ \A w \in Workers : ~Busy(w, s)
                   /\ \A e \in Events : <<s, e>> \notin inFlight
    /\ <<s, "connect">> \in inFlight =>
         /\ \A w \in Workers : ~Busy(w, s)
         /\ \A e \in Events \ {"connect"} : <<s, e>> \notin inFlight
    /\ \A w \in Workers : Among(w, s, OpenEntries) =>
         /\ \A v \in Workers \ {w} : ~Busy(v, s)
         /\ \A e \in Events : <<s, e>> \notin inFlight

\* The entries that register the next receive, or have it registered behind them.
RecvEntries == OpenEntries \cup {"ConnectRefused", "RegisterRecv", "RecvRefused", "Send"}

\* One worker has the receive of a session, or a completion is to come.
RecvInv ==
  \A s \in Sessions, w \in Workers :
    Among(w, s, RecvEntries) =>
      /\ \A v \in Workers \ {w} : ~Among(v, s, RecvEntries)
      /\ <<s, "recv">> \notin inFlight

SendEntries == {"RegisterSend", "SendRefused", "ProcessSend"}

\* One worker has the send of a session, or a completion is to come, and the
\* token is taken.
SendInv ==
  \A s \in Sessions :
    /\ <<s, "send">> \in inFlight => s \in sendRegistered
    /\ \A w \in Workers :
         Among(w, s, SendEntries) =>
           /\ \A v \in Workers \ {w} : ~Among(v, s, SendEntries)
           /\ <<s, "send">> \notin inFlight
           /\ s \in sendRegistered

\* An owner is cleared while no completion is to come, but for a misread DisconnectEx.
OwnerInv ==
  /\ \A s \in Sessions, e \in Events :
       <<s, e>> \in inFlight /\ <<s, e>> \notin owner => e = "disconnect" /\ s \in misread
  /\ \A w \in Workers, s \in Sessions :
       /\ On(w, s, "DisconnectRefused") => s \in misread
       /\ On(w, s, "ConnectRefused") => <<s, "connect">> \notin inFlight
  /\ crash = "owner" => misread # {}

EndEntries == {"RegisterDisconnect", "OnDisconnected", "RemoveSession"}

\* The session has not been connected.
Fresh(s) ==
  \/ Waits(s) \/ <<s, "connect">> \in inFlight
  \/ \E w \in Workers : Among(w, s, {"RegisterConnect", "ProcessConnect"})

\* A session is connected once and disconnected once, and one worker at a time
\* has its end.
LifeInv ==
  \A s \in Sessions :
    /\ <<s, "disconnect">> \in inFlight \/ Fresh(s) => s \notin connected
    /\ \A w \in Workers :
         /\ Among(w, s, EndEntries) =>
              /\ \A v \in Workers \ {w} : ~Among(v, s, EndEntries)
              /\ s \notin connected
              /\ <<s, "disconnect">> \notin inFlight
         /\ On(w, s, "ProcessConnect") =>
              On(w, s, "AddSession") /\ On(w, s, "OnConnected") /\ On(w, s, "RegisterRecv")
         /\ On(w, s, "AddSession") => On(w, s, "OnConnected")
         /\ On(w, s, "OnConnected") => s \in connected \/ On(w, s, "ProcessConnect")
         /\ On(w, s, "OnDisconnected") => On(w, s, "RemoveSession")

\* A session is listed by the service from AddSession to RemoveSession.
ListInv ==
  /\ IsFiniteSet(sessions) /\ sessionCount = Cardinality(sessions)
  /\ \A s \in Sessions :
       /\ Fresh(s) \/ (\E w \in Workers : On(w, s, "AddSession")) => s \notin sessions
       /\ s \in connected => s \in sessions \/ \E w \in Workers : On(w, s, "AddSession")
       /\ <<s, "disconnect">> \in inFlight \/ (\E w \in Workers : Among(w, s, EndEntries))
            => s \in sessions
       /\ s \in sessions =>
            \/ s \in connected \/ s \in abandoned \/ crashed
            \/ <<s, "disconnect">> \in inFlight
            \/ \E w \in Workers : Among(w, s, EndEntries)

\* The entries of a disconnect before OnDisconnected.
OutEntries == {"RegisterDisconnect", "OnDisconnected"}

\* The application has been told what its session went through.
CallsInv ==
  \A s \in Sessions :
    /\ calls[s] \in {<<>>, <<"OnConnected">>, <<"OnConnected", "OnDisconnected">>}
    /\ Fresh(s) \/ (\E w \in Workers : On(w, s, "OnConnected"))
         => calls[s] = <<>> /\ s \notin clients
    /\ s \in connected =>
         \/ calls[s] = <<"OnConnected">> /\ s \in clients \cup {clientSession}
         \/ \E w \in Workers : On(w, s, "OnConnected")
    /\ <<s, "disconnect">> \in inFlight => calls[s] = <<"OnConnected">>
    /\ \A w \in Workers : Among(w, s, OutEntries) => calls[s] = <<"OnConnected">>
    /\ s \in clients =>
         \/ s \in connected \/ s \in abandoned \/ crashed
         \/ <<s, "disconnect">> \in inFlight
         \/ \E w \in Workers : Among(w, s, OutEntries)

\* The entries of a session that is received from or disconnected.
ServeEntries == {"RegisterRecv", "Disconnect"}

\* A connected session is received from, or will be, unless a refusal was passed over.
ServedInv ==
  \A s \in connected \ deaf :
    \/ <<s, "recv">> \in inFlight
    \/ \E w \in Workers : Among(w, s, ServeEntries)

Inv == /\ TypeOK /\ Orderly /\ AcceptInv /\ AloneInv /\ RecvInv /\ SendInv /\ OwnerInv
       /\ LifeInv /\ ListInv /\ CallsInv /\ ServedInv

-----------------------------------------------------------------------------
(* The steps of a worker                                                     *)

\* The action for entry e.
Act(w, s, e) ==
  CASE e = "RegisterAccept"     -> RegisterAccept(w, s)
    [] e = "RegisterConnect"    -> RegisterConnect(w, s)
    [] e = "ConnectRefused"     -> ConnectRefused(w, s)
    [] e = "ProcessConnect"     -> ProcessConnect(w, s)
    [] e = "AddSession"         -> AddSession(w, s)
    [] e = "OnConnected"        -> OnConnected(w, s)
    [] e = "RegisterRecv"       -> RegisterRecv(w, s)
    [] e = "RecvRefused"        -> RecvRefused(w, s)
    [] e = "Send"               -> Send(w, s)
    [] e = "RegisterSend"       -> RegisterSend(w, s)
    [] e = "SendRefused"        -> SendRefused(w, s)
    [] e = "ProcessSend"        -> ProcessSend(w, s)
    [] e = "Disconnect"         -> Disconnect(w, s)
    [] e = "RegisterDisconnect" -> RegisterDisconnect(w, s)
    [] e = "DisconnectRefused"  -> DisconnectRefused(w, s)
    [] e = "OnDisconnected"     -> OnDisconnected(w, s)
    [] e = "RemoveSession"      -> RemoveSession(w, s)

\* All steps of the process but a crash in RegisterAccept.
Turns(w) ==
  \/ \E s \in Sessions, e \in Entries : Moves(w, s, e) /\ Act(w, s, e)
  \/ \E s \in Sessions, e \in Events : ObserveIO(w, s, e)
  \/ ProcessAccept(w)

\* A step is a move, or a crash in RegisterAccept.
LEMMA StepTurns ==
  ASSUME TypeOK, Orderly, NEW w \in Workers, Step(w)
  PROVE  Turns(w) \/ \E s \in Sessions : RegisterAcceptNull(w, s)
<1>1. PICK s \in Sessions :
        \/ RegisterAcceptNull(w, s)
        \/ \E e \in Entries : Act(w, s, e)
  BY DEF Step, Act, Entries
<1>2. ASSUME NEW e \in Entries, Act(w, s, e)
      PROVE  Moves(w, s, e)
  <2> SUFFICES \E S \in SUBSET After(e) : Advances(w, s, e, S)
    BY DEF Moves
  <2>1. CASE e \in {"RegisterAccept", "ConnectRefused", "ProcessConnect", "AddSession",
                    "RecvRefused", "SendRefused", "DisconnectRefused", "OnDisconnected",
                    "RemoveSession"}
    <3>1. \A x : At(w, s, x) /\ Continue(w, <<>>) => Advances(w, s, x, {})
      BY Continue0
    <3>2. At(w, s, e) /\ Continue(w, <<>>)
      <4>1. CASE e \in {"RegisterAccept", "ConnectRefused", "ProcessConnect", "AddSession"}
        BY <1>2, <4>1 DEF Act, RegisterAccept, ConnectRefused, ProcessConnect, AddSession
      <4>2. CASE e \in {"RecvRefused", "SendRefused", "DisconnectRefused"}
        BY <1>2, <4>2 DEF Act, RecvRefused, SendRefused, DisconnectRefused
      <4>3. CASE e \in {"OnDisconnected", "RemoveSession"}
        BY <1>2, <4>3 DEF Act, OnDisconnected, RemoveSession
      <4> QED
        BY <2>1, <4>1, <4>2, <4>3
    <3> QED
      BY <3>1, <3>2
  <2>2. CASE e = "RegisterConnect"
    <3>1. After(e) = {"Disconnect", "ConnectRefused"}
      BY <2>2 DEF After
    <3>2. \/ Advances(w, s, e, {})
          \/ \E S \in SUBSET {"Disconnect"} : Advances(w, s, e, S \cup {"ConnectRefused"})
      BY <1>2, <2>2, Turn DEF Act
    <3>3. \A S \in SUBSET {"Disconnect"} : S \cup {"ConnectRefused"} \in SUBSET After(e)
      BY <3>1
    <3> QED
      BY <3>2, <3>3
  <2>3. CASE e \in {"OnConnected", "Send", "Disconnect", "RegisterDisconnect"}
    <3>1. PICK a : After(e) = {a}
      BY <2>3 DEF After
    <3>2. Advances(w, s, e, {}) \/ Advances(w, s, e, {a})
      <4>1. CASE e = "OnConnected"
        BY <1>2, <3>1, <4>1, Turn DEF Act, After
      <4>2. CASE e = "Send"
        BY <1>2, <3>1, <4>2, Turn DEF Act, After
      <4>3. CASE e = "Disconnect"
        BY <1>2, <3>1, <4>3, Turn DEF Act, After
      <4>4. CASE e = "RegisterDisconnect"
        BY <1>2, <3>1, <4>4, Turn DEF Act, After
      <4> QED
        BY <2>3, <4>1, <4>2, <4>3, <4>4
    <3> QED
      BY <3>1, <3>2
  <2>4. CASE e \in {"RegisterRecv", "RegisterSend", "ProcessSend"}
    <3>1. PICK cleanup : After(e) = {"Disconnect", cleanup}
      BY <2>4 DEF After
    <3>2. \/ Advances(w, s, e, {}) \/ Advances(w, s, e, {"Disconnect", cleanup})
          \/ Advances(w, s, e, {cleanup})
      <4>1. /\ e = "RegisterRecv" => cleanup = "RecvRefused"
            /\ e # "RegisterRecv" => cleanup = "SendRefused"
        BY <2>4, <3>1 DEF After
      <4>2. \A f : Registers(w, s, e, f, cleanup) =>
                        \/ Advances(w, s, e, {}) \/ Advances(w, s, e, {"Disconnect", cleanup})
                        \/ Advances(w, s, e, {cleanup})
        BY DEF Registers
      <4>3. Advances(w, s, e, {}) \/ \E f : Registers(w, s, e, f, cleanup)
        <5>1. CASE e = "RegisterRecv"
          BY <1>2, <4>1, <5>1, Turn DEF Act
        <5>2. CASE e = "RegisterSend"
          BY <1>2, <4>1, <5>2, Turn DEF Act
        <5>3. CASE e = "ProcessSend"
          BY <1>2, <4>1, <5>3, Turn DEF Act
        <5> QED
          BY <2>4, <5>1, <5>2, <5>3
      <4> QED
        BY <4>2, <4>3
    <3> QED
      BY <3>1, <3>2
  <2> QED
    BY <2>1, <2>2, <2>3, <2>4 DEF Entries
<1> QED
  BY <1>1, <1>2 DEF Turns

\* Who changes what.
LEMMA Frames ==
  ASSUME NEW w \in Workers, NEW s \in Sessions, NEW e \in Entries, Act(w, s, e)
  PROVE  /\ ~crashed /\ UNCHANGED crash /\ UNCHANGED clientSession
         /\ e # "RegisterAccept" => UNCHANGED accepts
         /\ e \notin {"RegisterAccept", "ProcessConnect", "Disconnect"} => UNCHANGED connected
         /\ e \notin {"RegisterConnect", "RegisterRecv", "RegisterSend", "ProcessSend",
                      "RegisterDisconnect"} => UNCHANGED inFlight
         /\ e \notin {"RegisterConnect", "RegisterRecv", "RegisterSend", "ProcessSend",
                      "RegisterDisconnect", "ConnectRefused", "RecvRefused", "SendRefused",
                      "DisconnectRefused"} => UNCHANGED owner
         /\ e \notin {"RegisterAccept", "Send", "RegisterSend", "SendRefused", "ProcessSend"}
              => UNCHANGED sending
         /\ e \notin {"AddSession", "RemoveSession"} => UNCHANGED <<sessions, sessionCount>>
         /\ e \notin {"OnConnected", "OnDisconnected"} => UNCHANGED clients
         /\ e \notin {"RegisterAccept", "OnConnected", "OnDisconnected"} => UNCHANGED calls
         /\ e \notin {"RegisterAccept", "RegisterRecv", "RegisterSend", "ProcessSend"}
              => UNCHANGED deaf
         /\ e \notin {"RegisterAccept", "RegisterDisconnect"} => UNCHANGED <<misread, abandoned>>
<1> USE DEF events, sending, lists, accepts, history
<1>1. CASE e \in {"RegisterAccept", "RegisterConnect", "ConnectRefused"}
  BY <1>1 DEF Act, RegisterAccept, RegisterConnect, ConnectRefused, At
<1>2. CASE e \in {"ProcessConnect", "AddSession", "OnConnected"}
  BY <1>2 DEF Act, ProcessConnect, AddSession, OnConnected, At
<1>3. CASE e \in {"RegisterRecv", "RecvRefused", "Send", "SendRefused"}
  BY <1>3 DEF Act, RegisterRecv, RecvRefused, Send, SendRefused, At
<1>4. CASE e \in {"RegisterSend", "ProcessSend"}
  BY <1>4 DEF Act, RegisterSend, ProcessSend, PostSend, At
<1>5. CASE e \in {"Disconnect", "RegisterDisconnect", "DisconnectRefused"}
  BY <1>5 DEF Act, Disconnect, RegisterDisconnect, DisconnectRefused, At
<1>6. CASE e \in {"OnDisconnected", "RemoveSession"}
  BY <1>6 DEF Act, OnDisconnected, RemoveSession, At
<1> QED
  BY <1>1, <1>2, <1>3, <1>4, <1>5, <1>6 DEF Entries

\* What a move does to the entries of all workers in all sessions.
LEMMA Moving ==
  ASSUME NEW w \in Workers, NEW s \in Sessions, NEW e, Moves(w, s, e)
  PROVE  /\ task' \in Tasks /\ Orderly'
         /\ Busy(w, s) /\ On(w, s, e)
         /\ \A v \in Workers, r \in Sessions : Busy(v, r)' => Busy(v, r)
         /\ \A v \in Workers, r \in Sessions : v # w \/ r # s =>
              \A x : On(v, r, x)' <=> On(v, r, x)
         /\ \A x : On(w, s, x) => x = e \/ x \in Behind(e)
         /\ \A x : x # e /\ On(w, s, x) => On(w, s, x)'
         /\ \A x : On(w, s, x)' => x \in After(e) \/ x \in Behind(e)
         /\ \A x : On(w, s, x)' => On(w, s, x) \/ x \in After(e)
         /\ \A v \in Workers, r \in Sessions : \A x :
              On(v, r, x)' => task'[v].accept = task[v].accept
         /\ Busy(w, s)' => \E x \in Entries : On(w, s, x)'
<1>1. PICK S \in SUBSET After(e) : Advances(w, s, e, S)
  BY DEF Moves
<1>2. \A v, r, x : (On(v, r, x) => Busy(v, r)) /\ (On(v, r, x)' => Busy(v, r)')
  BY DEF On, Busy
<1>3. Busy(w, s) /\ \A r \in Sessions \ {s} : ~Busy(w, r) /\ ~Busy(w, r)'
  BY <1>1, <1>2 DEF Advances
<1>4. \A v \in Workers \ {w} : \A r \in Sessions :
        (Busy(v, r)' <=> Busy(v, r)) /\ \A x : On(v, r, x)' <=> On(v, r, x)
  <2>1. Alone(w)
    BY <1>1 DEF Advances
  <2> QED
    BY <2>1 DEF Alone
<1>5. \A v \in Workers, r \in Sessions : v # w \/ r # s => \A x : On(v, r, x)' <=> On(v, r, x)
  BY <1>2, <1>3, <1>4
<1>6. \A v \in Workers, r \in Sessions : Busy(v, r)' => Busy(v, r)
  BY <1>3, <1>4
<1>7. \A v \in Workers, r \in Sessions : \A x : On(v, r, x)' => task'[v].accept = task[v].accept
  <2>1. \A v \in Workers \ {w} : task'[v].accept = task[v].accept
    BY <1>1 DEF Advances, Alone
  <2>2. \A x : On(w, s, x)' => task'[w].accept = task[w].accept
    BY <1>1 DEF Advances
  <2>3. \A r \in Sessions \ {s} : \A x : ~On(w, r, x)'
    BY <1>2, <1>3
  <2> QED
    BY <2>1, <2>2, <2>3
<1> QED
  BY <1>1, <1>3, <1>5, <1>6, <1>7 DEF Advances

\* What a start does to them.
LEMMA Starting ==
  ASSUME NEW w \in Workers, NEW s \in Sessions, NEW S, Starts(w, s, S)
  PROVE  /\ task' \in Tasks /\ Orderly'
         /\ \A r \in Sessions : ~Busy(w, r)
         /\ \A v \in Workers, r \in Sessions : Busy(v, r)' => Busy(v, r) \/ (v = w /\ r = s)
         /\ \A v \in Workers, r \in Sessions : v # w \/ r # s =>
              \A x : On(v, r, x)' <=> On(v, r, x)
         /\ \A v \in Workers \ {w} : task'[v].accept = task[v].accept
         /\ \A x : On(w, s, x)' <=> x \in S
         /\ \A x : ~On(w, s, x)
<1>1. \A v, r, x : (On(v, r, x) => Busy(v, r)) /\ (On(v, r, x)' => Busy(v, r)')
  BY DEF On, Busy
<1>2. /\ \A r \in Sessions : ~Busy(w, r)
      /\ \A r \in Sessions : Busy(w, r)' <=> r = s
      /\ \A r \in Sessions : \A x : On(w, r, x)' <=> r = s /\ x \in S
  BY DEF Starts
<1>3. \A v \in Workers \ {w} : \A r \in Sessions :
        (Busy(v, r)' <=> Busy(v, r)) /\ \A x : On(v, r, x)' <=> On(v, r, x)
  <2>1. Alone(w)
    BY DEF Starts
  <2> QED
    BY <2>1 DEF Alone
<1>4. \A v \in Workers, r \in Sessions : v # w \/ r # s => \A x : On(v, r, x)' <=> On(v, r, x)
  BY <1>1, <1>2, <1>3
<1>5. \A v \in Workers, r \in Sessions : Busy(v, r)' => Busy(v, r) \/ (v = w /\ r = s)
  BY <1>2, <1>3
<1>6. \A v \in Workers \ {w} : task'[v].accept = task[v].accept
  BY DEF Starts, Alone
<1> QED
  BY <1>1, <1>2, <1>4, <1>5, <1>6 DEF Starts

\* A name for a new session is nobody's.
LEMMA Frees ==
  ASSUME TypeOK, NEW new \in Free
  PROVE  /\ new \in Sessions \ (sessions \cup clients) /\ new # clientSession
         /\ \A w \in Workers : ~Busy(w, new) /\ \A x : ~On(w, new, x)
         /\ \A e \in Events : <<new, e>> \notin inFlight /\ <<new, e>> \notin owner
         /\ \A a \in AcceptEvents : armed[a] # new
BY DEF Free, Alive, Busy, On

\* A move brings nobody to an entry of a set that holds all who may put it.
LEMMA Kept ==
  ASSUME NEW w \in Workers, NEW s \in Sessions, NEW e, Moves(w, s, e),
         NEW F, After(e) \cap F # {} => e \in F
  PROVE  \A v \in Workers, r \in Sessions : Among(v, r, F)' => Among(v, r, F)
<1>1. \A v \in Workers, r \in Sessions : v # w \/ r # s => \A x : On(v, r, x)' <=> On(v, r, x)
  BY Moving
<1>2. On(w, s, e) /\ \A x : On(w, s, x)' => On(w, s, x) \/ x \in After(e)
  BY Moving
<1>3. Among(w, s, F)' => Among(w, s, F)
  BY <1>2 DEF Among
<1> QED
  BY <1>1, <1>3 DEF Among

\* The same task, the same entries.
LEMMA Same ==
  ASSUME UNCHANGED task
  PROVE  /\ \A v, r : Busy(v, r)' <=> Busy(v, r)
         /\ \A v, r, x : On(v, r, x)' <=> On(v, r, x)
BY DEF Busy, On

-----------------------------------------------------------------------------
(* Accepting                                                                 *)

\* Every turn keeps AcceptInv.
LEMMA AcceptStep ==
  ASSUME Inv, NEW w \in Workers, Turns(w)
  PROVE  AcceptInv'
<1> USE DEF Inv
<1>1. ASSUME NEW s \in Sessions, NEW e \in Entries, Moves(w, s, e), Act(w, s, e)
      PROVE  AcceptInv'
  <2>1. \A v \in Workers, r \in Sessions :
          On(v, r, "RegisterAccept")' =>
            On(v, r, "RegisterAccept") /\ task'[v].accept = task[v].accept
    <3>1. "RegisterAccept" \notin After(e)
      BY DEF After
    <3> QED
      BY <1>1, <3>1, Moving
  <2>2. UNCHANGED clientSession
    BY <1>1, Frames
  <2>3. CASE e = "RegisterAccept"
    <3>1. PICK new \in Free :
            /\ armed' = [armed EXCEPT ![task[w].accept] = new]
            /\ accepting' = accepting \cup {task[w].accept}
      BY <1>1, <2>3 DEF Act, RegisterAccept
    <3>2. \A a \in AcceptEvents : armed[a] # new
      BY Frees
    <3>3. task[w].accept \in AcceptEvents /\ clientSession = NoSession
      BY <1>1, <2>3, Moving DEF AcceptInv
    <3>4. accepting \subseteq AcceptEvents /\ DOMAIN armed = AcceptEvents
      BY DEF TypeOK
    <3> QED
      BY <2>1, <2>2, <3>1, <3>2, <3>3, <3>4 DEF AcceptInv
  <2>4. CASE e # "RegisterAccept"
    <3>1. UNCHANGED <<armed, accepting>>
      BY <1>1, <2>4, Frames DEF accepts
    <3> QED
      BY <2>1, <2>2, <3>1 DEF AcceptInv
  <2> QED
    BY <2>3, <2>4
<1>2. ASSUME NEW s \in Sessions, NEW e \in Events, ObserveIO(w, s, e)
      PROVE  AcceptInv'
  <2>1. UNCHANGED <<armed, accepting, clientSession>>
    BY <1>2 DEF ObserveIO, accepts
  <2>2. CASE <<s, e>> \in owner
    <3>1. PICK S \in Firsts(e) : Starts(w, s, S)
      BY <1>2, <2>2, Observed
    <3>2. "RegisterAccept" \notin S
      BY DEF Firsts
    <3>3. \A v \in Workers, r \in Sessions : On(v, r, "RegisterAccept")' =>
            v # w /\ On(v, r, "RegisterAccept") /\ task'[v].accept = task[v].accept
      <4>1. \A r \in Sessions : ~On(w, r, "RegisterAccept")'
        BY <3>1, <3>2 DEF Starts
      <4> QED
        BY <3>1, <4>1, Starting
    <3> QED
      BY <2>1, <3>3 DEF AcceptInv
  <2>3. CASE <<s, e>> \notin owner
    BY <1>2, <2>1, <2>3, Observed, Same DEF AcceptInv
  <2> QED
    BY <2>2, <2>3
<1>3. CASE ProcessAccept(w)
  <2>1. clientSession = NoSession /\ UNCHANGED <<armed, clientSession>>
    BY <1>3 DEF ProcessAccept, AcceptInv
  <2>2. PICK a \in accepting, S \in AcceptFirsts :
           /\ armed[a] \in Sessions /\ accepting' = accepting \ {a}
           /\ Starts(w, armed[a], S) /\ task'[w].accept = a
    BY <1>3, <2>1, Accepted
  <2>3. a \in AcceptEvents
    BY DEF TypeOK
  <2>4. \A v \in Workers, r \in Sessions : On(v, r, "RegisterAccept")' =>
          v = w \/ (On(v, r, "RegisterAccept") /\ task'[v].accept = task[v].accept)
    BY <2>2, Starting
  <2> QED
    BY <2>1, <2>2, <2>3, <2>4 DEF AcceptInv
<1> QED
  BY <1>1, <1>2, <1>3 DEF Turns

\* The sessions that wait for an accept are those before, and the new one of
\* RegisterAccept.
LEMMA Waiting ==
  ASSUME TypeOK, AcceptInv, NEW w \in Workers, NEW s \in Sessions, NEW e \in Entries,
         Moves(w, s, e), Act(w, s, e)
  PROVE  \/ e # "RegisterAccept" /\ \A r \in Sessions : Waits(r)' <=> Waits(r)
         \/ /\ e = "RegisterAccept"
            /\ \E new \in Free :
                 /\ \A r \in Sessions : Waits(r)' => Waits(r) \/ r = new
                 /\ connected' = connected \ {new}
                 /\ sendRegistered' = sendRegistered \ {new}
                 /\ calls' = [calls EXCEPT ![new] = <<>>]
                 /\ deaf' = deaf \ {new} /\ misread' = misread \ {new}
                 /\ abandoned' = abandoned \ {new}
<1>1. CASE e # "RegisterAccept"
  <2>1. UNCHANGED <<armed, accepting>>
    BY <1>1, Frames DEF accepts
  <2> QED
    BY <1>1, <2>1 DEF Waits
<1>2. CASE e = "RegisterAccept"
  <2>1. PICK new \in Free :
          /\ armed' = [armed EXCEPT ![task[w].accept] = new]
          /\ accepting' = accepting \cup {task[w].accept}
          /\ connected' = connected \ {new}
          /\ sendRegistered' = sendRegistered \ {new}
          /\ calls' = [calls EXCEPT ![new] = <<>>]
          /\ deaf' = deaf \ {new} /\ misread' = misread \ {new}
          /\ abandoned' = abandoned \ {new}
    BY <1>2 DEF Act, RegisterAccept
  <2>2. accepting \subseteq AcceptEvents /\ DOMAIN armed = AcceptEvents
    BY DEF TypeOK
  <2>3. task[w].accept \in AcceptEvents
    BY <1>2, Moving DEF AcceptInv
  <2>4. \A r \in Sessions : Waits(r)' => Waits(r) \/ r = new
    BY <2>1, <2>2, <2>3 DEF Waits
  <2> QED
    BY <1>2, <2>1, <2>4
<1> QED
  BY <1>1, <1>2

\* A session that is accepted does not wait any more.
LEMMA Fetched ==
  ASSUME TypeOK, Orderly, AcceptInv, NEW w \in Workers, ProcessAccept(w)
  PROVE  \E s \in Sessions, S \in AcceptFirsts :
           /\ Waits(s) /\ ~Waits(s)' /\ Starts(w, s, S)
           /\ \A r \in Sessions : Waits(r)' => Waits(r)
<1>1. clientSession = NoSession /\ UNCHANGED <<armed, clientSession>>
  BY DEF ProcessAccept, AcceptInv
<1>2. PICK a \in accepting, S \in AcceptFirsts :
         /\ armed[a] \in Sessions /\ accepting' = accepting \ {a}
         /\ Starts(w, armed[a], S) /\ task'[w].accept = a
  BY <1>1, Accepted
<1>3. /\ Waits(armed[a]) /\ \A r \in Sessions : Waits(r)' => Waits(r) /\ r # armed[a]
  BY <1>1, <1>2 DEF Waits, AcceptInv
<1>4. \A r \in Sessions : Waits(r)' => r # armed[a]
  BY <1>3
<1> QED
  BY <1>2, <1>3, <1>4

\* A completion leaves the accepts alone.
LEMMA ObservedWaits ==
  ASSUME NEW w \in Workers, NEW s \in Sessions, NEW e \in Events, ObserveIO(w, s, e)
  PROVE  \A r \in Sessions : Waits(r)' <=> Waits(r)
BY DEF ObserveIO, accepts, Waits

-----------------------------------------------------------------------------
(* A session nobody else knows of                                            *)

\* The completions that are to come, by entry.
LEMMA Flights ==
  ASSUME TypeOK, Orderly, NEW w \in Workers, NEW s \in Sessions, NEW e \in Entries,
         Moves(w, s, e), Act(w, s, e)
  PROVE  \/ UNCHANGED inFlight
         \/ \E f \in Events :
              /\ inFlight' = inFlight \cup {<<s, f>>}
              /\ \/ e = "RegisterConnect" /\ f = "connect"
                 \/ e = "RegisterRecv" /\ f = "recv"
                 \/ e \in {"RegisterSend", "ProcessSend"} /\ f = "send"
                 \/ e = "RegisterDisconnect" /\ f = "disconnect"
              /\ e # "RegisterDisconnect" =>
                   \A x : On(w, s, x)' => x \in Behind(e)
<1>1. ASSUME Advances(w, s, e, {})
      PROVE  \A x : On(w, s, x)' => x \in Behind(e)
  BY <1>1 DEF Advances
<1>2. CASE e = "RegisterConnect"
  <2>1. \/ UNCHANGED inFlight
        \/ Advances(w, s, e, {}) /\ inFlight' = inFlight \cup {<<s, "connect">>}
    BY <1>2, Turn DEF Act, events
  <2> QED
    BY <1>1, <1>2, <2>1 DEF Events
<1>3. CASE e = "RegisterRecv"
  <2>1. \/ UNCHANGED inFlight
        \/ Advances(w, s, e, {}) /\ inFlight' = inFlight \cup {<<s, "recv">>}
    BY <1>3, Turn DEF Act, Registers
  <2> QED
    BY <1>1, <1>3, <2>1 DEF Events
<1>4. CASE e \in {"RegisterSend", "ProcessSend"}
  <2>1. \/ UNCHANGED inFlight
        \/ Advances(w, s, e, {}) /\ inFlight' = inFlight \cup {<<s, "send">>}
    <3>1. CASE e = "RegisterSend"
      BY <3>1, Turn DEF Act, Registers
    <3>2. CASE e = "ProcessSend"
      BY <3>2, Turn DEF Act, Registers, events
    <3> QED
      BY <1>4, <3>1, <3>2
  <2> QED
    BY <1>1, <1>4, <2>1 DEF Events
<1>5. CASE e = "RegisterDisconnect"
  <2>1. UNCHANGED inFlight \/ inFlight' = inFlight \cup {<<s, "disconnect">>}
    BY <1>5 DEF Act, RegisterDisconnect
  <2> QED
    BY <1>5, <2>1 DEF Events
<1>6. CASE e \notin {"RegisterConnect", "RegisterRecv", "RegisterSend", "ProcessSend",
                     "RegisterDisconnect"}
  BY <1>6, Frames
<1> QED
  BY <1>2, <1>3, <1>4, <1>5, <1>6

\* Every turn keeps AloneInv.
LEMMA AloneStep ==
  ASSUME Inv, NEW w \in Workers, Turns(w)
  PROVE  AloneInv'
<1> USE DEF Inv
<1>1. ASSUME NEW s \in Sessions, NEW e \in Entries, Moves(w, s, e), Act(w, s, e)
      PROVE  AloneInv'
  <2>1. /\ Busy(w, s) /\ \A v \in Workers, r \in Sessions : Busy(v, r)' => Busy(v, r)
        /\ ~Waits(s) /\ <<s, "connect">> \notin inFlight
    BY <1>1, Moving DEF AloneInv
  <2>2. \A r \in Sessions : Waits(r)' =>
          \/ Waits(r)
          \/ /\ \A v \in Workers : ~Busy(v, r)
             /\ \A f \in Events : <<r, f>> \notin inFlight
    BY <1>1, Waiting, Frees
  <2>3. \A v \in Workers, r \in Sessions :
          Among(v, r, OpenEntries)' => Among(v, r, OpenEntries)
    <3>1. After(e) \cap OpenEntries = {}
      BY DEF After, OpenEntries, Entries
    <3> QED
      BY <1>1, <3>1, Kept
  <2>4. ASSUME Among(w, s, OpenEntries)
        PROVE  e \in OpenEntries
    <3>1. PICK x \in OpenEntries : x = e \/ x \in Behind(e)
      BY <1>1, <2>4, Moving DEF Among
    <3> QED
      BY <3>1 DEF Behind, OpenEntries, Entries
  <2>5. CASE UNCHANGED inFlight
    BY <2>1, <2>2, <2>3, <2>5 DEF AloneInv
  <2>6. CASE inFlight' # inFlight
    <3>1. PICK f \in Events :
            /\ inFlight' = inFlight \cup {<<s, f>>}
            /\ e = "RegisterConnect" <=> f = "connect"
            /\ e = "RegisterConnect" => \A x : On(w, s, x)' => x \in Behind(e)
            /\ e \in OpenEntries => e = "RegisterConnect"
      BY <1>1, <2>6, Flights DEF OpenEntries
    <3>2. ~Among(w, s, OpenEntries)'
      <4>1. CASE e = "RegisterConnect"
        <5>1. \A x : ~On(w, s, x)'
          BY <3>1, <4>1, Behinds
        <5> QED
          BY <5>1 DEF Among
      <4>2. CASE e # "RegisterConnect"
        BY <2>3, <2>4, <3>1, <4>2
      <4> QED
        BY <4>1, <4>2
    <3>3. \A v \in Workers \ {w} : ~Among(v, s, OpenEntries)'
      BY <2>1, <2>3 DEF AloneInv
    <3>4. ~Waits(s)'
      BY <2>1, <2>2
    <3>5. f = "connect" =>
            /\ \A v \in Workers : ~Busy(v, s)'
            /\ \A g \in Events \ {"connect"} : <<s, g>> \notin inFlight'
      <4>1. SUFFICES ASSUME f = "connect"
                     PROVE  /\ \A v \in Workers : ~Busy(v, s)'
                            /\ \A g \in Events \ {"connect"} : <<s, g>> \notin inFlight'
        OBVIOUS
      <4>2. Among(w, s, OpenEntries)
        BY <1>1, <3>1, <4>1, Moving DEF Among, OpenEntries
      <4>3. ~Busy(w, s)'
        <5>1. \A x : ~On(w, s, x)'
          BY <3>1, <4>1, Behinds
        <5> QED
          BY <1>1, <5>1, Moving
      <4>4. \A v \in Workers : ~Busy(v, s)'
        BY <2>1, <4>2, <4>3 DEF AloneInv
      <4> QED
        BY <3>1, <4>1, <4>2, <4>4 DEF AloneInv
    <3> SUFFICES ASSUME NEW r \in Sessions
                 PROVE  /\ Waits(r)' => /\ \A v \in Workers : ~Busy(v, r)'
                                        /\ \A g \in Events : <<r, g>> \notin inFlight'
                        /\ <<r, "connect">> \in inFlight' =>
                             /\ \A v \in Workers : ~Busy(v, r)'
                             /\ \A g \in Events \ {"connect"} : <<r, g>> \notin inFlight'
                        /\ \A v \in Workers : Among(v, r, OpenEntries)' =>
                             /\ \A u \in Workers \ {v} : ~Busy(u, r)'
                             /\ \A g \in Events : <<r, g>> \notin inFlight'
      BY DEF AloneInv
    <3>6. CASE r = s
      <4>1. f # "connect" => <<s, "connect">> \notin inFlight'
        BY <2>1, <3>1
      <4> QED
        BY <3>2, <3>3, <3>4, <3>5, <3>6, <4>1
    <3>7. CASE r # s
      <4>1. \A g : <<r, g>> \in inFlight' <=> <<r, g>> \in inFlight
        BY <3>1, <3>7
      <4> QED
        BY <2>1, <2>2, <2>3, <4>1 DEF AloneInv
    <3> QED
      BY <3>6, <3>7
  <2> QED
    BY <2>5, <2>6
<1>2. ASSUME NEW s \in Sessions, NEW e \in Events, ObserveIO(w, s, e)
      PROVE  AloneInv'
  <2>1. <<s, e>> \in inFlight /\ inFlight' = inFlight \ {<<s, e>>}
    BY <1>2 DEF ObserveIO
  <2>2. \A r \in Sessions : Waits(r)' <=> Waits(r)
    BY <1>2, ObservedWaits
  <2>3. CASE <<s, e>> \in owner
    <3>1. PICK S \in Firsts(e) : Starts(w, s, S)
      BY <1>2, <2>3, Observed
    <3>2. \A v \in Workers, r \in Sessions :
            /\ Busy(v, r)' => Busy(v, r) \/ (v = w /\ r = s)
            /\ v # w \/ r # s => (Among(v, r, OpenEntries)' <=> Among(v, r, OpenEntries))
      BY <3>1, Starting DEF Among
    <3>3. e # "connect" => ~Among(w, s, OpenEntries)'
      <4>1. \A x : On(w, s, x)' <=> x \in S
        BY <3>1, Starting
      <4>2. e # "connect" => S \cap OpenEntries = {}
        BY DEF Firsts, OpenEntries, Events
      <4> QED
        BY <4>1, <4>2 DEF Among
    <3>4. ~Waits(s) /\ (e # "connect" => <<s, "connect">> \notin inFlight)
      BY <2>1 DEF AloneInv
    <3>5. \A v \in Workers : ~Among(v, s, OpenEntries)
      BY <2>1 DEF AloneInv
    <3> SUFFICES ASSUME NEW r \in Sessions
                 PROVE  /\ Waits(r)' => /\ \A v \in Workers : ~Busy(v, r)'
                                        /\ \A g \in Events : <<r, g>> \notin inFlight'
                        /\ <<r, "connect">> \in inFlight' =>
                             /\ \A v \in Workers : ~Busy(v, r)'
                             /\ \A g \in Events \ {"connect"} : <<r, g>> \notin inFlight'
                        /\ \A v \in Workers : Among(v, r, OpenEntries)' =>
                             /\ \A u \in Workers \ {v} : ~Busy(u, r)'
                             /\ \A g \in Events : <<r, g>> \notin inFlight'
      BY DEF AloneInv
    <3>6. CASE r = s
      <4>1. ~Waits(s)' /\ <<s, "connect">> \notin inFlight'
        BY <2>1, <2>2, <3>4
      <4>2. \A v \in Workers : Among(v, s, OpenEntries)' => v = w /\ e = "connect"
        BY <3>2, <3>3, <3>5
      <4>3. e = "connect" => /\ \A u \in Workers \ {w} : ~Busy(u, s)'
                             /\ \A g \in Events : <<s, g>> \notin inFlight'
        BY <2>1, <3>2 DEF AloneInv
      <4> QED
        BY <3>6, <4>1, <4>2, <4>3
    <3>7. CASE r # s
      BY <2>1, <2>2, <3>2, <3>7 DEF AloneInv
    <3> QED
      BY <3>6, <3>7
  <2>4. CASE <<s, e>> \notin owner
    <3>1. UNCHANGED task
      BY <1>2, <2>4, Observed
    <3>2. \A v \in Workers, r \in Sessions :
            (Busy(v, r)' <=> Busy(v, r)) /\ (Among(v, r, OpenEntries)' <=> Among(v, r, OpenEntries))
      BY <3>1, Same DEF Among
    <3> QED
      BY <2>1, <2>2, <3>2 DEF AloneInv
  <2> QED
    BY <2>3, <2>4
<1>3. CASE ProcessAccept(w)
  <2>1. PICK s \in Sessions, S \in AcceptFirsts :
          /\ Waits(s) /\ ~Waits(s)' /\ Starts(w, s, S)
          /\ \A r \in Sessions : Waits(r)' => Waits(r)
    BY <1>3, Fetched
  <2>2. UNCHANGED inFlight
    BY <1>3 DEF ProcessAccept, events
  <2>3. \A v \in Workers, r \in Sessions :
          /\ Busy(v, r)' => Busy(v, r) \/ (v = w /\ r = s)
          /\ v # w \/ r # s => (Among(v, r, OpenEntries)' <=> Among(v, r, OpenEntries))
    BY <2>1, Starting DEF Among
  <2>4. /\ \A v \in Workers : ~Busy(v, s) /\ ~Among(v, s, OpenEntries)
        /\ \A e \in Events : <<s, e>> \notin inFlight
        /\ "connect" \in Events
    BY <2>1, OnBusy DEF AloneInv, Among, Events
  <2> QED
    BY <2>1, <2>2, <2>3, <2>4 DEF AloneInv
<1> QED
  BY <1>1, <1>2, <1>3 DEF Turns

-----------------------------------------------------------------------------
(* One receive and one send                                                  *)

\* Every turn keeps RecvInv.
LEMMA RecvStep ==
  ASSUME Inv, NEW w \in Workers, Turns(w)
  PROVE  RecvInv'
<1> USE DEF Inv
<1>1. ASSUME NEW s \in Sessions, NEW e \in Entries, Moves(w, s, e), Act(w, s, e)
      PROVE  RecvInv'
  <2>1. \A v \in Workers, r \in Sessions :
          Among(v, r, RecvEntries)' => Among(v, r, RecvEntries)
    <3>1. After(e) \cap RecvEntries # {} => e \in RecvEntries
      BY DEF After, RecvEntries, OpenEntries, Entries
    <3> QED
      BY <1>1, <3>1, Kept
  <2>2. CASE e = "RegisterRecv" /\ inFlight' = inFlight \cup {<<s, "recv">>}
    <3>1. \A x : On(w, s, x)' => x \in {"RegisterAccept"}
      <4>1. \A x : On(w, s, x)' => x \in Behind(e)
        <5>1. <<s, "recv">> \notin inFlight
          BY <1>1, <2>2, Moving DEF RecvInv, Among, RecvEntries
        <5> QED
          BY <1>1, <2>2, <5>1, Flights
      <4> QED
        BY <2>2, <4>1, Behinds
    <3>2. ~Among(w, s, RecvEntries)'
      BY <3>1 DEF Among, RecvEntries, OpenEntries
    <3>3. Among(w, s, RecvEntries)
      BY <1>1, <2>2, Moving DEF Among, RecvEntries
    <3>4. \A v \in Workers : ~Among(v, s, RecvEntries)'
      BY <2>1, <3>2, <3>3 DEF RecvInv
    <3>5. \A r \in Sessions \ {s} : <<r, "recv">> \in inFlight' => <<r, "recv">> \in inFlight
      BY <2>2
    <3> QED
      BY <2>1, <3>4, <3>5 DEF RecvInv
  <2>3. CASE \A r \in Sessions : <<r, "recv">> \in inFlight' => <<r, "recv">> \in inFlight
    BY <2>1, <2>3 DEF RecvInv
  <2> QED
    BY <1>1, <2>2, <2>3, Flights
<1>2. ASSUME NEW s \in Sessions, NEW e \in Events, ObserveIO(w, s, e)
      PROVE  RecvInv'
  <2>1. <<s, e>> \in inFlight /\ inFlight' = inFlight \ {<<s, e>>}
    BY <1>2 DEF ObserveIO
  <2>2. CASE <<s, e>> \in owner
    <3>1. PICK S \in Firsts(e) : Starts(w, s, S)
      BY <1>2, <2>2, Observed
    <3>2. \A v \in Workers, r \in Sessions : v # w \/ r # s =>
            (Among(v, r, RecvEntries)' <=> Among(v, r, RecvEntries))
      BY <3>1, Starting DEF Among
    <3>3. CASE e \in {"connect", "recv"}
      <4>1. \A v \in Workers : ~Among(v, s, RecvEntries)
        <5>1. CASE e = "connect"
          BY <2>1, <5>1, OnBusy DEF AloneInv, Among
        <5>2. CASE e = "recv"
          BY <2>1, <5>2 DEF RecvInv
        <5> QED
          BY <3>3, <5>1, <5>2
      <4>2. <<s, "recv">> \notin inFlight'
        BY <2>1, <3>3 DEF AloneInv, Events
      <4> QED
        BY <2>1, <3>2, <4>1, <4>2 DEF RecvInv
    <3>4. CASE e \in {"send", "disconnect"}
      <4>1. \A x : On(w, s, x)' <=> x \in S
        BY <3>1, Starting
      <4>2. S \cap RecvEntries = {}
        BY <3>4 DEF Firsts, RecvEntries, OpenEntries
      <4>3. ~Among(w, s, RecvEntries)'
        BY <4>1, <4>2 DEF Among
      <4> QED
        BY <2>1, <3>2, <4>3 DEF RecvInv
    <3> QED
      BY <3>3, <3>4 DEF Events
  <2>3. CASE <<s, e>> \notin owner
    <3>1. \A v \in Workers, r \in Sessions : Among(v, r, RecvEntries)' <=> Among(v, r, RecvEntries)
      BY <1>2, <2>3, Observed, Same DEF Among
    <3> QED
      BY <2>1, <3>1 DEF RecvInv
  <2> QED
    BY <2>2, <2>3
<1>3. CASE ProcessAccept(w)
  <2>1. PICK s \in Sessions, S \in AcceptFirsts : Waits(s) /\ Starts(w, s, S)
    BY <1>3, Fetched
  <2>2. UNCHANGED inFlight
    BY <1>3 DEF ProcessAccept, events
  <2>3. \A v \in Workers, r \in Sessions : v # w \/ r # s =>
          (Among(v, r, RecvEntries)' <=> Among(v, r, RecvEntries))
    BY <2>1, Starting DEF Among
  <2>4. /\ \A v \in Workers : ~Among(v, s, RecvEntries)
        /\ <<s, "recv">> \notin inFlight
    BY <2>1, OnBusy DEF AloneInv, Among, Events
  <2> QED
    BY <2>2, <2>3, <2>4 DEF RecvInv
<1> QED
  BY <1>1, <1>2, <1>3 DEF Turns

\* Every turn keeps SendInv.
LEMMA SendStep ==
  ASSUME Inv, NEW w \in Workers, Turns(w)
  PROVE  SendInv'
<1> USE DEF Inv
<1>1. ASSUME NEW s \in Sessions, NEW e \in Entries, Moves(w, s, e), Act(w, s, e)
      PROVE  SendInv'
  <2>1. \A v \in Workers, r \in Sessions : v # w \/ r # s =>
          (Among(v, r, SendEntries)' <=> Among(v, r, SendEntries))
    BY <1>1, Moving DEF Among
  <2>2. e # "Send" => (Among(w, s, SendEntries)' => Among(w, s, SendEntries))
    <3>1. e # "Send" => (After(e) \cap SendEntries # {} => e \in SendEntries)
      BY DEF After, SendEntries, Entries
    <3> QED
      BY <1>1, <3>1, Kept
  <2>3. CASE e = "RegisterAccept"
    <3>1. PICK new \in Free : sendRegistered' = sendRegistered \ {new}
      BY <1>1, <2>3, Waiting
    <3>2. UNCHANGED inFlight
      BY <1>1, <2>3, Frames
    <3>3. /\ \A v \in Workers : ~Among(v, new, SendEntries)
          /\ <<new, "send">> \notin inFlight
      BY Frees DEF Among, Events
    <3> QED
      BY <2>1, <2>2, <2>3, <3>1, <3>2, <3>3 DEF SendInv
  <2>4. CASE e = "Send"
    <3>1. UNCHANGED inFlight
      BY <1>1, <2>4, Frames
    <3>2. \/ UNCHANGED sendRegistered /\ \A x : On(w, s, x)' => On(w, s, x)
          \/ /\ s \in sendRegistered /\ sendRegistered' = sendRegistered \cup {s}
             /\ \A x : On(w, s, x)' => On(w, s, x)
          \/ s \notin sendRegistered /\ sendRegistered' = sendRegistered \cup {s}
      <4>1. Advances(w, s, "Send", {}) => \A x : On(w, s, x)' => On(w, s, x)
        <5>1. Advances(w, s, "Send", {}) => /\ \A x : x # "Send" => (On(w, s, x)' <=> x \in {} \/ On(w, s, x))
                                            /\ On(w, s, "Send")
          BY DEF Advances
        <5> QED
          BY <5>1
      <4>2. \/ s \notin connected /\ Advances(w, s, "Send", {})
            \/ s \in connected /\ s \in sendRegistered /\ Advances(w, s, "Send", {})
            \/ s \in connected /\ s \notin sendRegistered
        BY <1>1, <2>4, Turn DEF Act
      <4>3. sendRegistered' = IF s \in connected THEN sendRegistered \cup {s} ELSE sendRegistered
        BY <1>1, <2>4 DEF Act, Send, sending
      <4> QED
        BY <4>1, <4>2, <4>3
    <3>3. CASE \A x : On(w, s, x)' => On(w, s, x)
      <4>1. Among(w, s, SendEntries)' => Among(w, s, SendEntries)
        BY <3>3 DEF Among
      <4> QED
        BY <2>1, <3>1, <3>2, <4>1 DEF SendInv
    <3>4. CASE s \notin sendRegistered /\ sendRegistered' = sendRegistered \cup {s}
      BY <2>1, <3>1, <3>4 DEF SendInv
    <3> QED
      BY <3>2, <3>3, <3>4
  <2>5. CASE e \in {"RegisterSend", "SendRefused", "ProcessSend"}
    <3>1. Among(w, s, SendEntries)
      BY <1>1, <2>5, Moving DEF Among, SendEntries
    <3>2. /\ \A v \in Workers \ {w} : ~Among(v, s, SendEntries)'
          /\ <<s, "send">> \notin inFlight /\ s \in sendRegistered
      BY <2>1, <3>1 DEF SendInv
    <3>3. (\A x : On(w, s, x)' => x \in Behind(e)) => ~Among(w, s, SendEntries)'
      <4>1. Behind(e) \cap SendEntries = {}
        BY <2>5 DEF Behind, SendEntries
      <4> QED
        BY <4>1 DEF Among
    <3>4. CASE e = "SendRefused" \/ (e = "ProcessSend" /\ sendRegistered' = sendRegistered \ {s}
                                       /\ UNCHANGED inFlight /\ Advances(w, s, "ProcessSend", {}))
      <4>1. UNCHANGED inFlight /\ sendRegistered' = sendRegistered \ {s}
        BY <1>1, <3>4, Frames DEF Act, SendRefused
      <4>2. \A x : On(w, s, x)' => x \in Behind(e)
        <5>1. CASE e = "SendRefused"
          BY <1>1, <5>1, Moving DEF After
        <5>2. CASE e = "ProcessSend"
          BY <3>4, <5>2 DEF Advances
        <5> QED
          BY <3>4, <5>1, <5>2
      <4> QED
        BY <2>1, <3>2, <3>3, <4>1, <4>2 DEF SendInv
    <3>5. CASE UNCHANGED sendRegistered
      <4>1. CASE UNCHANGED inFlight
        <5>1. \A v \in Workers, r \in Sessions : Among(v, r, SendEntries)' => Among(v, r, SendEntries)
          BY <2>1, <3>1
        <5> QED
          BY <3>5, <4>1, <5>1 DEF SendInv
      <4>2. CASE inFlight' # inFlight
        <5>1. inFlight' = inFlight \cup {<<s, "send">>} /\ ~Among(w, s, SendEntries)'
          BY <1>1, <2>5, <3>3, <4>2, Flights
        <5> QED
          BY <2>1, <3>2, <3>5, <5>1 DEF SendInv
      <4> QED
        BY <4>1, <4>2
    <3>6. e = "RegisterSend" => UNCHANGED sendRegistered
      BY <1>1 DEF Act, RegisterSend, PostSend
    <3>7. e = "ProcessSend" =>
            \/ UNCHANGED sendRegistered
            \/ sendRegistered' = sendRegistered \ {s} /\ Advances(w, s, "ProcessSend", {})
               /\ UNCHANGED inFlight
      BY <1>1, Turn DEF Act, events
    <3> QED
      BY <2>5, <3>4, <3>5, <3>6, <3>7
  <2>6. CASE e \notin {"RegisterAccept", "Send", "RegisterSend", "SendRefused", "ProcessSend"}
    <3>1. UNCHANGED sendRegistered
      BY <1>1, <2>6, Frames DEF sending
    <3>2. \A r \in Sessions : <<r, "send">> \in inFlight' => <<r, "send">> \in inFlight
      BY <1>1, <2>6, Flights
    <3>3. \A v \in Workers, r \in Sessions : Among(v, r, SendEntries)' => Among(v, r, SendEntries)
      BY <2>1, <2>2, <2>6
    <3> QED
      BY <3>1, <3>2, <3>3 DEF SendInv
  <2> QED
    BY <2>3, <2>4, <2>5, <2>6
<1>2. ASSUME NEW s \in Sessions, NEW e \in Events, ObserveIO(w, s, e)
      PROVE  SendInv'
  <2>1. /\ <<s, e>> \in inFlight /\ inFlight' = inFlight \ {<<s, e>>}
        /\ UNCHANGED sendRegistered
    BY <1>2 DEF ObserveIO, sending
  <2>2. CASE <<s, e>> \in owner
    <3>1. PICK S \in Firsts(e) : Starts(w, s, S)
      BY <1>2, <2>2, Observed
    <3>2. \A v \in Workers, r \in Sessions : v # w \/ r # s =>
            (Among(v, r, SendEntries)' <=> Among(v, r, SendEntries))
      BY <3>1, Starting DEF Among
    <3>3. CASE e = "send"
      BY <2>1, <3>2, <3>3 DEF SendInv
    <3>4. CASE e # "send"
      <4>1. \A x : On(w, s, x)' <=> x \in S
        BY <3>1, Starting
      <4>2. S \cap SendEntries = {}
        BY <3>4 DEF Firsts, SendEntries, Events
      <4>3. ~Among(w, s, SendEntries)'
        BY <4>1, <4>2 DEF Among
      <4> QED
        BY <2>1, <3>2, <4>3 DEF SendInv
    <3> QED
      BY <3>3, <3>4
  <2>3. CASE <<s, e>> \notin owner
    <3>1. \A v \in Workers, r \in Sessions : Among(v, r, SendEntries)' <=> Among(v, r, SendEntries)
      BY <1>2, <2>3, Observed, Same DEF Among
    <3> QED
      BY <2>1, <3>1 DEF SendInv
  <2> QED
    BY <2>2, <2>3
<1>3. CASE ProcessAccept(w)
  <2>1. PICK s \in Sessions, S \in AcceptFirsts : Starts(w, s, S)
    BY <1>3, Fetched
  <2>2. UNCHANGED <<inFlight, sendRegistered>>
    BY <1>3 DEF ProcessAccept, events, sending
  <2>3. \A v \in Workers, r \in Sessions : v # w \/ r # s =>
          (Among(v, r, SendEntries)' <=> Among(v, r, SendEntries))
    BY <2>1, Starting DEF Among
  <2>4. ~Among(w, s, SendEntries)'
    <3>1. \A x : On(w, s, x)' <=> x \in S
      BY <2>1, Starting
    <3>2. S \cap SendEntries = {}
      BY DEF AcceptFirsts, SendEntries
    <3> QED
      BY <3>1, <3>2 DEF Among
  <2> QED
    BY <2>2, <2>3, <2>4 DEF SendInv
<1> QED
  BY <1>1, <1>2, <1>3 DEF Turns

-----------------------------------------------------------------------------
(* Owners                                                                    *)

\* What happens to the owners of events, by entry.
LEMMA Owners ==
  ASSUME TypeOK, Orderly, NEW w \in Workers, NEW s \in Sessions, NEW e \in Entries,
         Moves(w, s, e), Act(w, s, e)
  PROVE  \/ UNCHANGED <<owner, inFlight>>
         \/ /\ owner \subseteq owner'
            /\ \A r \in Sessions, f \in Events :
                 <<r, f>> \in inFlight' => <<r, f>> \in inFlight \cup owner'
         \/ /\ UNCHANGED inFlight
            /\ \/ e = "ConnectRefused" /\ owner' = owner \ {<<s, "connect">>}
               \/ e = "RecvRefused" /\ owner' = owner \ {<<s, "recv">>}
               \/ e = "SendRefused" /\ owner' = owner \ {<<s, "send">>}
               \/ e = "DisconnectRefused" /\ owner' = owner \ {<<s, "disconnect">>}
<1> USE DEF events
<1>1. CASE e \in {"RegisterConnect", "RegisterDisconnect"}
  BY <1>1 DEF Act, RegisterConnect, RegisterDisconnect
<1>2. CASE e = "RegisterRecv"
  BY <1>2 DEF Act, RegisterRecv, Register
<1>3. CASE e \in {"RegisterSend", "ProcessSend"}
  BY <1>3 DEF Act, RegisterSend, ProcessSend, PostSend, Register
<1>4. CASE e \in {"ConnectRefused", "RecvRefused", "SendRefused", "DisconnectRefused"}
  BY <1>4 DEF Act, ConnectRefused, RecvRefused, SendRefused, DisconnectRefused
<1>5. CASE e \notin {"RegisterConnect", "RegisterRecv", "RegisterSend", "ProcessSend",
                     "RegisterDisconnect", "ConnectRefused", "RecvRefused", "SendRefused",
                     "DisconnectRefused"}
  BY <1>5, Frames
<1> QED
  BY <1>1, <1>2, <1>3, <1>4, <1>5

\* Every turn keeps OwnerInv.
LEMMA OwnerStep ==
  ASSUME Inv, NEW w \in Workers, Turns(w)
  PROVE  OwnerInv'
<1> USE DEF Inv
<1>1. ASSUME NEW s \in Sessions, NEW e \in Entries, Moves(w, s, e), Act(w, s, e)
      PROVE  OwnerInv'
  <2>1. crash # "owner" /\ UNCHANGED crash
    BY <1>1, Frames DEF crashed
  <2>2. \A v \in Workers, r \in Sessions : v # w \/ r # s => \A x : On(v, r, x)' <=> On(v, r, x)
    BY <1>1, Moving
  <2>3. \A x : On(w, s, x)' => On(w, s, x) \/ x \in After(e)
    BY <1>1, Moving
  <2>4. \A r \in Sessions : r \in misread => \/ r \in misread'
                                             \/ /\ \A v \in Workers : \A x : ~On(v, r, x)
                                                /\ \A f \in Events : <<r, f>> \notin inFlight'
    <3>1. CASE e = "RegisterAccept"
      <4>1. PICK new \in Free : misread' = misread \ {new}
        BY <1>1, <3>1, Waiting
      <4>2. UNCHANGED inFlight
        BY <1>1, <3>1, Frames
      <4> QED
        BY <4>1, <4>2, Frees
    <3>2. CASE e = "RegisterDisconnect"
      BY <1>1, <3>2 DEF Act, RegisterDisconnect
    <3>3. CASE e \notin {"RegisterAccept", "RegisterDisconnect"}
      BY <1>1, <3>3, Frames
    <3> QED
      BY <3>1, <3>2, <3>3
  <2>5. \A r \in Sessions, f \in Events :
          <<r, f>> \in inFlight' /\ <<r, f>> \notin owner' => f = "disconnect" /\ r \in misread'
    <3>1. CASE UNCHANGED <<owner, inFlight>>
      BY <2>4, <3>1 DEF OwnerInv
    <3>2. CASE /\ owner \subseteq owner'
               /\ \A r \in Sessions, f \in Events :
                    <<r, f>> \in inFlight' => <<r, f>> \in inFlight \cup owner'
      BY <2>4, <3>2 DEF OwnerInv
    <3>3. CASE /\ UNCHANGED inFlight
               /\ \/ e = "ConnectRefused" /\ owner' = owner \ {<<s, "connect">>}
                  \/ e = "RecvRefused" /\ owner' = owner \ {<<s, "recv">>}
                  \/ e = "SendRefused" /\ owner' = owner \ {<<s, "send">>}
                  \/ e = "DisconnectRefused" /\ owner' = owner \ {<<s, "disconnect">>}
      <4>1. /\ e = "ConnectRefused" => <<s, "connect">> \notin inFlight
            /\ e = "RecvRefused" => <<s, "recv">> \notin inFlight
            /\ e = "SendRefused" => <<s, "send">> \notin inFlight
            /\ e = "DisconnectRefused" => s \in misread
        <5>1. On(w, s, e)
          BY <1>1, Moving
        <5>2. e = "RecvRefused" => <<s, "recv">> \notin inFlight
          BY <5>1 DEF RecvInv, Among, RecvEntries
        <5>3. e = "SendRefused" => <<s, "send">> \notin inFlight
          BY <5>1 DEF SendInv, Among, SendEntries
        <5>4. e = "ConnectRefused" => <<s, "connect">> \notin inFlight
          BY <5>1 DEF OwnerInv
        <5>5. e = "DisconnectRefused" => s \in misread
          BY <5>1 DEF OwnerInv
        <5> QED
          BY <5>2, <5>3, <5>4, <5>5
      <4>2. \A r \in Sessions, f \in Events :
              <<r, f>> \in inFlight /\ <<r, f>> \notin owner' => f = "disconnect" /\ r \in misread
        BY <3>3, <4>1 DEF OwnerInv
      <4> QED
        BY <2>4, <3>3, <4>2
    <3> QED
      BY <1>1, <3>1, <3>2, <3>3, Owners
  <2>6. \A v \in Workers, r \in Sessions : On(v, r, "DisconnectRefused")' => r \in misread'
    <3>1. CASE e # "RegisterDisconnect"
      <4>1. "DisconnectRefused" \notin After(e)
        BY <3>1 DEF After
      <4> QED
        BY <2>2, <2>3, <2>4, <4>1 DEF OwnerInv
    <3>2. CASE e = "RegisterDisconnect"
      <4>1. \/ Advances(w, s, "RegisterDisconnect", {})
            \/ misread' = misread \cup {s}
        BY <1>1, <3>2, Turn DEF Act
      <4>2. Advances(w, s, "RegisterDisconnect", {}) => ~On(w, s, "DisconnectRefused")'
        <5>1. Advances(w, s, "RegisterDisconnect", {}) =>
                /\ \A x : On(w, s, x) => x = "RegisterDisconnect" \/ x \in Behind("RegisterDisconnect")
                /\ \A x : x # "RegisterDisconnect" => (On(w, s, x)' <=> x \in {} \/ On(w, s, x))
          BY DEF Advances
        <5> QED
          BY <5>1, Behinds
      <4> QED
        BY <2>2, <2>4, <4>1, <4>2 DEF OwnerInv
    <3> QED
      BY <3>1, <3>2
  <2>7. \A v \in Workers, r \in Sessions :
          On(v, r, "ConnectRefused")' => <<r, "connect">> \notin inFlight'
    <3>1. CASE e # "RegisterConnect"
      <4>1. "ConnectRefused" \notin After(e)
        BY <3>1 DEF After
      <4>2. \A r \in Sessions : <<r, "connect">> \in inFlight' => <<r, "connect">> \in inFlight
        BY <1>1, <3>1, Flights
      <4> QED
        BY <2>2, <2>3, <4>1, <4>2 DEF OwnerInv
    <3>2. CASE e = "RegisterConnect"
      <4>1. /\ \A v \in Workers \ {w} : ~Busy(v, s)
            /\ <<s, "connect">> \notin inFlight
        BY <1>1, <3>2, Moving DEF AloneInv, Among, OpenEntries, Events
      <4>2. \A v \in Workers \ {w} : \A x : ~On(v, s, x)'
        BY <2>2, <4>1, OnBusy
      <4>3. CASE UNCHANGED inFlight
        BY <2>2, <4>1, <4>2, <4>3 DEF OwnerInv
      <4>4. CASE /\ inFlight' = inFlight \cup {<<s, "connect">>}
                 /\ \A x : On(w, s, x)' => x \in Behind(e)
        BY <2>2, <3>2, <4>2, <4>4, Behinds DEF OwnerInv
      <4> QED
        BY <1>1, <3>2, <4>3, <4>4, Flights
    <3> QED
      BY <3>1, <3>2
  <2> QED
    BY <2>1, <2>5, <2>6, <2>7 DEF OwnerInv
<1>2. ASSUME NEW s \in Sessions, NEW e \in Events, ObserveIO(w, s, e)
      PROVE  OwnerInv'
  <2>1. /\ <<s, e>> \in inFlight /\ inFlight' = inFlight \ {<<s, e>>}
        /\ owner' = owner \ {<<s, e>>} /\ UNCHANGED misread /\ crash # "owner"
    BY <1>2 DEF ObserveIO, history, crashed
  <2>2. \A v \in Workers, r \in Sessions, x \in {"DisconnectRefused", "ConnectRefused"} :
          On(v, r, x)' => On(v, r, x)
    <3>1. CASE <<s, e>> \in owner
      <4>1. PICK S \in Firsts(e) : Starts(w, s, S)
        BY <1>2, <3>1, Observed
      <4>2. \A x \in {"DisconnectRefused", "ConnectRefused"} : x \notin S
        BY DEF Firsts
      <4> QED
        BY <4>1, <4>2, Starting
    <3>2. CASE <<s, e>> \notin owner
      BY <1>2, <3>2, Observed, Same
    <3> QED
      BY <3>1, <3>2
  <2>3. crash' = "owner" => misread # {}
    BY <1>2, <2>1, Observed DEF OwnerInv
  <2> QED
    BY <2>1, <2>2, <2>3 DEF OwnerInv
<1>3. CASE ProcessAccept(w)
  <2>1. PICK s \in Sessions, S \in AcceptFirsts : Starts(w, s, S)
    BY <1>3, Fetched
  <2>2. UNCHANGED <<inFlight, owner, misread, crash>>
    BY <1>3 DEF ProcessAccept, events, history
  <2>3. \A v \in Workers, r \in Sessions, x \in {"DisconnectRefused", "ConnectRefused"} :
          On(v, r, x)' => On(v, r, x)
    <3>1. \A x \in {"DisconnectRefused", "ConnectRefused"} : x \notin S
      BY DEF AcceptFirsts
    <3> QED
      BY <2>1, <3>1, Starting
  <2> QED
    BY <2>2, <2>3 DEF OwnerInv
<1> QED
  BY <1>1, <1>2, <1>3 DEF Turns

-----------------------------------------------------------------------------
(* The life of a session                                                     *)

\* Only RegisterAccept makes a session that is fresh, and what a worker does in a
\* session leaves it fresh only if it connects it.
LEMMA FreshAct ==
  ASSUME Inv, NEW w \in Workers, NEW s \in Sessions, NEW e \in Entries,
         Moves(w, s, e), Act(w, s, e)
  PROVE  /\ \/ e # "RegisterAccept" /\ \A r \in Sessions : Fresh(r)' => Fresh(r)
            \/ /\ e = "RegisterAccept"
               /\ \E new \in Free :
                    /\ \A r \in Sessions : Fresh(r)' => Fresh(r) \/ r = new
                    /\ connected' = connected \ {new}
                    /\ calls' = [calls EXCEPT ![new] = <<>>]
                    /\ deaf' = deaf \ {new} /\ abandoned' = abandoned \ {new}
         /\ e # "RegisterConnect" => ~Fresh(s)'
         /\ \A v \in Workers : Among(v, s, OpenEntries) => v = w /\ e \in OpenEntries
         /\ \A v \in Workers : Among(v, s, OpenEntries)' => v = w /\ e \in OpenEntries
<1> USE DEF Inv
<1>1. \A v \in Workers, r \in Sessions :
        Among(v, r, {"RegisterConnect", "ProcessConnect"})' =>
          Among(v, r, {"RegisterConnect", "ProcessConnect"})
  <2>1. After(e) \cap {"RegisterConnect", "ProcessConnect"} = {}
    BY DEF After
  <2> QED
    BY <2>1, Kept
<1>2. \A v \in Workers, r \in Sessions : Among(v, r, OpenEntries)' => Among(v, r, OpenEntries)
  <2>1. After(e) \cap OpenEntries = {}
    BY DEF After, OpenEntries, Entries
  <2> QED
    BY <2>1, Kept
<1>3. \A v \in Workers : Among(v, s, OpenEntries) => v = w /\ e \in OpenEntries
  <2>1. \A v \in Workers : Among(v, s, OpenEntries) => v = w
    BY Moving DEF AloneInv
  <2>2. ASSUME Among(w, s, OpenEntries)
        PROVE  e \in OpenEntries
    <3>1. PICK x \in OpenEntries : x = e \/ x \in Behind(e)
      BY <2>2, Moving DEF Among
    <3> QED
      BY <3>1 DEF Behind, OpenEntries, Entries
  <2> QED
    BY <2>1, <2>2
<1>4. ~Among(w, s, {"RegisterConnect", "ProcessConnect"})'
  <2>1. \A x : On(w, s, x)' => x \in After(e) \/ x \in Behind(e)
    BY Moving
  <2>2. /\ "RegisterConnect" \notin After(e) \cup Behind(e)
        /\ "ProcessConnect" \notin After(e) \cup Behind(e)
    BY DEF After, Behind, Entries
  <2> QED
    BY <2>1, <2>2 DEF Among
<1>5. \A r \in Sessions :
        \/ <<r, "connect">> \in inFlight' => <<r, "connect">> \in inFlight
        \/ e = "RegisterConnect" /\ r = s
  BY Flights
<1>6. e # "RegisterConnect" => ~Fresh(s)'
  <2>1. ~Waits(s) /\ <<s, "connect">> \notin inFlight
    BY Moving DEF AloneInv
  <2>2. ~Waits(s)'
    <3>1. \A new \in Free : new # s
      BY Moving, Frees
    <3> QED
      BY <2>1, <3>1, Waiting
  <2>3. \A v \in Workers : ~Among(v, s, {"RegisterConnect", "ProcessConnect"})'
    <3>1. \A v \in Workers : Among(v, s, {"RegisterConnect", "ProcessConnect"})' => v = w
      BY <1>1, <1>3 DEF Among, OpenEntries
    <3> QED
      BY <1>4, <3>1
  <2> QED
    BY <1>5, <2>1, <2>2, <2>3 DEF Fresh
<1>7. \A r \in Sessions :
        \/ <<r, "connect">> \in inFlight' => <<r, "connect">> \in inFlight
        \/ Fresh(r)
  <2>1. e = "RegisterConnect" => Fresh(s)
    BY Moving DEF Fresh, Among
  <2> QED
    BY <1>5, <2>1
<1>8. \/ e # "RegisterAccept" /\ \A r \in Sessions : Fresh(r)' => Fresh(r)
      \/ /\ e = "RegisterAccept"
         /\ \E new \in Free :
              /\ \A r \in Sessions : Fresh(r)' => Fresh(r) \/ r = new
              /\ connected' = connected \ {new}
              /\ calls' = [calls EXCEPT ![new] = <<>>]
              /\ deaf' = deaf \ {new} /\ abandoned' = abandoned \ {new}
  <2>1. CASE e # "RegisterAccept"
    <3>1. \A r \in Sessions : Waits(r)' <=> Waits(r)
      BY <2>1, Waiting
    <3> QED
      BY <1>1, <1>7, <2>1, <3>1 DEF Fresh
  <2>2. CASE e = "RegisterAccept"
    <3>1. PICK new \in Free :
            /\ \A r \in Sessions : Waits(r)' => Waits(r) \/ r = new
            /\ connected' = connected \ {new}
            /\ calls' = [calls EXCEPT ![new] = <<>>]
            /\ deaf' = deaf \ {new} /\ abandoned' = abandoned \ {new}
      BY <2>2, Waiting
    <3>2. \A r \in Sessions : Fresh(r)' => Fresh(r) \/ r = new
      BY <1>1, <1>7, <3>1 DEF Fresh
    <3> QED
      BY <2>2, <3>1, <3>2
  <2> QED
    BY <2>1, <2>2
<1> QED
  BY <1>2, <1>3, <1>6, <1>8

\* A completion makes nothing fresh; only a connect comes for a fresh session.
LEMMA FreshObserve ==
  ASSUME Inv, NEW w \in Workers, NEW s \in Sessions, NEW e \in Events, ObserveIO(w, s, e)
  PROVE  /\ \A r \in Sessions : Fresh(r)' => Fresh(r)
         /\ e = "connect" => /\ Fresh(s) /\ \A v \in Workers : \A x : ~On(v, s, x)
                             /\ <<s, "disconnect">> \notin inFlight
         /\ e # "connect" => /\ ~Fresh(s)
                             /\ \A v \in Workers : ~Among(v, s, OpenEntries)
<1> USE DEF Inv
<1>1. <<s, e>> \in inFlight /\ inFlight' = inFlight \ {<<s, e>>}
  BY DEF ObserveIO
<1>2. e = "connect" => /\ Fresh(s) /\ \A v \in Workers : \A x : ~On(v, s, x)
                       /\ <<s, "disconnect">> \notin inFlight
  BY <1>1, OnBusy DEF AloneInv, Fresh, Events
<1>3. e # "connect" => ~Fresh(s) /\ \A v \in Workers : ~Among(v, s, OpenEntries)
  <2>1. e # "connect" => \A v \in Workers : ~Among(v, s, OpenEntries)
    BY <1>1 DEF AloneInv
  <2>2. e # "connect" => ~Waits(s) /\ <<s, "connect">> \notin inFlight
    BY <1>1 DEF AloneInv
  <2> QED
    BY <2>1, <2>2 DEF Fresh, Among, OpenEntries
<1>4. \A v \in Workers, r \in Sessions :
        Among(v, r, {"RegisterConnect", "ProcessConnect"})' =>
          Among(v, r, {"RegisterConnect", "ProcessConnect"}) \/ (r = s /\ e = "connect")
  <2>1. CASE <<s, e>> \in owner
    <3>1. PICK S \in Firsts(e) : Starts(w, s, S)
      BY <2>1, Observed
    <3>2. e # "connect" => S \cap {"RegisterConnect", "ProcessConnect"} = {}
      BY DEF Firsts, Events
    <3>3. \A x : On(w, s, x)' <=> x \in S
      BY <3>1, Starting
    <3>4. e # "connect" => ~Among(w, s, {"RegisterConnect", "ProcessConnect"})'
      BY <3>2, <3>3 DEF Among
    <3>5. \A v \in Workers, r \in Sessions : v # w \/ r # s =>
            (Among(v, r, {"RegisterConnect", "ProcessConnect"})'
               <=> Among(v, r, {"RegisterConnect", "ProcessConnect"}))
      BY <3>1, Starting DEF Among
    <3> QED
      BY <3>4, <3>5
  <2>2. CASE <<s, e>> \notin owner
    BY <2>2, Observed, Same DEF Among
  <2> QED
    BY <2>1, <2>2
<1>5. \A r \in Sessions : Waits(r)' <=> Waits(r)
  BY ObservedWaits
<1>6. \A r \in Sessions : Fresh(r)' => Fresh(r)
  BY <1>1, <1>2, <1>4, <1>5 DEF Fresh
<1> QED
  BY <1>2, <1>3, <1>6

\* An accept begins with a fresh session nobody knows of.
LEMMA FreshFetch ==
  ASSUME Inv, NEW w \in Workers, ProcessAccept(w)
  PROVE  \E s \in Sessions, S \in AcceptFirsts :
           /\ Starts(w, s, S) /\ Fresh(s)
           /\ \A v \in Workers : \A x : ~On(v, s, x)
           /\ <<s, "disconnect">> \notin inFlight
           /\ \A r \in Sessions : Fresh(r)' => Fresh(r)
<1> USE DEF Inv
<1>1. PICK s \in Sessions, S \in AcceptFirsts :
        /\ Waits(s) /\ Starts(w, s, S)
        /\ \A r \in Sessions : Waits(r)' => Waits(r)
  BY Fetched
<1>2. Fresh(s) /\ (\A v \in Workers : \A x : ~On(v, s, x)) /\ <<s, "disconnect">> \notin inFlight
  BY <1>1, OnBusy DEF AloneInv, Fresh, Events
<1>3. UNCHANGED inFlight
  BY DEF ProcessAccept, events
<1>4. \A v \in Workers, r \in Sessions : v # w \/ r # s =>
        (Among(v, r, {"RegisterConnect", "ProcessConnect"})'
           <=> Among(v, r, {"RegisterConnect", "ProcessConnect"}))
  BY <1>1, Starting DEF Among
<1>5. \A r \in Sessions : Fresh(r)' => Fresh(r)
  BY <1>1, <1>2, <1>3, <1>4 DEF Fresh
<1> QED
  BY <1>1, <1>2, <1>5

\* The part of LifeInv about what worker w has before it in session s.
Ladder(w, s) ==
  /\ On(w, s, "ProcessConnect") =>
       On(w, s, "AddSession") /\ On(w, s, "OnConnected") /\ On(w, s, "RegisterRecv")
  /\ On(w, s, "AddSession") => On(w, s, "OnConnected")
  /\ On(w, s, "OnConnected") => s \in connected \/ On(w, s, "ProcessConnect")
  /\ On(w, s, "OnDisconnected") => On(w, s, "RemoveSession")

\* A move keeps the order of the entries of one session.
LEMMA LadderAct ==
  ASSUME Inv, NEW w \in Workers, NEW s \in Sessions, NEW e \in Entries,
         Moves(w, s, e), Act(w, s, e)
  PROVE  Ladder(w, s)'
<1> USE DEF Inv
<1>1. /\ On(w, s, e) /\ \A x : On(w, s, x)' => x \in After(e) \/ x \in Behind(e)
      /\ \A x : On(w, s, x) => x = e \/ x \in Behind(e)
      /\ \A x : x # e /\ On(w, s, x) => On(w, s, x)'
  BY Moving
<1>2. /\ ~On(w, s, "ProcessConnect")' /\ ~On(w, s, "OnDisconnected")'
      /\ On(w, s, "AddSession")' => e = "ProcessConnect"
      /\ On(w, s, "OnConnected")' => e \in {"ProcessConnect", "AddSession"}
  <2>1. /\ "ProcessConnect" \notin After(e) \cup Behind(e)
        /\ "OnDisconnected" \notin After(e) \cup Behind(e)
        /\ "AddSession" \in After(e) \cup Behind(e) => e = "ProcessConnect"
        /\ "OnConnected" \in After(e) \cup Behind(e) => e \in {"ProcessConnect", "AddSession"}
    BY DEF After, Behind, Entries
  <2> QED
    BY <1>1, <2>1
<1>3. e = "ProcessConnect" => s \in connected' /\ On(w, s, "OnConnected")'
  <2>1. e = "ProcessConnect" => On(w, s, "OnConnected")
    BY <1>1 DEF LifeInv
  <2>2. e = "ProcessConnect" => s \in connected'
    BY DEF Act, ProcessConnect
  <2> QED
    BY <1>1, <2>1, <2>2
<1>4. e = "AddSession" => s \in connected'
  <2>1. e = "AddSession" => On(w, s, "OnConnected") /\ ~On(w, s, "ProcessConnect")
    BY <1>1, Behinds DEF LifeInv
  <2>2. e = "AddSession" => UNCHANGED connected
    BY Frames
  <2> QED
    BY <2>1, <2>2 DEF LifeInv
<1> QED
  BY <1>2, <1>3, <1>4 DEF Ladder

\* Every turn keeps LifeInv.
LEMMA LifeStep ==
  ASSUME Inv, NEW w \in Workers, Turns(w)
  PROVE  LifeInv'
<1> USE DEF Inv
<1>1. ASSUME NEW s \in Sessions, NEW e \in Entries, Moves(w, s, e), Act(w, s, e)
      PROVE  LifeInv'
  <2> DEFINE Part(r) ==
        /\ <<r, "disconnect">> \in inFlight \/ Fresh(r) => r \notin connected
        /\ \A v \in Workers :
             Among(v, r, EndEntries) =>
               /\ \A u \in Workers \ {v} : ~Among(u, r, EndEntries)
               /\ r \notin connected
               /\ <<r, "disconnect">> \notin inFlight
  <2>1. \A r \in Sessions : Part(r)
    BY DEF LifeInv
  <2>2. SUFFICES ASSUME NEW r \in Sessions
                 PROVE  Part(r)' /\ \A v \in Workers : Ladder(v, r)'
    BY <2>2 DEF LifeInv, Ladder
  <2>3. Busy(w, s) /\ On(w, s, e)
        /\ \A v \in Workers : v # w \/ r # s => \A x : On(v, r, x)' <=> On(v, r, x)
    BY <1>1, Moving
  <2>4. \A v \in Workers : v # w \/ r # s => (Among(v, r, EndEntries)' <=> Among(v, r, EndEntries))
    BY <2>3 DEF Among
  <2>5. \A v \in Workers : Ladder(v, r)'
    <3>1. ASSUME NEW v \in Workers, v # w \/ r # s
          PROVE  Ladder(v, r)'
      <4>1. Ladder(v, r)
        BY DEF LifeInv, Ladder
      <4>2. On(v, r, "OnConnected") => (r \in connected => r \in connected')
        <5>1. CASE e = "RegisterAccept"
          <6>1. PICK new \in Free : connected' = connected \ {new}
            BY <1>1, <5>1, FreshAct
          <6> QED
            BY <6>1, Frees
        <5>2. CASE e = "Disconnect"
          <6>1. connected' = connected \ {s}
            BY <1>1, <5>2 DEF Act, Disconnect
          <6>2. r = s => ~On(v, r, "OnConnected")
            BY <1>1, <5>2, FreshAct DEF Among, OpenEntries
          <6> QED
            BY <6>1, <6>2
        <5>3. CASE e = "ProcessConnect"
          BY <1>1, <5>3 DEF Act, ProcessConnect
        <5>4. CASE e \notin {"RegisterAccept", "Disconnect", "ProcessConnect"}
          BY <1>1, <5>4, Frames
        <5> QED
          BY <5>1, <5>2, <5>3, <5>4
      <4> QED
        BY <2>3, <3>1, <4>1, <4>2 DEF Ladder
    <3>2. Ladder(w, s)'
      BY <1>1, LadderAct
    <3> QED
      BY <3>1, <3>2
  <2>6. Part(r)'
    <3>1. CASE e = "RegisterAccept"
      <4>1. PICK new \in Free :
              /\ \A q \in Sessions : Fresh(q)' => Fresh(q) \/ q = new
              /\ connected' = connected \ {new}
        BY <1>1, <3>1, FreshAct
      <4>2. UNCHANGED inFlight
        BY <1>1, <3>1, Frames
      <4>3. \A v \in Workers : Among(v, r, EndEntries)' => Among(v, r, EndEntries)
        <5>1. After(e) \cap EndEntries = {}
          BY <3>1 DEF After
        <5> QED
          BY <1>1, <5>1, Kept
      <4> QED
        BY <2>1, <4>1, <4>2, <4>3
    <3>2. CASE e = "ProcessConnect"
      <4>1. connected' = connected \cup {s} /\ UNCHANGED inFlight
        BY <1>1, <3>2, Frames DEF Act, ProcessConnect
      <4>2. /\ <<s, "disconnect">> \notin inFlight
            /\ \A v \in Workers \ {w} : ~Busy(v, s)
        BY <2>3, <3>2 DEF AloneInv, Among, OpenEntries, Events
      <4>3. \A v \in Workers : ~Among(v, s, EndEntries)'
        <5>1. ASSUME NEW v \in Workers \ {w}
              PROVE  ~Among(v, s, EndEntries)'
          <6>1. \A x : ~On(v, s, x)
            BY <4>2, OnBusy
          <6>2. \A x : On(v, s, x)' <=> On(v, s, x)
            BY <1>1, Moving
          <6> QED
            BY <6>1, <6>2 DEF Among
        <5>2. ~Among(w, s, EndEntries)'
          <6>1. \A x : On(w, s, x)' => x \in After(e) \/ x \in Behind(e)
            BY <1>1, Moving
          <6>2. After(e) = {} /\ Behind(e) \cap EndEntries = {}
            BY <3>2, Behinds DEF After, EndEntries
          <6> QED
            BY <6>1, <6>2 DEF Among
        <5> QED
          BY <5>1, <5>2
      <4>4. ~Fresh(s)' /\ (Fresh(r)' => Fresh(r))
        BY <1>1, <3>2, FreshAct
      <4>5. CASE r = s
        BY <4>1, <4>2, <4>3, <4>4, <4>5
      <4>6. CASE r # s
        BY <2>1, <2>4, <4>1, <4>4, <4>6
      <4> QED
        BY <4>5, <4>6
    <3>3. CASE e = "Disconnect"
      <4>1. connected' = connected \ {s} /\ UNCHANGED inFlight /\ (Fresh(r)' => Fresh(r))
        <5>1. connected' = connected \ {s} /\ UNCHANGED inFlight
          BY <1>1, <3>3, Frames DEF Act, Disconnect
        <5>2. Fresh(r)' => Fresh(r)
          BY <1>1, <3>3, FreshAct
        <5> QED
          BY <5>1, <5>2
      <4>2. CASE r = s /\ s \in connected
        <5>1. \A v \in Workers \ {w} : ~Among(v, s, EndEntries)'
          BY <2>1, <2>4, <4>2
        <5> QED
          BY <2>1, <4>1, <4>2, <5>1
      <4>3. CASE r = s /\ s \notin connected
        <5>1. Advances(w, s, "Disconnect", {})
          BY <1>1, <3>3, <4>3, Turn DEF Act
        <5>2. \A x : On(w, s, x)' => On(w, s, x)
          <6>1. \A x : x # "Disconnect" => (On(w, s, x)' <=> x \in {} \/ On(w, s, x))
            BY <5>1 DEF Advances
          <6> QED
            BY <2>3, <3>3, <6>1
        <5>3. \A v \in Workers : Among(v, s, EndEntries)' => Among(v, s, EndEntries)
          BY <2>4, <4>3, <5>2 DEF Among
        <5> QED
          BY <2>1, <4>1, <4>3, <5>3
      <4>4. CASE r # s
        BY <2>1, <2>4, <4>1, <4>4
      <4> QED
        BY <4>2, <4>3, <4>4
    <3>4. CASE e = "RegisterDisconnect"
      <4>1. UNCHANGED connected /\ (Fresh(r)' => Fresh(r))
            /\ \A q \in Sessions \ {s} :
                 <<q, "disconnect">> \in inFlight' => <<q, "disconnect">> \in inFlight
        BY <1>1, <3>4, Frames, FreshAct, Flights
      <4>2. /\ \A v \in Workers \ {w} : ~Among(v, s, EndEntries)
            /\ s \notin connected
        BY <2>1, <2>3, <3>4 DEF Among, EndEntries
      <4>3. ~Among(w, s, EndEntries)'
        <5>1. \A x : On(w, s, x)' => x \in After(e) \/ x \in Behind(e)
          BY <1>1, Moving
        <5>2. After(e) \cap EndEntries = {} /\ Behind(e) \cap EndEntries = {}
          BY <3>4, Behinds DEF After, EndEntries
        <5> QED
          BY <5>1, <5>2 DEF Among
      <4>4. CASE r = s
        BY <2>4, <4>1, <4>2, <4>3, <4>4
      <4>5. CASE r # s
        BY <2>1, <2>4, <4>1, <4>5
      <4> QED
        BY <4>4, <4>5
    <3>5. CASE e \notin {"RegisterAccept", "ProcessConnect", "Disconnect", "RegisterDisconnect"}
      <4>1. UNCHANGED connected /\ (Fresh(r)' => Fresh(r))
            /\ (<<r, "disconnect">> \in inFlight' => <<r, "disconnect">> \in inFlight)
        BY <1>1, <3>5, Frames, FreshAct, Flights
      <4>2. \A v \in Workers : Among(v, r, EndEntries)' => Among(v, r, EndEntries)
        <5>1. After(e) \cap EndEntries = {}
          BY <3>5 DEF After, EndEntries, Entries
        <5> QED
          BY <1>1, <5>1, Kept
      <4> QED
        BY <2>1, <4>1, <4>2
    <3> QED
      BY <3>1, <3>2, <3>3, <3>4, <3>5
  <2> QED
    BY <2>5, <2>6
<1>2. ASSUME NEW s \in Sessions, NEW e \in Events, ObserveIO(w, s, e)
      PROVE  LifeInv'
  <2>1. /\ <<s, e>> \in inFlight /\ inFlight' = inFlight \ {<<s, e>>}
        /\ UNCHANGED connected
    BY <1>2 DEF ObserveIO
  <2>2. \A r \in Sessions : Fresh(r)' => Fresh(r)
    BY <1>2, FreshObserve
  <2>3. CASE <<s, e>> \in owner
    <3>1. PICK S \in Firsts(e) : Starts(w, s, S)
      BY <1>2, <2>3, Observed
    <3>2. \A v \in Workers, r \in Sessions : v # w \/ r # s => \A x : On(v, r, x)' <=> On(v, r, x)
      BY <3>1, Starting
    <3>3. \A v \in Workers, r \in Sessions : v # w \/ r # s =>
            (Among(v, r, EndEntries)' <=> Among(v, r, EndEntries))
      BY <3>2 DEF Among
    <3>4. \A x : On(w, s, x)' <=> x \in S
      BY <3>1, Starting
    <3>5. Ladder(w, s)'
      BY <3>4 DEF Ladder, Firsts, Events
    <3>6. \A v \in Workers, r \in Sessions : Ladder(v, r)'
      BY <2>1, <3>2, <3>5 DEF LifeInv, Ladder
    <3>7. e # "disconnect" => ~Among(w, s, EndEntries)'
      <4>1. e # "disconnect" => S \cap EndEntries = {}
        BY DEF Firsts, EndEntries, Events
      <4> QED
        BY <3>4, <4>1 DEF Among
    <3>8. e = "disconnect" => /\ s \notin connected
                              /\ \A v \in Workers : ~Among(v, s, EndEntries)
      BY <2>1 DEF LifeInv
    <3>9. \A r \in Sessions :
            /\ <<r, "disconnect">> \in inFlight' \/ Fresh(r)' => r \notin connected'
            /\ \A v \in Workers :
                 Among(v, r, EndEntries)' =>
                   /\ \A u \in Workers \ {v} : ~Among(u, r, EndEntries)'
                   /\ r \notin connected'
                   /\ <<r, "disconnect">> \notin inFlight'
      <4>1. CASE e = "disconnect"
        <5>1. SUFFICES ASSUME NEW r \in Sessions
                       PROVE  /\ <<r, "disconnect">> \in inFlight' \/ Fresh(r)' => r \notin connected'
                              /\ \A v \in Workers :
                                   Among(v, r, EndEntries)' =>
                                     /\ \A u \in Workers \ {v} : ~Among(u, r, EndEntries)'
                                     /\ r \notin connected'
                                     /\ <<r, "disconnect">> \notin inFlight'
          OBVIOUS
        <5>2. CASE r = s
          BY <2>1, <2>2, <3>3, <3>8, <4>1, <5>2
        <5>3. CASE r # s
          BY <2>1, <2>2, <3>3, <5>3 DEF LifeInv
        <5> QED
          BY <5>2, <5>3
      <4>2. CASE e # "disconnect"
        <5>1. \A v \in Workers, r \in Sessions : Among(v, r, EndEntries)' => Among(v, r, EndEntries)
          BY <3>3, <3>7, <4>2
        <5> QED
          BY <2>1, <2>2, <5>1 DEF LifeInv
      <4> QED
        BY <4>1, <4>2
    <3> QED
      BY <3>6, <3>9 DEF LifeInv, Ladder
  <2>4. CASE <<s, e>> \notin owner
    <3>1. \A v \in Workers, r \in Sessions : \A x : On(v, r, x)' <=> On(v, r, x)
      BY <1>2, <2>4, Observed, Same
    <3>2. \A v \in Workers, r \in Sessions : Among(v, r, EndEntries)' <=> Among(v, r, EndEntries)
      BY <3>1 DEF Among
    <3> QED
      BY <2>1, <2>2, <3>1, <3>2 DEF LifeInv
  <2> QED
    BY <2>3, <2>4
<1>3. CASE ProcessAccept(w)
  <2>1. PICK s \in Sessions, S \in AcceptFirsts :
          /\ Starts(w, s, S) /\ \A r \in Sessions : Fresh(r)' => Fresh(r)
    BY <1>3, FreshFetch
  <2>2. UNCHANGED <<inFlight, connected>>
    BY <1>3 DEF ProcessAccept, events
  <2>3. \A v \in Workers, r \in Sessions : v # w \/ r # s => \A x : On(v, r, x)' <=> On(v, r, x)
    BY <2>1, Starting
  <2>4. \A x : On(w, s, x)' <=> x \in S
    BY <2>1, Starting
  <2>5. Ladder(w, s)' /\ ~Among(w, s, EndEntries)'
    <3>1. S \cap EndEntries = {}
      BY DEF AcceptFirsts, EndEntries
    <3>2. Ladder(w, s)'
      BY <2>4 DEF Ladder, AcceptFirsts
    <3> QED
      BY <2>4, <3>1, <3>2 DEF Among
  <2>6. \A v \in Workers, r \in Sessions : Ladder(v, r)'
    BY <2>2, <2>3, <2>5 DEF LifeInv, Ladder
  <2>7. \A v \in Workers, r \in Sessions : Among(v, r, EndEntries)' => Among(v, r, EndEntries)
    BY <2>3, <2>5 DEF Among
  <2> QED
    BY <2>1, <2>2, <2>6, <2>7 DEF LifeInv, Ladder
<1> QED
  BY <1>1, <1>2, <1>3 DEF Turns

-----------------------------------------------------------------------------
(* The list of the service                                                   *)

\* A move leaves the entries of a set alone that holds neither its own nor one it puts.
LEMMA Untouched ==
  ASSUME NEW w \in Workers, NEW s \in Sessions, NEW e, Moves(w, s, e),
         NEW F, e \notin F, After(e) \cap F = {}
  PROVE  /\ \A v \in Workers, r \in Sessions : \A x \in F : On(v, r, x)' <=> On(v, r, x)
         /\ \A v \in Workers, r \in Sessions : Among(v, r, F)' <=> Among(v, r, F)
<1>1. \A v \in Workers, r \in Sessions : v # w \/ r # s => \A x : On(v, r, x)' <=> On(v, r, x)
  BY Moving
<1>2. \A x \in F : On(w, s, x)' <=> On(w, s, x)
  BY Moving
<1>3. \A v \in Workers, r \in Sessions : \A x \in F : On(v, r, x)' <=> On(v, r, x)
  BY <1>1, <1>2
<1> QED
  BY <1>3 DEF Among

\* The part of ListInv about one session.
Listed(s) ==
  /\ Fresh(s) \/ (\E w \in Workers : On(w, s, "AddSession")) => s \notin sessions
  /\ s \in connected => s \in sessions \/ \E w \in Workers : On(w, s, "AddSession")
  /\ <<s, "disconnect">> \in inFlight \/ (\E w \in Workers : Among(w, s, EndEntries))
       => s \in sessions
  /\ s \in sessions =>
       \/ s \in connected \/ s \in abandoned \/ crashed
       \/ <<s, "disconnect">> \in inFlight
       \/ \E w \in Workers : Among(w, s, EndEntries)

\* Every turn keeps the count of the sessions.
LEMMA CountStep ==
  ASSUME Inv, NEW w \in Workers, NEW s \in Sessions, NEW e \in Entries,
         Moves(w, s, e), Act(w, s, e)
  PROVE  IsFiniteSet(sessions') /\ sessionCount' = Cardinality(sessions')
<1>1. IsFiniteSet(sessions) /\ sessionCount = Cardinality(sessions) /\ On(w, s, e)
  BY Moving DEF Inv, ListInv
<1>2. CASE e = "AddSession"
  <2>1. sessions' = sessions \cup {s} /\ sessionCount' = sessionCount + 1
    BY <1>2 DEF Act, AddSession
  <2>2. s \notin sessions
    BY <1>1, <1>2 DEF Inv, ListInv
  <2> QED
    BY <1>1, <2>1, <2>2, FS_AddElement
<1>3. CASE e = "RemoveSession"
  <2>1. sessions' = sessions \ {s} /\ sessionCount' = sessionCount - 1
    BY <1>3 DEF Act, RemoveSession
  <2>2. s \in sessions
    BY <1>1, <1>3 DEF Inv, ListInv, Among, EndEntries
  <2> QED
    BY <1>1, <2>1, <2>2, FS_RemoveElement
<1>4. CASE e \notin {"AddSession", "RemoveSession"}
  BY <1>1, <1>4, Frames
<1> QED
  BY <1>2, <1>3, <1>4

\* A move keeps ListInv.
LEMMA ListAct ==
  ASSUME Inv, NEW w \in Workers, NEW s \in Sessions, NEW e \in Entries,
         Moves(w, s, e), Act(w, s, e), NEW r \in Sessions
  PROVE  Listed(r)'
<1> USE DEF Inv
<1>1. Listed(r)
  BY DEF ListInv, Listed
<1>2. On(w, s, e) /\ ~crashed
      /\ \A v \in Workers : v # w \/ r # s => \A x : On(v, r, x)' <=> On(v, r, x)
  BY Moving, Frames
<1>3. \A v \in Workers : v # w \/ r # s => (Among(v, r, EndEntries)' <=> Among(v, r, EndEntries))
  BY <1>2 DEF Among
<1>4. e \notin OpenEntries => \A v \in Workers : ~On(v, s, "AddSession") /\ ~On(v, s, "AddSession")'
  BY FreshAct DEF Among, OpenEntries
<1>5. e # "RegisterConnect" => ~Fresh(s)'
  BY FreshAct
<1>6. e # "RegisterAccept" => (Fresh(r)' => Fresh(r))
  BY FreshAct
<1>7. e # "AddSession" =>
        \A v \in Workers : On(v, r, "AddSession")' <=> On(v, r, "AddSession")
  <2>1. "AddSession" \notin After(e)
    BY DEF After
  <2>2. e # "AddSession" => (On(w, s, "AddSession")' <=> On(w, s, "AddSession"))
    BY <2>1, Moving
  <2> QED
    BY <1>2, <2>2
<1>8. e # "RegisterDisconnect" =>
        (<<r, "disconnect">> \in inFlight' => <<r, "disconnect">> \in inFlight)
  BY Flights
<1>9. e # "RegisterDisconnect" =>
        (<<r, "disconnect">> \in inFlight => <<r, "disconnect">> \in inFlight')
  BY Flights
<1>10. e \notin EndEntries \cup {"Disconnect"} =>
         \A v \in Workers : Among(v, r, EndEntries)' <=> Among(v, r, EndEntries)
  <2>1. e # "Disconnect" => After(e) \cap EndEntries = {}
    BY DEF After, EndEntries, Entries
  <2> QED
    BY <2>1, Untouched
<1>11. CASE e = "RegisterAccept"
  <2>1. PICK new \in Free :
          /\ Fresh(r)' => Fresh(r) \/ r = new
          /\ connected' = connected \ {new}
          /\ abandoned' = abandoned \ {new}
    BY <1>11, FreshAct
  <2>2. UNCHANGED sessions /\ new \notin sessions
    BY <1>11, <2>1, Frames, Frees
  <2> QED
    BY <1>1, <1>2, <1>7, <1>8, <1>9, <1>10, <1>11, <2>1, <2>2 DEF Listed, EndEntries
<1>12. CASE e = "ProcessConnect"
  <2>1. connected' = connected \cup {s} /\ UNCHANGED <<sessions, abandoned>>
    BY <1>12, Frames DEF Act, ProcessConnect
  <2>2. On(w, s, "AddSession")
    BY <1>2, <1>12 DEF LifeInv
  <2>3. CASE r = s
    BY <1>1, <1>2, <1>6, <1>7, <1>8, <1>9, <1>10, <1>12, <2>1, <2>2, <2>3 DEF Listed, EndEntries
  <2>4. CASE r # s
    BY <1>1, <1>2, <1>6, <1>7, <1>8, <1>9, <1>10, <1>12, <2>1, <2>4 DEF Listed, EndEntries
  <2> QED
    BY <2>3, <2>4
<1>13. CASE e = "AddSession"
  <2>1. sessions' = sessions \cup {s} /\ UNCHANGED <<connected, abandoned>>
    BY <1>13, Frames DEF Act, AddSession
  <2>2. s \in connected
    <3>1. On(w, s, "OnConnected")
      BY <1>2, <1>13 DEF LifeInv
    <3>2. ~On(w, s, "ProcessConnect")
      BY <1>13, Moving, Behinds
    <3> QED
      BY <3>1, <3>2 DEF LifeInv
  <2>3. \A v \in Workers : ~On(v, s, "AddSession")'
    <3>1. \A v \in Workers : On(v, s, "AddSession")' => v = w
      BY FreshAct DEF Among, OpenEntries
    <3>2. ~On(w, s, "AddSession")'
      BY <1>13, Moving, Behinds DEF After
    <3> QED
      BY <3>1, <3>2
  <2>4. ~Fresh(s)'
    BY <1>5, <1>13
  <2>5. CASE r = s
    BY <2>1, <2>2, <2>3, <2>4, <2>5 DEF Listed
  <2>6. CASE r # s
    BY <1>1, <1>2, <1>6, <1>8, <1>9, <1>10, <1>13, <2>1, <2>6 DEF Listed, EndEntries
  <2> QED
    BY <2>5, <2>6
<1>14. CASE e = "RemoveSession"
  <2>1. sessions' = sessions \ {s} /\ UNCHANGED <<connected, abandoned>>
    BY <1>14, Frames DEF Act, RemoveSession
  <2>2. /\ s \notin connected /\ <<s, "disconnect">> \notin inFlight
        /\ \A v \in Workers \ {w} : ~Among(v, s, EndEntries)
    BY <1>2, <1>14 DEF LifeInv, Among, EndEntries
  <2>3. ~Among(w, s, EndEntries)'
    <3>1. \A x : ~On(w, s, x)'
      BY <1>14, Moving, Behinds DEF After
    <3> QED
      BY <3>1 DEF Among
  <2>4. CASE r = s
    BY <1>3, <1>8, <1>14, <2>1, <2>2, <2>3, <2>4 DEF Listed
  <2>5. CASE r # s
    BY <1>1, <1>2, <1>3, <1>6, <1>7, <1>8, <1>9, <1>14, <2>1, <2>5 DEF Listed
  <2> QED
    BY <2>4, <2>5
<1>15. CASE e = "Disconnect"
  <2>1. connected' = connected \ {s} /\ UNCHANGED <<sessions, abandoned>>
    BY <1>15, Frames DEF Act, Disconnect
  <2>2. \A v \in Workers : ~On(v, s, "AddSession") /\ ~On(v, s, "AddSession")'
    BY <1>4, <1>15 DEF OpenEntries
  <2>3. ~Fresh(s)'
    BY <1>5, <1>15
  <2>4. CASE r = s /\ s \in connected
    <3>1. s \in sessions
      BY <1>1, <2>2, <2>4 DEF Listed
    <3>2. On(w, s, "RegisterDisconnect")'
      <4>1. Advances(w, s, "Disconnect", {"RegisterDisconnect"})
        BY <1>15, <2>4, Turn DEF Act
      <4> QED
        BY <4>1 DEF Advances
    <3> QED
      BY <2>1, <2>2, <2>3, <2>4, <3>1, <3>2 DEF Listed, Among, EndEntries
  <2>5. CASE r = s /\ s \notin connected
    <3>1. Advances(w, s, "Disconnect", {})
      BY <1>15, <2>5, Turn DEF Act
    <3>2. \A x : x # "Disconnect" => (On(w, s, x)' <=> x \in {} \/ On(w, s, x))
      BY <3>1 DEF Advances
    <3>3. Among(w, s, EndEntries)' <=> Among(w, s, EndEntries)
      BY <3>2 DEF Among, EndEntries
    <3>4. \A v \in Workers : Among(v, s, EndEntries)' <=> Among(v, s, EndEntries)
      BY <1>3, <2>5, <3>3
    <3> QED
      BY <1>1, <1>2, <1>8, <1>9, <1>15, <2>1, <2>2, <2>3, <2>5, <3>4 DEF Listed
  <2>6. CASE r # s
    BY <1>1, <1>2, <1>3, <1>6, <1>7, <1>8, <1>9, <1>15, <2>1, <2>6 DEF Listed
  <2> QED
    BY <2>4, <2>5, <2>6
<1>16. CASE e = "RegisterDisconnect"
  <2>1. UNCHANGED <<sessions, connected>>
    BY <1>16, Frames
  <2>2. \/ inFlight' = inFlight \cup {<<s, "disconnect">>} /\ abandoned \subseteq abandoned'
        \/ abandoned' = abandoned \cup {s} /\ UNCHANGED inFlight
    BY <1>16 DEF Act, RegisterDisconnect
  <2>3. s \in sessions
    BY <1>2, <1>16 DEF ListInv, Among, EndEntries
  <2>4. \A v \in Workers : ~On(v, s, "AddSession")'
    BY <1>4, <1>16 DEF OpenEntries
  <2>5. ~Fresh(s)'
    BY <1>5, <1>16
  <2>6. CASE r = s
    BY <2>1, <2>2, <2>3, <2>4, <2>5, <2>6 DEF Listed
  <2>7. CASE r # s
    <3>1. <<r, "disconnect">> \in inFlight' <=> <<r, "disconnect">> \in inFlight
      BY <2>2, <2>7
    <3> QED
      BY <1>1, <1>2, <1>3, <1>6, <1>7, <1>16, <2>1, <2>2, <2>7, <3>1 DEF Listed
  <2> QED
    BY <2>6, <2>7
<1>17. CASE e = "OnDisconnected"
  <2>1. UNCHANGED <<sessions, connected, abandoned>>
    BY <1>17, Frames
  <2>2. Among(w, s, EndEntries) /\ Among(w, s, EndEntries)'
    <3>1. On(w, s, "RemoveSession")
      BY <1>2, <1>17 DEF LifeInv
    <3>2. On(w, s, "RemoveSession")'
      BY <1>17, <3>1, Moving
    <3> QED
      BY <3>1, <3>2 DEF Among, EndEntries
  <2>3. \A v \in Workers : Among(v, r, EndEntries)' <=> Among(v, r, EndEntries)
    BY <1>3, <2>2
  <2> QED
    BY <1>1, <1>2, <1>6, <1>7, <1>8, <1>9, <1>17, <2>1, <2>3 DEF Listed
<1>18. CASE e \notin {"RegisterAccept", "ProcessConnect", "AddSession"}
                     \cup EndEntries \cup {"Disconnect"}
  <2>1. UNCHANGED <<sessions, connected, abandoned>>
    BY <1>18, Frames DEF EndEntries
  <2>2. e # "RegisterDisconnect"
    BY <1>18 DEF EndEntries
  <2> QED
    BY <1>1, <1>2, <1>6, <1>7, <1>8, <1>9, <1>10, <1>18, <2>1, <2>2 DEF Listed
<1> QED
  BY <1>11, <1>12, <1>13, <1>14, <1>15, <1>16, <1>17, <1>18 DEF EndEntries

\* Every turn keeps ListInv.
LEMMA ListStep ==
  ASSUME Inv, NEW w \in Workers, Turns(w)
  PROVE  ListInv'
<1> USE DEF Inv
<1>1. \A r \in Sessions : Listed(r)
  BY DEF ListInv, Listed
<1>2. ASSUME NEW s \in Sessions, NEW e \in Entries, Moves(w, s, e), Act(w, s, e)
      PROVE  ListInv'
  <2>1. \A r \in Sessions : Listed(r)'
    BY <1>2, ListAct
  <2>2. IsFiniteSet(sessions') /\ sessionCount' = Cardinality(sessions')
    BY <1>2, CountStep
  <2> QED
    BY <2>1, <2>2 DEF ListInv, Listed
<1>3. ASSUME NEW s \in Sessions, NEW e \in Events, ObserveIO(w, s, e)
      PROVE  ListInv'
  <2>1. /\ <<s, e>> \in inFlight /\ inFlight' = inFlight \ {<<s, e>>} /\ ~crashed
        /\ UNCHANGED <<connected, sessions, sessionCount, abandoned>>
    BY <1>3 DEF ObserveIO, lists, history
  <2>2. \A r \in Sessions : Fresh(r)' => Fresh(r)
    BY <1>3, FreshObserve
  <2>3. CASE <<s, e>> \in owner
    <3>1. PICK S \in Firsts(e) : Starts(w, s, S)
      BY <1>3, <2>3, Observed
    <3>2. \A v \in Workers, r \in Sessions : v # w \/ r # s => \A x : On(v, r, x)' <=> On(v, r, x)
      BY <3>1, Starting
    <3>3. \A v \in Workers, r \in Sessions : v # w \/ r # s =>
            (Among(v, r, EndEntries)' <=> Among(v, r, EndEntries))
      BY <3>2 DEF Among
    <3>4. \A x : ~On(w, s, x) /\ (On(w, s, x)' <=> x \in S)
      BY <3>1, Starting
    <3>5. ~Among(w, s, EndEntries)
      BY <3>4 DEF Among
    <3>6. UNCHANGED crash
      BY <1>3, <2>3, Observed
    <3>7. ASSUME NEW r \in Sessions
          PROVE  Listed(r)'
      <4>1. CASE r # s
        BY <1>1, <2>1, <2>2, <3>2, <3>3, <3>6, <4>1 DEF Listed, crashed
      <4>2. CASE r = s /\ e = "connect"
        <5>1. Fresh(s) /\ s \notin sessions
          BY <1>1, <1>3, <4>2, FreshObserve DEF Listed
        <5>2. ~Among(w, s, EndEntries)'
          <6>1. S \cap EndEntries = {}
            BY <4>2 DEF Firsts, EndEntries
          <6> QED
            BY <3>4, <6>1 DEF Among
        <5>3. \A v \in Workers : On(v, s, "AddSession") => On(v, s, "AddSession")'
          BY <3>2, <3>4
        <5> QED
          BY <1>1, <2>1, <2>2, <3>3, <4>2, <5>1, <5>2, <5>3 DEF Listed
      <4>3. CASE r = s /\ e = "disconnect"
        <5>1. s \in sessions
          BY <1>1, <2>1, <4>3 DEF Listed
        <5>2. ~Fresh(s)' /\ \A v \in Workers : ~On(v, s, "AddSession")
          BY <1>3, <2>2, <4>3, FreshObserve DEF Among, OpenEntries
        <5>3. ~On(w, s, "AddSession")' /\ Among(w, s, EndEntries)'
          <6>1. S = {"OnDisconnected", "RemoveSession"}
            BY <4>3 DEF Firsts
          <6> QED
            BY <3>4, <6>1 DEF Among, EndEntries
        <5>4. \A v \in Workers : ~On(v, s, "AddSession")'
          BY <3>2, <5>2, <5>3
        <5> QED
          BY <2>1, <4>3, <5>1, <5>2, <5>3, <5>4 DEF Listed
      <4>4. CASE r = s /\ e \in {"recv", "send"}
        <5>1. S \cap EndEntries = {} /\ "AddSession" \notin S
          BY <4>4 DEF Firsts, EndEntries
        <5>2. \A v \in Workers : On(v, s, "AddSession")' <=> On(v, s, "AddSession")
          BY <3>2, <3>4, <5>1
        <5>3. \A v \in Workers : Among(v, s, EndEntries)' <=> Among(v, s, EndEntries)
          BY <3>3, <3>4, <3>5, <5>1 DEF Among
        <5> QED
          BY <1>1, <2>1, <2>2, <3>6, <4>4, <5>2, <5>3 DEF Listed, crashed
      <4> QED
        BY <4>1, <4>2, <4>3, <4>4 DEF Events
    <3> QED
      BY <2>1, <3>7 DEF ListInv, Listed
  <2>4. CASE <<s, e>> \notin owner
    <3>1. \A v \in Workers, r \in Sessions : \A x : On(v, r, x)' <=> On(v, r, x)
      BY <1>3, <2>4, Observed, Same
    <3>2. \A v \in Workers, r \in Sessions : Among(v, r, EndEntries)' <=> Among(v, r, EndEntries)
      BY <3>1 DEF Among
    <3>3. crashed'
      BY <1>3, <2>4, Observed DEF crashed
    <3> QED
      BY <2>1, <2>2, <3>1, <3>2, <3>3 DEF ListInv
  <2> QED
    BY <2>3, <2>4
<1>4. CASE ProcessAccept(w)
  <2>1. PICK s \in Sessions, S \in AcceptFirsts :
          /\ Starts(w, s, S) /\ Fresh(s) /\ (\A v \in Workers : \A x : ~On(v, s, x))
          /\ \A r \in Sessions : Fresh(r)' => Fresh(r)
    BY <1>4, FreshFetch
  <2>2. UNCHANGED <<inFlight, connected, sessions, sessionCount, abandoned, crash>>
    BY <1>4 DEF ProcessAccept, events, lists, history
  <2>3. \A v \in Workers, r \in Sessions : v # w \/ r # s => \A x : On(v, r, x)' <=> On(v, r, x)
    BY <2>1, Starting
  <2>4. \A v \in Workers, r \in Sessions : Among(v, r, EndEntries)' <=> Among(v, r, EndEntries)
    <3>1. S \cap EndEntries = {} /\ \A x : On(w, s, x)' <=> x \in S
      BY <2>1, Starting DEF AcceptFirsts, EndEntries
    <3> QED
      BY <2>1, <2>3, <3>1 DEF Among
  <2>5. \A r \in Sessions : r # s =>
          \A v \in Workers : On(v, r, "AddSession")' <=> On(v, r, "AddSession")
    BY <2>3
  <2>6. s \notin sessions /\ \A v \in Workers : ~On(v, s, "AddSession")
    BY <1>1, <2>1 DEF Listed
  <2>7. \A r \in Sessions : Listed(r)'
    BY <1>1, <2>1, <2>2, <2>4, <2>5, <2>6 DEF Listed, crashed
  <2> QED
    BY <2>2, <2>7 DEF ListInv, Listed
<1> QED
  BY <1>2, <1>3, <1>4 DEF Turns

-----------------------------------------------------------------------------
(* The calls of the application, and the receive that follows a connect      *)

\* The part of CallsInv about one session.
Told(s) ==
  /\ calls[s] \in {<<>>, <<"OnConnected">>, <<"OnConnected", "OnDisconnected">>}
  /\ Fresh(s) \/ (\E w \in Workers : On(w, s, "OnConnected"))
       => calls[s] = <<>> /\ s \notin clients
  /\ s \in connected =>
       \/ calls[s] = <<"OnConnected">> /\ s \in clients \cup {clientSession}
       \/ \E w \in Workers : On(w, s, "OnConnected")
  /\ <<s, "disconnect">> \in inFlight => calls[s] = <<"OnConnected">>
  /\ \A w \in Workers : Among(w, s, OutEntries) => calls[s] = <<"OnConnected">>
  /\ s \in clients =>
       \/ s \in connected \/ s \in abandoned \/ crashed
       \/ <<s, "disconnect">> \in inFlight
       \/ \E w \in Workers : Among(w, s, OutEntries)

\* Appending to a sequence of one.
LEMMA AppendOne ==
  ASSUME NEW T, NEW a \in T, NEW b \in T, NEW p, p = <<a>>
  PROVE  Append(p, b) = <<a, b>>
<1> DEFINE q == <<a, b>>
<1>1. p \in Seq(T) /\ Len(p) = 1 /\ p[1] = a
  OBVIOUS
<1>2. q \in Seq(T) /\ Len(q) = 2 /\ q[1] = a /\ q[2] = b
  OBVIOUS
<1> HIDE DEF q
<1>3. /\ Append(p, b) \in Seq(T) /\ Len(Append(p, b)) = Len(p) + 1
      /\ \A i \in 1..Len(p) : Append(p, b)[i] = p[i]
      /\ Append(p, b)[Len(p) + 1] = b
  BY <1>1, AppendProperties
<1>4. /\ Append(p, b) \in Seq(T) /\ Len(Append(p, b)) = 2
      /\ Append(p, b)[1] = a /\ Append(p, b)[2] = b
  BY <1>1, <1>3
<1>5. \A u, v \in Seq(T) :
        Len(u) = 2 /\ Len(v) = 2 /\ u[1] = v[1] /\ u[2] = v[2] => u = v
  BY SeqEqual
<1>6. Append(p, b) = q
  BY <1>2, <1>4, <1>5
<1> QED
  BY <1>6 DEF q

\* A move keeps CallsInv.
LEMMA CallsAct ==
  ASSUME Inv, NEW w \in Workers, NEW s \in Sessions, NEW e \in Entries,
         Moves(w, s, e), Act(w, s, e), NEW r \in Sessions
  PROVE  Told(r)'
<1> USE DEF Inv
<1>1. Told(r)
  BY DEF CallsInv, Told
<1>2. On(w, s, e) /\ ~crashed /\ UNCHANGED clientSession
      /\ \A v \in Workers : v # w \/ r # s => \A x : On(v, r, x)' <=> On(v, r, x)
  BY Moving, Frames
<1>3. \A v \in Workers : v # w \/ r # s => (Among(v, r, OutEntries)' <=> Among(v, r, OutEntries))
  BY <1>2 DEF Among
<1>4. e \notin OpenEntries =>
        \A v \in Workers : ~On(v, s, "OnConnected") /\ ~On(v, s, "OnConnected")'
  BY FreshAct DEF Among, OpenEntries
<1>5. e # "RegisterConnect" => ~Fresh(s)'
  BY FreshAct
<1>6. e # "RegisterAccept" => (Fresh(r)' => Fresh(r))
  BY FreshAct
<1>7. e # "OnConnected" =>
        \A v \in Workers : On(v, r, "OnConnected")' <=> On(v, r, "OnConnected")
  <2>1. "OnConnected" \notin After(e)
    BY DEF After
  <2>2. e # "OnConnected" => (On(w, s, "OnConnected")' <=> On(w, s, "OnConnected"))
    BY <2>1, Moving
  <2> QED
    BY <1>2, <2>2
<1>8. e # "RegisterDisconnect" =>
        (<<r, "disconnect">> \in inFlight' <=> <<r, "disconnect">> \in inFlight)
  BY Flights
<1>9. e \notin OutEntries \cup {"Disconnect"} =>
        \A v \in Workers : Among(v, r, OutEntries)' <=> Among(v, r, OutEntries)
  <2>1. e # "Disconnect" => After(e) \cap OutEntries = {}
    BY DEF After, OutEntries, Entries
  <2> QED
    BY <2>1, Untouched
<1>10. DOMAIN calls = Sessions
  BY DEF TypeOK
<1>11. CASE e = "RegisterAccept"
  <2>1. PICK new \in Free :
          /\ Fresh(r)' => Fresh(r) \/ r = new
          /\ connected' = connected \ {new}
          /\ calls' = [calls EXCEPT ![new] = <<>>]
          /\ abandoned' = abandoned \ {new}
    BY <1>11, FreshAct
  <2>2. UNCHANGED clients
    BY <1>11, Frames
  <2>3. CASE r = new
    <3>1. calls'[r] = <<>>
      BY <1>10, <2>1, <2>3
    <3>2. r \notin clients /\ <<r, "disconnect">> \notin inFlight
          /\ \A v \in Workers : \A x : ~On(v, r, x)
      BY <2>1, <2>3, Frees DEF Events
    <3>3. \A v \in Workers : ~Among(v, r, OutEntries)
      BY <3>2 DEF Among
    <3> QED
      BY <1>7, <1>8, <1>9, <1>11, <2>1, <2>2, <2>3, <3>1, <3>2, <3>3 DEF Told, OutEntries
  <2>4. CASE r # new
    <3>1. calls'[r] = calls[r]
      BY <1>10, <2>1, <2>4
    <3> QED
      BY <1>1, <1>2, <1>7, <1>8, <1>9, <1>11, <2>1, <2>2, <2>4, <3>1 DEF Told, OutEntries
  <2> QED
    BY <2>3, <2>4
<1>12. CASE e = "ProcessConnect"
  <2>1. connected' = connected \cup {s} /\ UNCHANGED <<clients, calls, abandoned>>
    BY <1>12, Frames DEF Act, ProcessConnect
  <2>2. On(w, s, "OnConnected")
    BY <1>2, <1>12 DEF LifeInv
  <2>3. CASE r = s
    BY <1>1, <1>2, <1>6, <1>7, <1>8, <1>9, <1>12, <2>1, <2>2, <2>3 DEF Told, OutEntries
  <2>4. CASE r # s
    BY <1>1, <1>2, <1>6, <1>7, <1>8, <1>9, <1>12, <2>1, <2>4 DEF Told, OutEntries
  <2> QED
    BY <2>3, <2>4
<1>13. CASE e = "OnConnected"
  <2>1. /\ calls' = [calls EXCEPT ![s] = Append(@, "OnConnected")]
        /\ IF s = clientSession THEN UNCHANGED clients ELSE clients' = clients \cup {s}
        /\ UNCHANGED <<connected, abandoned>>
    BY <1>13, Frames DEF Act, OnConnected
  <2>2. s \in connected
    <3>1. ~On(w, s, "ProcessConnect")
      BY <1>13, Moving, Behinds
    <3> QED
      BY <1>2, <1>13, <3>1 DEF LifeInv
  <2>3. CASE r = s
    <3>1. calls[s] = <<>> /\ s \notin clients
      BY <1>1, <1>2, <1>13, <2>3 DEF Told
    <3>2. calls'[s] = <<"OnConnected">>
      <4>1. calls'[s] = Append(calls[s], "OnConnected")
        BY <1>10, <2>1
      <4>2. Append(<<>>, "OnConnected") = <<"OnConnected">>
        OBVIOUS
      <4> QED
        BY <3>1, <4>1, <4>2
    <3>3. \A v \in Workers : ~On(v, s, "OnConnected")'
      <4>1. \A v \in Workers : On(v, s, "OnConnected")' => v = w
        BY FreshAct DEF Among, OpenEntries
      <4>2. ~On(w, s, "OnConnected")'
        BY <1>13, Moving, Behinds DEF After
      <4> QED
        BY <4>1, <4>2
    <3>4. ~Fresh(s)'
      BY <1>5, <1>13
    <3> QED
      BY <1>2, <2>1, <2>2, <2>3, <3>1, <3>2, <3>3, <3>4 DEF Told
  <2>4. CASE r # s
    <3>1. calls'[r] = calls[r]
      BY <1>10, <2>1, <2>4
    <3>2. r \in clients' <=> r \in clients
      BY <2>1, <2>4
    <3> QED
      BY <1>1, <1>2, <1>6, <1>8, <1>9, <1>13, <2>1, <2>4, <3>1, <3>2 DEF Told, OutEntries
  <2> QED
    BY <2>3, <2>4
<1>14. CASE e = "OnDisconnected"
  <2>1. /\ calls' = [calls EXCEPT ![s] = Append(@, "OnDisconnected")]
        /\ clients' = clients \ {s}
        /\ UNCHANGED <<connected, abandoned>>
    BY <1>14, Frames DEF Act, OnDisconnected
  <2>2. CASE r = s
    <3>1. calls[s] = <<"OnConnected">>
      BY <1>1, <1>2, <1>14, <2>2 DEF Told, Among, OutEntries
    <3>2. calls'[s] = <<"OnConnected", "OnDisconnected">>
      <4>1. calls'[s] = Append(calls[s], "OnDisconnected")
        BY <1>10, <2>1
      <4>2. Append(calls[s], "OnDisconnected") = <<"OnConnected", "OnDisconnected">>
        <5> DEFINE T == {"OnConnected", "OnDisconnected"}
        <5>1. "OnConnected" \in T /\ "OnDisconnected" \in T
          OBVIOUS
        <5> HIDE DEF T
        <5> QED
          BY <3>1, <5>1, AppendOne
      <4> QED
        BY <4>1, <4>2
    <3>3. /\ s \notin connected /\ <<s, "disconnect">> \notin inFlight
          /\ \A v \in Workers \ {w} : ~Among(v, s, OutEntries)
      <4>1. Among(w, s, EndEntries)
        BY <1>2, <1>14 DEF Among, EndEntries
      <4> QED
        BY <4>1 DEF LifeInv, Among, EndEntries, OutEntries
    <3>4. ~Among(w, s, OutEntries)'
      <4>1. \A x : On(w, s, x)' => x = "RemoveSession"
        BY <1>14, Moving, Behinds DEF After
      <4> QED
        BY <4>1 DEF Among, OutEntries
    <3>5. \A v \in Workers : ~Among(v, s, OutEntries)'
      BY <1>3, <2>2, <3>3, <3>4
    <3>6. ~Fresh(s)' /\ \A v \in Workers : ~On(v, s, "OnConnected")'
      BY <1>4, <1>5, <1>14 DEF OpenEntries
    <3> QED
      BY <1>8, <1>14, <2>1, <2>2, <3>2, <3>3, <3>5, <3>6 DEF Told
  <2>3. CASE r # s
    <3>1. calls'[r] = calls[r]
      BY <1>10, <2>1, <2>3
    <3>2. r \in clients' <=> r \in clients
      BY <2>1, <2>3
    <3> QED
      BY <1>1, <1>2, <1>3, <1>6, <1>7, <1>8, <1>14, <2>1, <2>3, <3>1, <3>2 DEF Told
  <2> QED
    BY <2>2, <2>3
<1>15. CASE e = "Disconnect"
  <2>1. connected' = connected \ {s} /\ UNCHANGED <<clients, calls, abandoned>>
    BY <1>15, Frames DEF Act, Disconnect
  <2>2. \A v \in Workers : ~On(v, s, "OnConnected") /\ ~On(v, s, "OnConnected")'
    BY <1>4, <1>15 DEF OpenEntries
  <2>3. ~Fresh(s)'
    BY <1>5, <1>15
  <2>4. CASE r = s /\ s \in connected
    <3>1. calls[s] = <<"OnConnected">>
      BY <1>1, <2>2, <2>4 DEF Told
    <3>2. Among(w, s, OutEntries)'
      <4>1. Advances(w, s, "Disconnect", {"RegisterDisconnect"})
        BY <1>15, <2>4, Turn DEF Act
      <4>2. On(w, s, "RegisterDisconnect")'
        BY <4>1 DEF Advances
      <4> QED
        BY <4>2 DEF Among, OutEntries
    <3> QED
      BY <2>1, <2>2, <2>3, <2>4, <3>1, <3>2 DEF Told
  <2>5. CASE r = s /\ s \notin connected
    <3>1. Advances(w, s, "Disconnect", {})
      BY <1>15, <2>5, Turn DEF Act
    <3>2. \A x : x # "Disconnect" => (On(w, s, x)' <=> x \in {} \/ On(w, s, x))
      BY <3>1 DEF Advances
    <3>3. Among(w, s, OutEntries)' <=> Among(w, s, OutEntries)
      BY <3>2 DEF Among, OutEntries
    <3>4. \A v \in Workers : Among(v, s, OutEntries)' <=> Among(v, s, OutEntries)
      BY <1>3, <2>5, <3>3
    <3> QED
      BY <1>1, <1>2, <1>8, <1>15, <2>1, <2>2, <2>3, <2>5, <3>4 DEF Told
  <2>6. CASE r # s
    BY <1>1, <1>2, <1>3, <1>6, <1>7, <1>8, <1>15, <2>1, <2>6 DEF Told
  <2> QED
    BY <2>4, <2>5, <2>6
<1>16. CASE e = "RegisterDisconnect"
  <2>1. UNCHANGED <<clients, calls, connected>>
    BY <1>16, Frames
  <2>2. \/ inFlight' = inFlight \cup {<<s, "disconnect">>} /\ abandoned \subseteq abandoned'
        \/ abandoned' = abandoned \cup {s} /\ UNCHANGED inFlight
    BY <1>16 DEF Act, RegisterDisconnect
  <2>3. \A v \in Workers : ~On(v, s, "OnConnected")'
    BY <1>4, <1>16 DEF OpenEntries
  <2>4. ~Fresh(s)'
    BY <1>5, <1>16
  <2>5. CASE r = s
    <3>1. calls[s] = <<"OnConnected">>
      BY <1>1, <1>2, <1>16, <2>5 DEF Told, Among, OutEntries
    <3>2. s \notin connected
      BY <1>2, <1>16 DEF LifeInv, Among, EndEntries
    <3> QED
      BY <2>1, <2>2, <2>3, <2>4, <2>5, <3>1, <3>2 DEF Told
  <2>6. CASE r # s
    <3>1. <<r, "disconnect">> \in inFlight' <=> <<r, "disconnect">> \in inFlight
      BY <2>2, <2>6
    <3> QED
      BY <1>1, <1>2, <1>3, <1>6, <1>7, <1>16, <2>1, <2>2, <2>6, <3>1 DEF Told
  <2> QED
    BY <2>5, <2>6
<1>17. CASE e \notin {"RegisterAccept", "ProcessConnect", "OnConnected"}
                     \cup OutEntries \cup {"Disconnect"}
  <2>1. UNCHANGED <<clients, calls, connected, abandoned>>
    BY <1>17, Frames DEF OutEntries
  <2>2. e # "RegisterDisconnect"
    BY <1>17 DEF OutEntries
  <2> QED
    BY <1>1, <1>2, <1>6, <1>7, <1>8, <1>9, <1>17, <2>1, <2>2 DEF Told
<1> QED
  BY <1>11, <1>12, <1>13, <1>14, <1>15, <1>16, <1>17 DEF OutEntries

\* Every turn keeps CallsInv.
LEMMA CallsStep ==
  ASSUME Inv, NEW w \in Workers, Turns(w)
  PROVE  CallsInv'
<1> USE DEF Inv
<1>1. \A r \in Sessions : Told(r)
  BY DEF CallsInv, Told
<1>2. ASSUME NEW s \in Sessions, NEW e \in Entries, Moves(w, s, e), Act(w, s, e)
      PROVE  CallsInv'
  <2>1. \A r \in Sessions : Told(r)'
    BY <1>2, CallsAct
  <2> QED
    BY <2>1 DEF CallsInv, Told
<1>3. ASSUME NEW s \in Sessions, NEW e \in Events, ObserveIO(w, s, e)
      PROVE  CallsInv'
  <2>1. /\ <<s, e>> \in inFlight /\ inFlight' = inFlight \ {<<s, e>>} /\ ~crashed
        /\ UNCHANGED <<connected, clients, clientSession, calls, abandoned>>
    BY <1>3 DEF ObserveIO, lists, accepts, history
  <2>2. \A r \in Sessions : Fresh(r)' => Fresh(r)
    BY <1>3, FreshObserve
  <2>3. CASE <<s, e>> \in owner
    <3>1. PICK S \in Firsts(e) : Starts(w, s, S)
      BY <1>3, <2>3, Observed
    <3>2. \A v \in Workers, r \in Sessions : v # w \/ r # s => \A x : On(v, r, x)' <=> On(v, r, x)
      BY <3>1, Starting
    <3>3. \A v \in Workers, r \in Sessions : v # w \/ r # s =>
            (Among(v, r, OutEntries)' <=> Among(v, r, OutEntries))
      BY <3>2 DEF Among
    <3>4. \A x : ~On(w, s, x) /\ (On(w, s, x)' <=> x \in S)
      BY <3>1, Starting
    <3>5. ~Among(w, s, OutEntries)
      BY <3>4 DEF Among
    <3>6. UNCHANGED crash
      BY <1>3, <2>3, Observed
    <3>7. ASSUME NEW r \in Sessions
          PROVE  Told(r)'
      <4>1. CASE r # s
        BY <1>1, <2>1, <2>2, <3>2, <3>3, <3>6, <4>1 DEF Told, crashed
      <4>2. CASE r = s /\ e = "connect"
        <5>1. calls[s] = <<>> /\ s \notin clients
          BY <1>1, <1>3, <4>2, FreshObserve DEF Told
        <5>2. ~Among(w, s, OutEntries)'
          <6>1. S \cap OutEntries = {}
            BY <4>2 DEF Firsts, OutEntries
          <6> QED
            BY <3>4, <6>1 DEF Among
        <5>3. \A v \in Workers : On(v, s, "OnConnected") => On(v, s, "OnConnected")'
          BY <3>2, <3>4
        <5>4. \A v \in Workers : Among(v, s, OutEntries)' => Among(v, s, OutEntries)
          BY <3>3, <5>2
        <5>5. <<s, "disconnect">> \in inFlight' => <<s, "disconnect">> \in inFlight
          BY <2>1
        <5> QED
          BY <1>1, <2>1, <4>2, <5>1, <5>3, <5>4, <5>5 DEF Told
      <4>3. CASE r = s /\ e = "disconnect"
        <5>1. calls[s] = <<"OnConnected">>
          BY <1>1, <2>1, <4>3 DEF Told
        <5>2. ~Fresh(s)' /\ \A v \in Workers : ~On(v, s, "OnConnected")
          BY <1>3, <2>2, <4>3, FreshObserve DEF Among, OpenEntries
        <5>3. ~On(w, s, "OnConnected")' /\ Among(w, s, OutEntries)'
          <6>1. S = {"OnDisconnected", "RemoveSession"}
            BY <4>3 DEF Firsts
          <6> QED
            BY <3>4, <6>1 DEF Among, OutEntries
        <5>4. \A v \in Workers : ~On(v, s, "OnConnected")'
          BY <3>2, <5>2, <5>3
        <5>5. s \notin connected
          BY <2>1, <4>3 DEF LifeInv
        <5> QED
          BY <2>1, <4>3, <5>1, <5>2, <5>3, <5>4, <5>5 DEF Told
      <4>4. CASE r = s /\ e \in {"recv", "send"}
        <5>1. S \cap OutEntries = {} /\ "OnConnected" \notin S
          BY <4>4 DEF Firsts, OutEntries
        <5>2. \A v \in Workers : On(v, s, "OnConnected")' <=> On(v, s, "OnConnected")
          BY <3>2, <3>4, <5>1
        <5>3. \A v \in Workers : Among(v, s, OutEntries)' <=> Among(v, s, OutEntries)
          BY <3>3, <3>4, <3>5, <5>1 DEF Among
        <5> QED
          BY <1>1, <2>1, <2>2, <3>6, <4>4, <5>2, <5>3 DEF Told, crashed
      <4> QED
        BY <4>1, <4>2, <4>3, <4>4 DEF Events
    <3> QED
      BY <3>7 DEF CallsInv, Told
  <2>4. CASE <<s, e>> \notin owner
    <3>1. \A v \in Workers, r \in Sessions : \A x : On(v, r, x)' <=> On(v, r, x)
      BY <1>3, <2>4, Observed, Same
    <3>2. \A v \in Workers, r \in Sessions : Among(v, r, OutEntries)' <=> Among(v, r, OutEntries)
      BY <3>1 DEF Among
    <3>3. crashed'
      BY <1>3, <2>4, Observed DEF crashed
    <3>4. \A r \in Sessions : Told(r)'
      BY <1>1, <2>1, <2>2, <3>1, <3>2, <3>3 DEF Told
    <3> QED
      BY <3>4 DEF CallsInv, Told
  <2> QED
    BY <2>3, <2>4
<1>4. CASE ProcessAccept(w)
  <2>1. PICK s \in Sessions, S \in AcceptFirsts :
          /\ Starts(w, s, S) /\ Fresh(s) /\ (\A v \in Workers : \A x : ~On(v, s, x))
          /\ \A r \in Sessions : Fresh(r)' => Fresh(r)
    BY <1>4, FreshFetch
  <2>2. UNCHANGED <<inFlight, connected, clients, clientSession, calls, abandoned, crash>>
    BY <1>4 DEF ProcessAccept, events, lists, history
  <2>3. \A v \in Workers, r \in Sessions : v # w \/ r # s => \A x : On(v, r, x)' <=> On(v, r, x)
    BY <2>1, Starting
  <2>4. \A v \in Workers, r \in Sessions : Among(v, r, OutEntries)' <=> Among(v, r, OutEntries)
    <3>1. S \cap OutEntries = {} /\ \A x : On(w, s, x)' <=> x \in S
      BY <2>1, Starting DEF AcceptFirsts, OutEntries
    <3> QED
      BY <2>1, <2>3, <3>1 DEF Among
  <2>5. \A r \in Sessions : r # s =>
          \A v \in Workers : On(v, r, "OnConnected")' <=> On(v, r, "OnConnected")
    BY <2>3
  <2>6. /\ calls[s] = <<>> /\ s \notin clients
        /\ \A v \in Workers : On(v, s, "OnConnected") => On(v, s, "OnConnected")'
    BY <1>1, <2>1 DEF Told
  <2>7. \A r \in Sessions : Told(r)'
    BY <1>1, <2>1, <2>2, <2>4, <2>5, <2>6 DEF Told, crashed
  <2> QED
    BY <2>7 DEF CallsInv, Told
<1> QED
  BY <1>2, <1>3, <1>4 DEF Turns

\* Every turn keeps ServedInv.
LEMMA ServedStep ==
  ASSUME Inv, NEW w \in Workers, Turns(w)
  PROVE  ServedInv'
<1> USE DEF Inv
<1>1. ASSUME NEW s \in Sessions, NEW e \in Entries, Moves(w, s, e), Act(w, s, e)
      PROVE  ServedInv'
  <2>1. On(w, s, e) /\ \A v \in Workers, r \in Sessions :
          v # w \/ r # s => \A x : On(v, r, x)' <=> On(v, r, x)
    BY <1>1, Moving
  <2>2. \A v \in Workers, r \in Sessions :
          e \notin ServeEntries \/ v # w \/ r # s =>
            (Among(v, r, ServeEntries) => Among(v, r, ServeEntries)')
    <3>1. \A x : x # e /\ On(w, s, x) => On(w, s, x)'
      BY <1>1, Moving
    <3>2. e \notin ServeEntries => (Among(w, s, ServeEntries) => Among(w, s, ServeEntries)')
      BY <3>1 DEF Among
    <3>3. \A v \in Workers, r \in Sessions : v # w \/ r # s =>
            (Among(v, r, ServeEntries) => Among(v, r, ServeEntries)')
      BY <2>1 DEF Among
    <3> QED
      BY <3>2, <3>3
  <2>3. inFlight \subseteq inFlight'
    BY <1>1, Flights
  <2>4. connected' \subseteq connected \cup {s} /\ connected \subseteq Sessions
    <3>1. SUFFICES connected' \subseteq connected \cup {s}
      BY DEF TypeOK
    <3>2. CASE e = "RegisterAccept"
      BY <1>1, <3>2, FreshAct
    <3>3. CASE e = "ProcessConnect"
      BY <1>1, <3>3 DEF Act, ProcessConnect
    <3>4. CASE e = "Disconnect"
      BY <1>1, <3>4 DEF Act, Disconnect
    <3>5. CASE e \notin {"RegisterAccept", "ProcessConnect", "Disconnect"}
      BY <1>1, <3>5, Frames
    <3> QED
      BY <3>2, <3>3, <3>4, <3>5
  <2>5. \A r \in connected' \ deaf' : r \in deaf => FALSE
    <3>1. CASE e = "RegisterAccept"
      <4>1. PICK new \in Free : connected' = connected \ {new} /\ deaf' = deaf \ {new}
        BY <1>1, <3>1, FreshAct
      <4> QED
        BY <4>1
    <3>2. CASE e \in {"RegisterRecv", "RegisterSend", "ProcessSend"}
      BY <1>1, <3>2 DEF Act, RegisterRecv, RegisterSend, ProcessSend, PostSend, Register
    <3>3. CASE e \notin {"RegisterAccept", "RegisterRecv", "RegisterSend", "ProcessSend"}
      BY <1>1, <3>3, Frames
    <3> QED
      BY <3>1, <3>2, <3>3
  <2>6. SUFFICES ASSUME NEW r \in connected' \ deaf'
                 PROVE  <<r, "recv">> \in inFlight' \/ \E v \in Workers : Among(v, r, ServeEntries)'
    BY DEF ServedInv
  <2>7. CASE r \notin connected
    <3>1. e = "ProcessConnect" /\ r = s
      <4>1. CASE e = "RegisterAccept"
        BY <1>1, <2>7, <4>1, FreshAct
      <4>2. CASE e = "Disconnect"
        BY <1>1, <2>7, <4>2 DEF Act, Disconnect
      <4>3. CASE e \notin {"RegisterAccept", "ProcessConnect", "Disconnect"}
        BY <1>1, <2>7, <4>3, Frames
      <4> QED
        BY <2>4, <2>7, <4>1, <4>2, <4>3
    <3>2. On(w, s, "RegisterRecv")
      BY <2>1, <3>1 DEF LifeInv
    <3>3. On(w, s, "RegisterRecv")'
      BY <1>1, <3>1, <3>2, Moving
    <3> QED
      BY <3>1, <3>3 DEF Among, ServeEntries
  <2>8. CASE r \in connected
    <3>1. \/ <<r, "recv">> \in inFlight
          \/ \E v \in Workers : Among(v, r, ServeEntries)
      BY <2>5, <2>8 DEF ServedInv
    <3>2. CASE r # s \/ e \notin ServeEntries
      BY <2>2, <2>3, <2>4, <2>8, <3>1, <3>2
    <3>3. CASE r = s /\ e = "RegisterRecv"
      <4>1. Registers(w, s, "RegisterRecv", "recv", "RecvRefused")
        BY <1>1, <3>3, Turn DEF Act
      <4>2. CASE inFlight' = inFlight \cup {<<s, "recv">>}
        BY <3>3, <4>2
      <4>3. CASE Advances(w, s, "RegisterRecv", {"Disconnect", "RecvRefused"})
        <5>1. On(w, s, "Disconnect")'
          BY <4>3 DEF Advances
        <5> QED
          BY <3>3, <5>1 DEF Among, ServeEntries
      <4>4. CASE deaf' = deaf \cup {s}
        BY <2>6, <3>3, <4>4
      <4> QED
        BY <2>8, <3>3, <4>1, <4>2, <4>3, <4>4 DEF Registers
    <3>4. CASE r = s /\ e = "Disconnect"
      BY <1>1, <2>6, <3>4 DEF Act, Disconnect
    <3> QED
      BY <3>2, <3>3, <3>4 DEF ServeEntries
  <2> QED
    BY <2>7, <2>8
<1>2. ASSUME NEW s \in Sessions, NEW e \in Events, ObserveIO(w, s, e)
      PROVE  ServedInv'
  <2>1. /\ <<s, e>> \in inFlight /\ inFlight' = inFlight \ {<<s, e>>}
        /\ UNCHANGED <<connected, deaf>> /\ connected \subseteq Sessions
    BY <1>2 DEF ObserveIO, history, TypeOK
  <2>2. CASE <<s, e>> \in owner
    <3>1. PICK S \in Firsts(e) : Starts(w, s, S)
      BY <1>2, <2>2, Observed
    <3>2. \A v \in Workers, r \in Sessions : Among(v, r, ServeEntries) => Among(v, r, ServeEntries)'
      BY <3>1, Starting DEF Among
    <3>3. e = "recv" => Among(w, s, ServeEntries)'
      <4>1. \A x : On(w, s, x)' <=> x \in S
        BY <3>1, Starting
      <4>2. e = "recv" => "RegisterRecv" \in S \/ "Disconnect" \in S
        BY DEF Firsts
      <4> QED
        BY <4>1, <4>2 DEF Among, ServeEntries
    <3> QED
      BY <2>1, <3>2, <3>3 DEF ServedInv
  <2>3. CASE <<s, e>> \notin owner
    <3>1. e = "disconnect"
      BY <2>1, <2>3 DEF OwnerInv
    <3>2. \A v \in Workers, r \in Sessions : Among(v, r, ServeEntries)' <=> Among(v, r, ServeEntries)
      BY <1>2, <2>3, Observed, Same DEF Among
    <3> QED
      BY <2>1, <3>1, <3>2 DEF ServedInv
  <2> QED
    BY <2>2, <2>3
<1>3. CASE ProcessAccept(w)
  <2>1. PICK s \in Sessions, S \in AcceptFirsts : Starts(w, s, S)
    BY <1>3, FreshFetch
  <2>2. UNCHANGED <<inFlight, connected, deaf>> /\ connected \subseteq Sessions
    BY <1>3 DEF ProcessAccept, events, history, TypeOK
  <2>3. \A v \in Workers, r \in Sessions : Among(v, r, ServeEntries) => Among(v, r, ServeEntries)'
    BY <2>1, Starting DEF Among
  <2> QED
    BY <2>2, <2>3 DEF ServedInv
<1> QED
  BY <1>1, <1>2, <1>3 DEF Turns

-----------------------------------------------------------------------------
(* Types, the initial states and the rest of the steps                       *)

\* Every turn keeps the types and the order of the entries.
LEMMA TypeStep ==
  ASSUME Inv, NEW w \in Workers, Turns(w)
  PROVE  TypeOK' /\ Orderly'
<1> USE DEF Inv
<1>1. ASSUME NEW s \in Sessions, NEW e \in Entries, Moves(w, s, e), Act(w, s, e)
      PROVE  TypeOK' /\ Orderly'
  <2>1. task' \in Tasks /\ Orderly'
    BY <1>1, Moving
  <2>2. CASE e = "RegisterAccept"
    <3>1. PICK new \in Free :
            /\ armed' = [armed EXCEPT ![task[w].accept] = new]
            /\ connected' = connected \ {new}
            /\ sendRegistered' = sendRegistered \ {new}
            /\ sendWaiting' = sendWaiting \ {new}
            /\ calls' = [calls EXCEPT ![new] = <<>>]
            /\ deaf' = deaf \ {new}
            /\ misread' = misread \ {new}
            /\ abandoned' = abandoned \ {new}
      BY <1>1, <2>2 DEF Act, RegisterAccept
    <3>2. /\ accepting' = accepting \cup {task[w].accept}
          /\ UNCHANGED <<owner, inFlight, sessions, sessionCount, clients, clientSession, crash>>
      BY <1>1, <2>2 DEF Act, RegisterAccept, events, lists
    <3>3. task[w].accept \in AcceptEvents /\ clientSession = NoSession
      BY <1>1, <2>2, Moving DEF AcceptInv
    <3>4. new \in Sessions
      BY Frees
    <3>5. armed' \in [AcceptEvents -> IF clientSession' = NoSession THEN Sessions ELSE {NoSession}]
      BY <3>1, <3>2, <3>3, <3>4 DEF TypeOK
    <3>6. calls' \in [Sessions -> Seq({"OnConnected", "OnDisconnected"})]
      <4>1. <<>> \in Seq({"OnConnected", "OnDisconnected"})
        OBVIOUS
      <4> QED
        BY <3>1, <3>4, <4>1 DEF TypeOK
    <3> QED
      BY <2>1, <3>1, <3>2, <3>3, <3>5, <3>6 DEF TypeOK, Tasks
  <2>3. CASE e \in {"OnConnected", "OnDisconnected"}
    <3>1. /\ \E a \in {"OnConnected", "OnDisconnected"} :
               calls' = [calls EXCEPT ![s] = Append(@, a)]
          /\ clients' \subseteq clients \cup {s}
      BY <1>1, <2>3 DEF Act, OnConnected, OnDisconnected
    <3>2. calls' \in [Sessions -> Seq({"OnConnected", "OnDisconnected"})]
      <4>1. PICK a \in {"OnConnected", "OnDisconnected"} :
              calls' = [calls EXCEPT ![s] = Append(calls[s], a)]
        BY <3>1
      <4>2. \A q \in Seq({"OnConnected", "OnDisconnected"}) :
              Append(q, a) \in Seq({"OnConnected", "OnDisconnected"})
        OBVIOUS
      <4> QED
        BY <4>1, <4>2 DEF TypeOK
    <3>3. UNCHANGED <<connected, owner, inFlight, sendRegistered, sendWaiting, sessions,
                      sessionCount, armed, accepting, clientSession, deaf, misread, abandoned,
                      crash>>
      BY <1>1, <2>3, Frames DEF sending, accepts
    <3> QED
      BY <2>1, <3>1, <3>2, <3>3 DEF TypeOK, Tasks
  <2>4. CASE e \notin {"RegisterAccept", "OnConnected", "OnDisconnected"}
    <3>1. UNCHANGED <<armed, accepting, clientSession, clients, calls, crash>>
      BY <1>1, <2>4, Frames DEF accepts
    <3>2. connected' \subseteq connected \cup {s}
      <4>1. CASE e = "ProcessConnect"
        BY <1>1, <4>1 DEF Act, ProcessConnect
      <4>2. CASE e = "Disconnect"
        BY <1>1, <4>2 DEF Act, Disconnect
      <4>3. CASE e \notin {"RegisterAccept", "ProcessConnect", "Disconnect"}
        BY <1>1, <4>3, Frames
      <4> QED
        BY <2>4, <4>1, <4>2, <4>3
    <3>3. inFlight' \subseteq Sessions \X Events
      <4>1. UNCHANGED inFlight \/ \E f \in Events : inFlight' = inFlight \cup {<<s, f>>}
        BY <1>1, Flights
      <4>2. \A f \in Events : <<s, f>> \in Sessions \X Events
        OBVIOUS
      <4> QED
        BY <4>1, <4>2 DEF TypeOK
    <3>4. owner' \subseteq Sessions \X Events
      <4> DEFINE Kinds == \/ UNCHANGED owner
                          \/ \E f \in Events : \/ owner' = owner \cup {<<s, f>>}
                                              \/ owner' = owner \ {<<s, f>>}
      <4>1. ASSUME e \in {"RegisterConnect", "RegisterDisconnect", "ConnectRefused"}
            PROVE  Kinds
        <5>1. \/ UNCHANGED owner \/ owner' = owner \cup {<<s, "connect">>}
              \/ owner' = owner \ {<<s, "connect">>} \/ owner' = owner \cup {<<s, "disconnect">>}
          BY <1>1, <4>1 DEF Act, RegisterConnect, RegisterDisconnect, ConnectRefused, events
        <5> QED
          BY <5>1 DEF Events
      <4>2. ASSUME e \in {"RegisterRecv", "RecvRefused", "SendRefused", "DisconnectRefused"}
            PROVE  Kinds
        <5>1. \/ UNCHANGED owner \/ owner' = owner \cup {<<s, "recv">>}
              \/ owner' = owner \ {<<s, "recv">>} \/ owner' = owner \ {<<s, "send">>}
              \/ owner' = owner \ {<<s, "disconnect">>}
          BY <1>1, <4>2 DEF Act, RegisterRecv, RecvRefused, SendRefused, DisconnectRefused,
                            Register, events
        <5> QED
          BY <5>1 DEF Events
      <4>3. ASSUME e \in {"RegisterSend", "ProcessSend"}
            PROVE  Kinds
        <5>1. UNCHANGED owner \/ owner' = owner \cup {<<s, "send">>}
          BY <1>1, <4>3 DEF Act, RegisterSend, ProcessSend, PostSend, Register, events
        <5> QED
          BY <5>1 DEF Events
      <4>4. ASSUME e \notin {"RegisterConnect", "RegisterRecv", "RegisterSend", "ProcessSend",
                             "RegisterDisconnect", "ConnectRefused", "RecvRefused", "SendRefused",
                             "DisconnectRefused"}
            PROVE  Kinds
        BY <1>1, <4>4, Frames
      <4>5. \A f \in Events : <<s, f>> \in Sessions \X Events
        OBVIOUS
      <4>6. Kinds
        BY <4>1, <4>2, <4>3, <4>4
      <4> QED
        BY <4>5, <4>6 DEF TypeOK
    <3>5. sendRegistered' \subseteq Sessions /\ sendWaiting' \subseteq Sessions
      <4>1. CASE e \in {"Send", "SendRefused"}
        BY <1>1, <4>1 DEF Act, Send, SendRefused, sending, TypeOK
      <4>2. CASE e \in {"RegisterSend", "ProcessSend"}
        BY <1>1, <4>2 DEF Act, RegisterSend, ProcessSend, PostSend, TypeOK
      <4>3. CASE e \notin {"RegisterAccept", "Send", "RegisterSend", "SendRefused", "ProcessSend"}
        BY <1>1, <4>3, Frames DEF sending, TypeOK
      <4> QED
        BY <2>4, <4>1, <4>2, <4>3
    <3>6. sessions' \subseteq Sessions /\ sessionCount' \in Int
      <4>1. CASE e = "AddSession"
        <5>1. sessions' = sessions \cup {s} /\ sessionCount' = sessionCount + 1
          BY <1>1, <4>1 DEF Act, AddSession
        <5> QED
          BY <5>1 DEF TypeOK
      <4>2. CASE e = "RemoveSession"
        <5>1. sessions' = sessions \ {s} /\ sessionCount' = sessionCount - 1
          BY <1>1, <4>2 DEF Act, RemoveSession
        <5> QED
          BY <5>1 DEF TypeOK
      <4>3. CASE e \notin {"AddSession", "RemoveSession"}
        <5>1. UNCHANGED <<sessions, sessionCount>>
          BY <1>1, <4>3, Frames
        <5> QED
          BY <5>1 DEF TypeOK
      <4> QED
        BY <4>1, <4>2, <4>3
    <3>7. deaf' \subseteq Sessions
      <4>1. CASE e \in {"RegisterRecv", "RegisterSend", "ProcessSend"}
        BY <1>1, <4>1 DEF Act, RegisterRecv, RegisterSend, ProcessSend, PostSend, Register, TypeOK
      <4> QED
        BY <1>1, <2>4, <4>1, Frames DEF TypeOK
    <3>8. misread' \subseteq Sessions /\ abandoned' \subseteq Sessions
      <4>1. CASE e = "RegisterDisconnect"
        BY <1>1, <4>1 DEF Act, RegisterDisconnect, TypeOK
      <4> QED
        BY <1>1, <2>4, <4>1, Frames DEF TypeOK
    <3> QED
      BY <2>1, <3>1, <3>2, <3>3, <3>4, <3>5, <3>6, <3>7, <3>8 DEF TypeOK, Tasks
  <2> QED
    BY <2>2, <2>3, <2>4
<1>2. ASSUME NEW s \in Sessions, NEW e \in Events, ObserveIO(w, s, e)
      PROVE  TypeOK' /\ Orderly'
  <2>1. task' \in Tasks /\ Orderly' /\ crash' \in {"no", "owner", "session"}
    <3>1. CASE <<s, e>> \in owner
      BY <1>2, <3>1, Observed, Starting DEF TypeOK
    <3>2. CASE <<s, e>> \notin owner
      BY <1>2, <3>2, Observed DEF TypeOK, Tasks, Orderly
    <3> QED
      BY <3>1, <3>2
  <2>2. /\ inFlight' = inFlight \ {<<s, e>>} /\ owner' = owner \ {<<s, e>>}
        /\ UNCHANGED <<connected, sending, lists, accepts, history>>
    BY <1>2 DEF ObserveIO
  <2> QED
    BY <2>1, <2>2 DEF TypeOK, Tasks, sending, lists, accepts, history
<1>3. CASE ProcessAccept(w)
  <2>1. task' \in Tasks /\ Orderly'
    BY <1>3, FreshFetch, Starting
  <2>2. accepting' \subseteq accepting
    BY <1>3 DEF ProcessAccept
  <2>3. UNCHANGED <<connected, events, sending, lists, armed, clientSession, history, crash>>
    BY <1>3 DEF ProcessAccept
  <2> QED
    BY <2>1, <2>2, <2>3 DEF TypeOK, Tasks, events, sending, lists, history
<1> QED
  BY <1>1, <1>2, <1>3 DEF Turns

\* A step that changes nothing but how the process has crashed.
LEMMA CrashStep ==
  ASSUME Inv, crash' = crash \/ (crash' = "session" /\ ~crashed),
         UNCHANGED <<connected, events, sending, lists, accepts, task, history>>
  PROVE  Inv'
<1> USE DEF Inv
<1>1. /\ UNCHANGED <<connected, owner, inFlight, sendRegistered, sendWaiting, sessions,
                    sessionCount, clients, armed, accepting, clientSession, task, calls,
                    deaf, misread, abandoned>>
      /\ crashed => crashed'
  BY DEF events, sending, lists, accepts, history, crashed
<1>2. /\ \A v, r : Busy(v, r)' <=> Busy(v, r)
      /\ \A v, r, x : On(v, r, x)' <=> On(v, r, x)
  BY <1>1, Same
<1>3. \A F, v, r : Among(v, r, F)' <=> Among(v, r, F)
  BY <1>2 DEF Among
<1>4. \A r : (Waits(r)' <=> Waits(r)) /\ (Fresh(r)' <=> Fresh(r))
  BY <1>1, <1>3 DEF Waits, Fresh
<1>5. TypeOK' /\ Orderly'
  BY <1>1 DEF TypeOK, Orderly
<1>6. AcceptInv' /\ AloneInv'
  <2>1. AcceptInv'
    BY <1>1, <1>2 DEF AcceptInv
  <2>2. AloneInv'
    BY <1>1, <1>2, <1>3, <1>4 DEF AloneInv
  <2> QED
    BY <2>1, <2>2
<1>7. RecvInv' /\ SendInv'
  BY <1>1, <1>3 DEF RecvInv, SendInv
<1>8. OwnerInv'
  BY <1>1, <1>2 DEF OwnerInv
<1>9. LifeInv'
  BY <1>1, <1>2, <1>3, <1>4 DEF LifeInv
<1>10. ListInv'
  BY <1>1, <1>2, <1>3, <1>4 DEF ListInv
<1>11. CallsInv'
  BY <1>1, <1>2, <1>3, <1>4 DEF CallsInv
<1>12. ServedInv'
  BY <1>1, <1>3 DEF ServedInv
<1> QED
  BY <1>5, <1>6, <1>7, <1>8, <1>9, <1>10, <1>11, <1>12

\* The invariant holds initially.
LEMMA InitInv == Init => Inv
<1> SUFFICES ASSUME Init PROVE Inv
  OBVIOUS
<1>1. /\ connected = {} /\ owner = {} /\ inFlight = {} /\ sendRegistered = {}
      /\ sendWaiting = {} /\ sessions = {} /\ sessionCount = 0 /\ clients = {}
      /\ deaf = {} /\ misread = {} /\ abandoned = {} /\ crash = "no"
      /\ calls = [s \in Sessions |-> <<>>]
  BY DEF Init
<1>2. <<>> \in Seq(Entries) /\ InOrder(<<>>) /\ Elems(<<>>) = {}
  <2>1. <<>> \in Seq(Entries) /\ 1..Len(<<>>) = {}
    OBVIOUS
  <2> QED
    BY <2>1 DEF InOrder, Elems
<1>3. PICK nil : nil = <<>>
  OBVIOUS
<1>4. /\ Idle = [session |-> NoSession, accept |-> NoAccept, todo |-> nil]
      /\ nil \in Seq(Entries) /\ InOrder(nil) /\ Elems(nil) = {}
  BY <1>2, <1>3 DEF Idle
<1>5. /\ Idle.session = NoSession /\ Idle.accept = NoAccept /\ Idle.todo = nil
      /\ Idle \in [session : Sessions \cup {NoSession}, accept : AcceptEvents \cup {NoAccept},
                   todo : Seq(Entries)]
  BY <1>4
<1>6. calls \in [Sessions -> Seq({"OnConnected", "OnDisconnected"})]
      /\ \A s \in Sessions : calls[s] = <<>>
  <2>1. <<>> \in Seq({"OnConnected", "OnDisconnected"})
    OBVIOUS
  <2> QED
    BY <1>1, <2>1
\* Which entries there are.
<1>7. /\ task \in Tasks /\ Orderly
      /\ clientSession \in Sessions \cup {NoSession}
      /\ armed \in [AcceptEvents -> IF clientSession = NoSession THEN Sessions ELSE {NoSession}]
      /\ accepting \subseteq AcceptEvents
      /\ \A a, b \in accepting : armed[a] = armed[b] => a = b
      /\ accepting # {} => clientSession = NoSession
      /\ \A w \in Workers, s \in Sessions : Busy(w, s) => accepting = {}
      /\ \A w, v \in Workers, s, r \in Sessions : Busy(w, s) /\ Busy(v, r) => w = v
      /\ \A w \in Workers, s \in Sessions : \A x : On(w, s, x) => x = "RegisterConnect"
  <2>1. CASE InitServer
    <3>1. /\ clientSession = NoSession /\ armed \in [AcceptEvents -> Sessions]
          /\ \A a, b \in AcceptEvents : armed[a] = armed[b] => a = b
          /\ accepting = AcceptEvents
          /\ \A w \in Workers : task[w] = Idle
          /\ task = [w \in Workers |-> Idle]
      BY <2>1 DEF InitServer
    <3>2. task \in Tasks /\ Orderly
      BY <1>4, <1>5, <3>1 DEF Tasks, Orderly
    <3>3. \A w \in Workers, s \in Sessions : ~Busy(w, s)
      BY <1>5, <3>1, NamesAssumption DEF Busy
    <3> QED
      BY <3>1, <3>2, <3>3, OnBusy
  <2>2. CASE InitClient
    <3> DEFINE q == <<"RegisterConnect">>
               first == [Idle EXCEPT !.session = clientSession, !.todo = q]
    <3>1. PICK main \in Workers : task = [[w \in Workers |-> Idle] EXCEPT ![main] = first]
      BY <2>2 DEF InitClient
    <3>2. q \in Seq(Entries) /\ InOrder(q) /\ Elems(q) = {"RegisterConnect"}
      BY Front1 DEF Entries
    <3>3. clientSession \in Sessions /\ armed = [a \in AcceptEvents |-> NoSession] /\ accepting = {}
      BY <2>2 DEF InitClient
    <3> HIDE DEF q
    <3>4. /\ first.session = clientSession /\ first.todo = q
          /\ first \in [session : Sessions \cup {NoSession},
                        accept : AcceptEvents \cup {NoAccept}, todo : Seq(Entries)]
      BY <1>5, <3>2, <3>3
    <3> HIDE DEF first
    <3>5. task \in Tasks /\ task[main] = first /\ \A w \in Workers \ {main} : task[w] = Idle
      BY <1>5, <3>1, <3>4 DEF Tasks
    <3>6. Orderly
      BY <1>4, <1>5, <3>2, <3>4, <3>5 DEF Orderly
    <3>7. \A w \in Workers, s \in Sessions : Busy(w, s) => w = main
      BY <1>5, <3>5, NamesAssumption DEF Busy
    <3>8. \A s \in Sessions : \A x : On(main, s, x) => x = "RegisterConnect"
      BY <3>2, <3>4, <3>5 DEF On
    <3>9. clientSession # NoSession
      BY <3>3, NamesAssumption
    <3> QED
      BY <3>3, <3>5, <3>6, <3>7, <3>8, <3>9, OnBusy
  <2> QED
    BY <2>1, <2>2 DEF Init
<1>8. TypeOK
  BY <1>1, <1>6, <1>7 DEF TypeOK, Tasks
<1>9. AcceptInv
  BY <1>7 DEF AcceptInv
<1>10. AloneInv
  <2>1. \A s \in Sessions : Waits(s) => accepting # {}
    BY DEF Waits
  <2>2. \A w \in Workers, s \in Sessions : \A F : Among(w, s, F) => Busy(w, s)
    BY OnBusy DEF Among
  <2>3. ASSUME NEW s \in Sessions, NEW w \in Workers, Among(w, s, OpenEntries)
        PROVE  \A v \in Workers \ {w} : ~Busy(v, s)
    BY <1>7, <2>2, <2>3
  <2> QED
    BY <1>1, <1>7, <2>1, <2>3 DEF AloneInv
<1>11. \A w, v \in Workers, s \in Sessions : \A F : Among(w, s, F) /\ Among(v, s, F) => w = v
  BY <1>7, OnBusy DEF Among
<1>12. \A w \in Workers, s \in Sessions :
         /\ ~Among(w, s, SendEntries) /\ ~Among(w, s, EndEntries) /\ ~Among(w, s, OutEntries)
         /\ ~Among(w, s, ServeEntries)
  BY <1>7 DEF Among, SendEntries, EndEntries, OutEntries, ServeEntries
<1>13. RecvInv /\ SendInv
  BY <1>1, <1>11, <1>12 DEF RecvInv, SendInv
<1>14. OwnerInv
  BY <1>1, <1>7 DEF OwnerInv
<1>15. LifeInv
  BY <1>1, <1>7, <1>12 DEF LifeInv
<1>16. ListInv
  BY <1>1, <1>7, <1>12, FS_EmptySet DEF ListInv
<1>17. CallsInv
  BY <1>1, <1>6, <1>7, <1>12 DEF CallsInv
<1>18. ServedInv
  BY <1>1 DEF ServedInv
<1> QED
  BY <1>7, <1>8, <1>9, <1>10, <1>13, <1>14, <1>15, <1>16, <1>17, <1>18 DEF Inv

\* Every step keeps the invariant.
LEMMA NextInv == Inv /\ [Next]_vars => Inv'
<1> SUFFICES ASSUME Inv, [Next]_vars PROVE Inv'
  OBVIOUS
<1>1. ASSUME NEW w \in Workers, Turns(w)
      PROVE  Inv'
  BY <1>1, TypeStep, AcceptStep, AloneStep, RecvStep, SendStep, OwnerStep, LifeStep, ListStep,
     CallsStep, ServedStep DEF Inv
<1>2. ASSUME NEW w \in Workers, NEW s \in Sessions, RegisterAcceptNull(w, s)
      PROVE  Inv'
  <2>1. /\ crash' = "session" /\ ~crashed
        /\ UNCHANGED <<connected, events, sending, lists, accepts, task, history>>
    BY <1>2 DEF RegisterAcceptNull, At
  <2> QED
    BY <2>1, CrashStep
<1>3. CASE UNCHANGED vars
  <2>1. /\ crash' = crash
        /\ UNCHANGED <<connected, events, sending, lists, accepts, task, history>>
    BY <1>3 DEF vars
  <2> QED
    BY <2>1, CrashStep
<1>4. ASSUME NEW w \in Workers, Step(w)
      PROVE  Inv'
  BY <1>1, <1>2, <1>4, StepTurns DEF Inv
<1>5. ASSUME NEW w \in Workers, ProcessAccept(w)
      PROVE  Inv'
  BY <1>1, <1>5 DEF Turns
<1>6. ASSUME NEW w \in Workers, NEW s \in Sessions, NEW e \in Events, ObserveIO(w, s, e)
      PROVE  Inv'
  BY <1>1, <1>6 DEF Turns
<1> QED
  BY <1>3, <1>4, <1>5, <1>6 DEF Next, Finished

-----------------------------------------------------------------------------
(* The theorems                                                              *)

\* The invariant holds throughout.
LEMMA Invariance == Spec => []Inv
BY InitInv, NextInv, PTL DEF Spec

\* The workers at an entry are those that have it before them.
LEMMA WorkersOn ==
  ASSUME TypeOK, NEW s \in Sessions, NEW x
  PROVE  \A w : w \in WorkersAt(s, x) <=> w \in Workers /\ On(w, s, x)
<1> SUFFICES ASSUME NEW w \in Workers
             PROVE  InTask(w, x) <=> x \in Elems(task[w].todo)
  BY DEF WorkersAt, On, Busy
<1>1. task[w].todo \in Seq(Entries)
  BY DEF TypeOK
<1>2. DOMAIN task[w].todo = 1..Len(task[w].todo)
  BY <1>1
<1> QED
  BY <1>2 DEF InTask, Elems

\* At most one worker is at an entry that only one may have.
LEMMA OneAt ==
  ASSUME TypeOK, NEW s \in Sessions, NEW F, NEW x \in F,
         \A w, v \in Workers : Among(w, s, F) /\ Among(v, s, F) => w = v
  PROVE  Cardinality(WorkersAt(s, x)) \in {0, 1}
<1>1. \A w, v \in WorkersAt(s, x) : w = v
  BY WorkersOn DEF Among
<1>2. CASE WorkersAt(s, x) = {}
  BY <1>2, FS_EmptySet
<1>3. CASE WorkersAt(s, x) # {}
  <2>1. PICK w : WorkersAt(s, x) = {w}
    BY <1>1, <1>3
  <2> QED
    BY <2>1, FS_Singleton
<1> QED
  BY <1>2, <1>3

\* Sessions, workers and events are the objects and entries they should be, whatever
\* the interleaving of accepts, completions and refused calls.
THEOREM LifeTypeCorrect == Spec => []TypeOK
<1>1. Inv => TypeOK
  BY DEF Inv
<1> QED
  BY <1>1, Invariance, PTL

\* A completion finds the owner that RegisterX set for it (IocpCore::ObserveIO
\* dereferences it), unless a successful DisconnectEx was taken for an error.
THEOREM LifeCompletionsFindSession == Spec => []CompletionsFindSession
<1>1. Inv => CompletionsFindSession
  BY DEF Inv, OwnerInv, CompletionsFindSession
<1> QED
  BY <1>1, Invariance, PTL

\* A session never has two receives, pending or being handled, nor two callers of
\* Send, so RecvBuffer and the send queue see one worker at a time.
THEOREM LifeOneReceive == Spec => []OneReceive
<1>1. ASSUME Inv
      PROVE  OneReceive
  <2> USE <1>1 DEF Inv
  <2>1. "RegisterRecv" \in RecvEntries /\ "Send" \in RecvEntries
    BY DEF RecvEntries
  <2> SUFFICES ASSUME NEW s \in Sessions
               PROVE  /\ Cardinality(WorkersAt(s, "RegisterRecv"))
                           + (IF <<s, "recv">> \in inFlight THEN 1 ELSE 0) <= 1
                      /\ Cardinality(WorkersAt(s, "Send")) <= 1
    BY DEF OneReceive
  <2>2. \A w, v \in Workers : Among(w, s, RecvEntries) /\ Among(v, s, RecvEntries) => w = v
    BY DEF RecvInv
  <2>3. /\ Cardinality(WorkersAt(s, "RegisterRecv")) \in {0, 1}
        /\ Cardinality(WorkersAt(s, "Send")) \in {0, 1}
    BY <2>1, <2>2, OneAt
  <2>4. CASE <<s, "recv">> \in inFlight
    <3>1. \A w \in Workers : ~Among(w, s, RecvEntries)
      BY <2>4 DEF RecvInv
    <3>2. WorkersAt(s, "RegisterRecv") = {}
      BY <2>1, <3>1, WorkersOn DEF Among
    <3> QED
      BY <2>3, <2>4, <3>2, FS_EmptySet
  <2>5. CASE <<s, "recv">> \notin inFlight
    BY <2>3, <2>5
  <2> QED
    BY <2>4, <2>5
<1> QED
  BY <1>1, Invariance, PTL

\* Service's sessionCount is the size of its session list: AddSession and
\* RemoveSession each come once for a session, in this order.
THEOREM LifeCountMatches == Spec => []CountMatches
<1>1. Inv => CountMatches
  BY DEF Inv, ListInv, CountMatches
<1> QED
  BY <1>1, Invariance, PTL

\* Service and SessionManager list a connected session or are about to, and one they
\* list that is not connected is being disconnected.
THEOREM LifeListedWhileConnected == Spec => []ListedWhileConnected
<1>1. ASSUME Inv
      PROVE  ListedWhileConnected
  <2> USE <1>1 DEF Inv
  <2> SUFFICES ASSUME NEW s \in Sessions
               PROVE  /\ s \in connected =>
                           /\ s \in sessions \/ WorkersAt(s, "AddSession") # {}
                           /\ \/ s \in clients \cup {clientSession}
                              \/ WorkersAt(s, "OnConnected") # {}
                      /\ s \in (sessions \cup clients) \ connected => Leaving(s)
    BY DEF ListedWhileConnected
  <2>1. \A x : (\E w \in Workers : On(w, s, x)) => WorkersAt(s, x) # {}
    BY WorkersOn
  <2>2. s \in connected =>
          /\ s \in sessions \/ WorkersAt(s, "AddSession") # {}
          /\ s \in clients \cup {clientSession} \/ WorkersAt(s, "OnConnected") # {}
    BY <2>1 DEF ListInv, CallsInv
  <2>3. (\E w \in Workers : Among(w, s, EndEntries)) => Leaving(s)
    BY <2>1 DEF Among, EndEntries, Leaving
  <2>4. s \in sessions \ connected => Leaving(s)
    BY <2>3 DEF ListInv, Leaving
  <2>5. s \in clients \ connected => Leaving(s)
    <3>1. \A w \in Workers : Among(w, s, OutEntries) => Among(w, s, EndEntries)
      BY DEF Among, OutEntries, EndEntries
    <3> QED
      BY <2>3, <3>1 DEF CallsInv, Leaving
  <2> QED
    BY <2>2, <2>4, <2>5
<1> QED
  BY <1>1, Invariance, PTL

\* A connected session has its next receive pending or coming, unless a refused
\* WSARecv was only logged.
THEOREM LifeConnectedIsServed == Spec => []ConnectedIsServed
<1>1. ASSUME Inv
      PROVE  ConnectedIsServed
  <2> USE <1>1 DEF Inv
  <2> SUFFICES ASSUME NEW s \in connected \ deaf
               PROVE  \/ <<s, "recv">> \in inFlight
                      \/ \E x \in {"RegisterRecv", "Disconnect"} : WorkersAt(s, x) # {}
    BY DEF ConnectedIsServed
  <2>1. s \in Sessions
    BY DEF TypeOK
  <2>2. \A x : (\E w \in Workers : On(w, s, x)) => WorkersAt(s, x) # {}
    BY <2>1, WorkersOn
  <2>3. <<s, "recv">> \in inFlight \/ \E w \in Workers : Among(w, s, ServeEntries)
    BY <2>1 DEF ServedInv
  <2> QED
    BY <2>2, <2>3 DEF Among, ServeEntries
<1> QED
  BY <1>1, Invariance, PTL

-----------------------------------------------------------------------------
(* The life cycle                                                            *)

\* The part of ToldInv about one session.
InList(s) ==
  /\ calls[s] = <<"OnConnected">> => s \in sessions
  /\ s \in clients => calls[s] = <<"OnConnected">>
  /\ \A w \in Workers : On(w, s, "RemoveSession") =>
       On(w, s, "OnDisconnected") \/ calls[s] = <<"OnConnected", "OnDisconnected">>

\* What the application has been told and what the lists hold: the service lists a
\* session at least as long as the application may know it.
ToldInv == \A s \in Sessions : InList(s)

\* What the connecting worker finds at each of its entries.
LEMMA Opening ==
  ASSUME Inv, NEW w \in Workers, NEW s \in Sessions, NEW e \in Entries,
         Moves(w, s, e), Act(w, s, e)
  PROVE  /\ e = "ProcessConnect" =>
              s \notin connected /\ s \notin sessions /\ calls[s] = <<>>
         /\ e = "AddSession" => s \in connected /\ s \notin sessions
         /\ e = "OnConnected" =>
              /\ s \in connected /\ s \in sessions /\ calls[s] = <<>>
              /\ \A v \in Workers : ~On(v, s, "RemoveSession")
<1> USE DEF Inv
<1>1. On(w, s, e) /\ \A x : On(w, s, x) => x = e \/ x \in Behind(e)
  BY Moving
<1>2. CASE e = "ProcessConnect"
  <2>1. Fresh(s)
    BY <1>1, <1>2 DEF Fresh, Among
  <2> QED
    BY <1>2, <2>1 DEF LifeInv, ListInv, CallsInv
<1>3. CASE e = "AddSession"
  <2>1. On(w, s, "OnConnected") /\ ~On(w, s, "ProcessConnect")
    BY <1>1, <1>3, Behinds DEF LifeInv
  <2> QED
    BY <1>1, <1>3, <2>1 DEF LifeInv, ListInv
<1>4. CASE e = "OnConnected"
  <2>1. /\ ~On(w, s, "ProcessConnect") /\ ~On(w, s, "AddSession")
        /\ ~On(w, s, "RemoveSession")
    BY <1>1, <1>4, Behinds
  <2>2. \A v \in Workers : Among(v, s, OpenEntries) => v = w
    BY FreshAct
  <2>3. \A v \in Workers : ~On(v, s, "AddSession")
    BY <2>1, <2>2 DEF Among, OpenEntries
  <2>4. \A v \in Workers : ~On(v, s, "RemoveSession")
    <3>1. Among(w, s, OpenEntries)
      BY <1>1, <1>4 DEF Among, OpenEntries
    <3>2. \A v \in Workers \ {w} : ~Busy(v, s)
      BY <3>1 DEF AloneInv
    <3> QED
      BY <2>1, <3>2, OnBusy
  <2>5. s \in connected
    BY <1>1, <1>4, <2>1 DEF LifeInv
  <2>6. s \in sessions
    BY <2>3, <2>5 DEF ListInv
  <2>7. calls[s] = <<>>
    BY <1>1, <1>4 DEF CallsInv
  <2> QED
    BY <1>4, <2>4, <2>5, <2>6, <2>7
<1> QED
  BY <1>2, <1>3, <1>4

\* What a disconnecting worker finds at each of its entries.
LEMMA Closing ==
  ASSUME Inv, ToldInv, NEW w \in Workers, NEW s \in Sessions, NEW e \in Entries,
         Moves(w, s, e), Act(w, s, e)
  PROVE  /\ e = "Disconnect" /\ s \in connected =>
              s \in sessions /\ calls[s] = <<"OnConnected">>
         /\ e = "OnDisconnected" =>
              s \notin connected /\ s \in sessions /\ calls[s] = <<"OnConnected">>
         /\ e = "RemoveSession" =>
              /\ s \notin connected /\ s \in sessions /\ s \notin clients
              /\ calls[s] = <<"OnConnected", "OnDisconnected">>
<1> USE DEF Inv
<1>1. On(w, s, e) /\ \A x : On(w, s, x) => x = e \/ x \in Behind(e)
  BY Moving
<1>2. InList(s)
  BY DEF ToldInv
<1>3. CASE e = "Disconnect"
  <2>1. \A v \in Workers : ~On(v, s, "OnConnected")
    BY <1>3, FreshAct DEF Among, OpenEntries
  <2>2. s \in connected => calls[s] = <<"OnConnected">>
    BY <2>1 DEF CallsInv
  <2> QED
    BY <1>2, <1>3, <2>2 DEF InList
<1>4. e \in EndEntries => s \notin connected /\ s \in sessions
  BY <1>1 DEF LifeInv, ListInv, Among
<1>5. CASE e = "OnDisconnected"
  <2>1. calls[s] = <<"OnConnected">>
    BY <1>1, <1>5 DEF CallsInv, Among, OutEntries
  <2> QED
    BY <1>4, <1>5, <2>1 DEF EndEntries
<1>6. CASE e = "RemoveSession"
  <2>1. ~On(w, s, "OnDisconnected")
    BY <1>1, <1>6, Behinds
  <2>2. calls[s] = <<"OnConnected", "OnDisconnected">>
    BY <1>1, <1>2, <1>6, <2>1 DEF InList
  <2>3. s \notin clients
    <3>1. PICK p, q : p = <<"OnConnected">> /\ q = <<"OnConnected", "OnDisconnected">>
      OBVIOUS
    <3>2. p # q
      <4>1. Len(p) = 1 /\ Len(q) = 2
        BY <3>1
      <4> QED
        BY <4>1
    <3> QED
      BY <1>2, <2>2, <3>1, <3>2 DEF InList
  <2> QED
    BY <1>4, <1>6, <2>2, <2>3 DEF EndEntries
<1> QED
  BY <1>3, <1>5, <1>6

\* What a call of the application appends.
LEMMA Calling ==
  ASSUME Inv, ToldInv, NEW w \in Workers, NEW s \in Sessions, NEW e \in Entries,
         Moves(w, s, e), Act(w, s, e)
  PROVE  /\ e = "OnConnected" => calls' = [calls EXCEPT ![s] = <<"OnConnected">>]
         /\ e = "OnDisconnected" =>
              calls' = [calls EXCEPT ![s] = <<"OnConnected", "OnDisconnected">>]
<1>1. DOMAIN calls = Sessions
  BY DEF Inv, TypeOK
<1>2. CASE e = "OnConnected"
  <2>1. calls' = [calls EXCEPT ![s] = Append(calls[s], "OnConnected")]
    BY <1>1, <1>2 DEF Act, OnConnected
  <2>2. calls[s] = <<>>
    BY <1>2, Opening
  <2>3. Append(<<>>, "OnConnected") = <<"OnConnected">>
    OBVIOUS
  <2> QED
    BY <1>2, <2>1, <2>2, <2>3
<1>3. CASE e = "OnDisconnected"
  <2>1. calls' = [calls EXCEPT ![s] = Append(calls[s], "OnDisconnected")]
    BY <1>1, <1>3 DEF Act, OnDisconnected
  <2>2. calls[s] = <<"OnConnected">>
    BY <1>3, Closing
  <2>3. Append(calls[s], "OnDisconnected") = <<"OnConnected", "OnDisconnected">>
    <3> DEFINE T == {"OnConnected", "OnDisconnected"}
    <3>1. "OnConnected" \in T /\ "OnDisconnected" \in T
      OBVIOUS
    <3> HIDE DEF T
    <3> QED
      BY <2>2, <3>1, AppendOne
  <2> QED
    BY <1>3, <2>1, <2>3
<1> QED
  BY <1>2, <1>3

\* A move keeps ToldInv.
LEMMA ToldAct ==
  ASSUME Inv, ToldInv, NEW w \in Workers, NEW s \in Sessions, NEW e \in Entries,
         Moves(w, s, e), Act(w, s, e), NEW r \in Sessions
  PROVE  InList(r)'
<1>1. InList(r) /\ DOMAIN calls = Sessions
  BY DEF ToldInv, Inv, TypeOK
<1>2. \A v \in Workers : On(v, r, "RemoveSession")' => On(v, r, "RemoveSession")
  <2>1. "RemoveSession" \notin After(e)
    BY DEF After
  <2> QED
    BY <2>1, Moving
<1>3. \A v \in Workers : e # "OnDisconnected" \/ r # s =>
        (On(v, r, "OnDisconnected") => On(v, r, "OnDisconnected")')
  BY Moving
<1>4. CASE e = "RegisterAccept"
  <2>1. PICK new \in Free : calls' = [calls EXCEPT ![new] = <<>>]
    BY <1>4, FreshAct
  <2>2. UNCHANGED <<sessions, clients>>
    BY <1>4, Frames
  <2>3. CASE r = new
    <3>1. calls'[r] = <<>>
      BY <1>1, <2>1, <2>3
    <3>2. r \notin clients /\ \A v \in Workers : ~On(v, r, "RemoveSession")
      BY <2>3, Frees DEF Inv
    <3>3. <<>> # <<"OnConnected">>
      OBVIOUS
    <3> QED
      BY <1>2, <2>2, <3>1, <3>2, <3>3 DEF InList
  <2>4. CASE r # new
    <3>1. calls'[r] = calls[r]
      BY <1>1, <2>1, <2>4
    <3> QED
      BY <1>1, <1>2, <1>3, <1>4, <2>2, <3>1 DEF InList
  <2> QED
    BY <2>3, <2>4
<1>5. CASE e = "OnConnected" /\ r = s
  <2>1. calls'[r] = <<"OnConnected">>
    BY <1>1, <1>5, Calling
  <2>2. r \in sessions' /\ \A v \in Workers : ~On(v, r, "RemoveSession")
    BY <1>5, Opening, Frames
  <2> QED
    BY <1>2, <2>1, <2>2 DEF InList
<1>6. CASE e = "OnDisconnected" /\ r = s
  <2>1. calls'[r] = <<"OnConnected", "OnDisconnected">>
    BY <1>1, <1>6, Calling
  <2>2. r \in sessions' /\ r \notin clients'
    BY <1>6, Closing, Frames DEF Act, OnDisconnected
  <2> QED
    BY <2>1, <2>2 DEF InList
<1>7. CASE e = "RemoveSession" /\ r = s
  <2>1. calls'[r] = calls[r] /\ UNCHANGED clients
    BY <1>7, Frames
  <2>2. calls[r] = <<"OnConnected", "OnDisconnected">> /\ r \notin clients
    BY <1>7, Closing
  <2>3. PICK p, q : p = <<"OnConnected">> /\ q = <<"OnConnected", "OnDisconnected">>
    OBVIOUS
  <2>4. p # q
    <3>1. Len(p) = 1 /\ Len(q) = 2
      BY <2>3
    <3> QED
      BY <3>1
  <2> QED
    BY <2>1, <2>2, <2>3, <2>4 DEF InList
<1>8. CASE e # "RegisterAccept" /\ (e \notin {"OnConnected", "OnDisconnected", "RemoveSession"} \/ r # s)
  <2>1. calls'[r] = calls[r]
    BY <1>1, <1>8, Calling, Frames
  <2>2. r \in clients' => r \in clients
    <3>1. CASE e = "OnConnected"
      BY <1>8, <3>1 DEF Act, OnConnected
    <3>2. CASE e = "OnDisconnected"
      BY <3>2 DEF Act, OnDisconnected
    <3> QED
      BY <3>1, <3>2, Frames
  <2>3. r \in sessions => r \in sessions'
    <3>1. CASE e = "AddSession"
      BY <3>1 DEF Act, AddSession
    <3>2. CASE e = "RemoveSession"
      BY <1>8, <3>2 DEF Act, RemoveSession
    <3> QED
      BY <3>1, <3>2, Frames
  <2> QED
    BY <1>1, <1>2, <1>3, <1>8, <2>1, <2>2, <2>3 DEF InList
<1> QED
  BY <1>4, <1>5, <1>6, <1>7, <1>8

\* A completion that is picked up is nothing the life cycle sees.
LEMMA ObservedCycle ==
  ASSUME NEW w \in Workers, NEW s \in Sessions, NEW e \in Events, ObserveIO(w, s, e)
  PROVE  UNCHANGED <<connected, sessions, clients, calls>>
BY DEF ObserveIO, lists, history

\* Every step keeps ToldInv.
LEMMA ToldStep ==
  ASSUME Inv, ToldInv, [Next]_vars
  PROVE  ToldInv'
<1> USE DEF Inv
<1>1. ASSUME UNCHANGED <<sessions, clients, calls>>,
             \A v \in Workers, r \in Sessions :
               /\ On(v, r, "RemoveSession")' =>
                    On(v, r, "RemoveSession") \/ On(v, r, "OnDisconnected")'
               /\ On(v, r, "OnDisconnected") => On(v, r, "OnDisconnected")'
      PROVE  ToldInv'
  BY <1>1 DEF ToldInv, InList
<1>2. ASSUME UNCHANGED <<sessions, clients, calls, task>>
      PROVE  ToldInv'
  BY <1>1, <1>2, Same
<1>3. ASSUME NEW w \in Workers, NEW s \in Sessions, NEW e \in Entries, Moves(w, s, e), Act(w, s, e)
      PROVE  ToldInv'
  <2>1. \A r \in Sessions : InList(r)'
    BY <1>3, ToldAct
  <2> QED
    BY <2>1 DEF ToldInv
<1>4. ASSUME NEW w \in Workers, NEW s \in Sessions, NEW e \in Events, ObserveIO(w, s, e)
      PROVE  ToldInv'
  <2>1. UNCHANGED <<sessions, clients, calls>>
    BY <1>4, ObservedCycle
  <2>2. CASE <<s, e>> \in owner
    <3>1. PICK S \in Firsts(e) : Starts(w, s, S)
      BY <1>4, <2>2, Observed
    <3>2. "RemoveSession" \in S => "OnDisconnected" \in S
      BY DEF Firsts, Events
    <3> QED
      BY <1>1, <2>1, <3>1, <3>2, Starting
  <2>3. CASE <<s, e>> \notin owner
    BY <1>2, <1>4, <2>1, <2>3, Observed
  <2> QED
    BY <2>2, <2>3
<1>5. ASSUME NEW w \in Workers, ProcessAccept(w)
      PROVE  ToldInv'
  <2>1. UNCHANGED <<sessions, clients, calls>>
    BY <1>5 DEF ProcessAccept, lists, history
  <2>2. PICK s \in Sessions, S \in AcceptFirsts : Starts(w, s, S)
    BY <1>5, FreshFetch
  <2>3. "RemoveSession" \notin S
    BY <2>2 DEF AcceptFirsts
  <2> QED
    BY <1>1, <2>1, <2>2, <2>3, Starting
<1>6. ASSUME NEW w \in Workers, NEW s \in Sessions, RegisterAcceptNull(w, s)
      PROVE  ToldInv'
  BY <1>2, <1>6 DEF RegisterAcceptNull, lists, history
<1>7. ASSUME NEW w \in Workers, Step(w)
      PROVE  ToldInv'
  BY <1>3, <1>4, <1>5, <1>6, <1>7, StepTurns DEF Turns
<1>8. CASE UNCHANGED vars
  BY <1>2, <1>8 DEF vars, lists, history
<1> QED
  BY <1>4, <1>5, <1>7, <1>8 DEF Next, Finished

\* A move is a step of the life cycle, or none that it sees.
LEMMA CycleAct ==
  ASSUME Inv, ToldInv, NEW w \in Workers, NEW s \in Sessions, NEW e \in Entries,
         Moves(w, s, e), Act(w, s, e)
  PROVE  [Cycle!Next]_(Cycle!vars)
<1>1. CASE e = "RegisterAccept"
  <2>1. PICK new \in Free :
          connected' = connected \ {new} /\ calls' = [calls EXCEPT ![new] = <<>>]
    BY <1>1, FreshAct
  <2>2. /\ new \in Sessions /\ new \notin sessions /\ new \notin clients
        /\ \A v \in Workers : ~On(v, new, "AddSession")
    BY <2>1, Frees DEF Inv
  <2>3. new \notin connected
    BY <2>2 DEF Inv, ListInv
  <2>4. calls[new] \in {<<>>, <<"OnConnected", "OnDisconnected">>}
    <3>1. calls[new] \in {<<>>, <<"OnConnected">>, <<"OnConnected", "OnDisconnected">>}
      BY <2>2 DEF Inv, CallsInv
    <3>2. calls[new] # <<"OnConnected">>
      BY <2>2 DEF ToldInv, InList
    <3> QED
      BY <3>1, <3>2
  <2>5. UNCHANGED <<connected, sessions, clients>>
    BY <1>1, <2>1, <2>3, Frames
  <2>6. Cycle!Renew(new)
    BY <2>1, <2>2, <2>3, <2>4, <2>5 DEF Cycle!Renew, Cycle!Ended
  <2> QED
    BY <2>2, <2>6 DEF Cycle!Next
<1>2. CASE e = "ProcessConnect"
  <2>1. s \notin connected /\ s \notin sessions /\ calls[s] = <<>>
    BY <1>2, Opening
  <2>2. connected' = connected \cup {s} /\ UNCHANGED <<sessions, clients, calls>>
    BY <1>2, Frames DEF Act, ProcessConnect
  <2>3. Cycle!Connect(s)
    BY <2>1, <2>2 DEF Cycle!Connect
  <2> QED
    BY <2>3 DEF Cycle!Next
<1>3. CASE e = "AddSession"
  <2>1. s \in connected /\ s \notin sessions
    BY <1>3, Opening
  <2>2. sessions' = sessions \cup {s} /\ UNCHANGED <<connected, clients, calls>>
    BY <1>3, Frames DEF Act, AddSession
  <2>3. Cycle!List(s)
    BY <2>1, <2>2 DEF Cycle!List
  <2> QED
    BY <2>3 DEF Cycle!Next
<1>4. CASE e = "OnConnected"
  <2>1. s \in connected /\ s \in sessions /\ calls[s] = <<>>
    BY <1>4, Opening
  <2>2. /\ calls' = [calls EXCEPT ![s] = <<"OnConnected">>]
        /\ UNCHANGED <<connected, sessions>>
    BY <1>4, Frames, Calling
  <2>3. clients' \in {clients, clients \cup {s}}
    BY <1>4 DEF Act, OnConnected
  <2>4. Cycle!TellConnected(s)
    BY <2>1, <2>2, <2>3 DEF Cycle!TellConnected, Cycle!Opened
  <2> QED
    BY <2>4 DEF Cycle!Next
<1>5. CASE e = "Disconnect"
  <2>1. connected' = connected \ {s} /\ UNCHANGED <<sessions, clients, calls>>
    BY <1>5, Frames DEF Act, Disconnect
  <2>2. CASE s \in connected
    <3>1. s \in sessions /\ calls[s] = <<"OnConnected">>
      BY <1>5, <2>2, Closing
    <3>2. Cycle!Disconnect(s)
      BY <2>1, <2>2, <3>1 DEF Cycle!Disconnect, Cycle!Opened
    <3> QED
      BY <3>2 DEF Cycle!Next
  <2>3. CASE s \notin connected
    <3>1. UNCHANGED connected
      BY <2>1, <2>3
    <3> QED
      BY <2>1, <3>1 DEF Cycle!vars
  <2> QED
    BY <2>2, <2>3
<1>6. CASE e = "OnDisconnected"
  <2>1. s \notin connected /\ s \in sessions /\ calls[s] = <<"OnConnected">>
    BY <1>6, Closing
  <2>2. /\ calls' = [calls EXCEPT ![s] = <<"OnConnected", "OnDisconnected">>]
        /\ UNCHANGED <<connected, sessions>>
    BY <1>6, Frames, Calling
  <2>3. clients' = clients \ {s}
    BY <1>6 DEF Act, OnDisconnected
  <2>4. Cycle!TellDisconnected(s)
    BY <2>1, <2>2, <2>3 DEF Cycle!TellDisconnected, Cycle!Opened, Cycle!Ended
  <2> QED
    BY <2>4 DEF Cycle!Next
<1>7. CASE e = "RemoveSession"
  <2>1. /\ s \notin connected /\ s \in sessions /\ s \notin clients
        /\ calls[s] = <<"OnConnected", "OnDisconnected">>
    BY <1>7, Closing
  <2>2. sessions' = sessions \ {s} /\ UNCHANGED <<connected, clients, calls>>
    BY <1>7, Frames DEF Act, RemoveSession
  <2>3. Cycle!Unlist(s)
    BY <2>1, <2>2 DEF Cycle!Unlist, Cycle!Ended
  <2> QED
    BY <2>3 DEF Cycle!Next
<1>8. CASE e \notin {"RegisterAccept", "ProcessConnect", "AddSession", "OnConnected", "Disconnect",
                     "OnDisconnected", "RemoveSession"}
  <2>1. UNCHANGED <<connected, sessions, clients, calls>>
    BY <1>8, Frames
  <2> QED
    BY <2>1 DEF Cycle!vars
<1> QED
  BY <1>1, <1>2, <1>3, <1>4, <1>5, <1>6, <1>7, <1>8

\* Every step is one of the life cycle, or none that it sees.
LEMMA CycleStep ==
  ASSUME Inv, ToldInv, [Next]_vars
  PROVE  [Cycle!Next]_(Cycle!vars)
<1>1. ASSUME UNCHANGED <<connected, sessions, clients, calls>>
      PROVE  [Cycle!Next]_(Cycle!vars)
  BY <1>1 DEF Cycle!vars
<1>2. ASSUME NEW w \in Workers, NEW s \in Sessions, NEW e \in Events, ObserveIO(w, s, e)
      PROVE  [Cycle!Next]_(Cycle!vars)
  BY <1>1, <1>2, ObservedCycle
<1>3. ASSUME NEW w \in Workers, ProcessAccept(w)
      PROVE  [Cycle!Next]_(Cycle!vars)
  BY <1>1, <1>3 DEF ProcessAccept, lists, history
<1>4. ASSUME NEW w \in Workers, Step(w)
      PROVE  [Cycle!Next]_(Cycle!vars)
  <2>1. Turns(w) \/ \E s \in Sessions : RegisterAcceptNull(w, s)
    BY <1>4, StepTurns DEF Inv
  <2>2. ASSUME NEW s \in Sessions, RegisterAcceptNull(w, s)
        PROVE  [Cycle!Next]_(Cycle!vars)
    BY <1>1, <2>2 DEF RegisterAcceptNull, lists, history
  <2> QED
    BY <1>2, <1>3, <2>1, <2>2, CycleAct DEF Turns
<1>5. CASE UNCHANGED vars
  BY <1>1, <1>5 DEF vars, lists, history
<1> QED
  BY <1>2, <1>3, <1>4, <1>5 DEF Next, Finished

\* Whatever the workers, completions and references do, the service and the application
\* see the plain life cycle of a session: connected, listed, reported, disconnected,
\* reported and unlisted, once each and in this order, before its object is given up.
THEOREM LifeIsCycle == Spec => ImplementsLifeCycle
<1>1. Init => ToldInv /\ Cycle!Init
  <2> SUFFICES ASSUME Init PROVE ToldInv /\ Cycle!Init
    OBVIOUS
  <2>1. /\ connected = {} /\ sessions = {} /\ clients = {} /\ calls = [s \in Sessions |-> <<>>]
    BY DEF Init
  <2>2. \A w \in Workers, s \in Sessions : ~On(w, s, "RemoveSession")
    <3>1. Inv
      BY InitInv
    <3>2. \A w \in Workers, s \in Sessions : Among(w, s, EndEntries) => s \in sessions
      BY <3>1 DEF Inv, ListInv
    <3> QED
      BY <2>1, <3>2 DEF Among, EndEntries
  <2>3. <<>> # <<"OnConnected">>
    OBVIOUS
  <2> QED
    BY <2>1, <2>2, <2>3 DEF ToldInv, InList, Cycle!Init
<1>2. Inv /\ ToldInv /\ [Next]_vars => ToldInv' /\ [Cycle!Next]_(Cycle!vars)
  BY ToldStep, CycleStep
<1> QED
  BY <1>1, <1>2, Invariance, PTL DEF Spec, ImplementsLifeCycle, Cycle!Spec
=============================================================================
