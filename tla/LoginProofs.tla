---------------------------- MODULE LoginProofs ----------------------------
(* Theorems about Login, for every set of sessions and every width of the    *)
(* id counter.                                                               *)
EXTENDS Login, TLAPS

\* The counter stays in its range, and below it counting is ordinary.
LEMMA CounterWraps ==
  ASSUME NEW n \in Nat
  PROVE  /\ n % IdCount \in Ids
         /\ n < IdCount => n % IdCount = n
         /\ IdCount % IdCount = 0
BY IdAssumption DEF Ids

-----------------------------------------------------------------------------
(* Type correctness                                                          *)

\* Every value the handlers, the send path and a disconnect leave behind has
\* its type.
THEOREM LoginTypeCorrect == Spec => []TypeOK
<1>1. Init => TypeOK
  BY IdAssumption, BoundAssumption DEF Init, TypeOK, Ids
<1>2. TypeOK /\ [Next]_vars => TypeOK'
  <2> SUFFICES ASSUME TypeOK, [Next]_vars PROVE TypeOK'
    OBVIOUS
  <2>1. CASE UNCHANGED vars
    BY <2>1 DEF TypeOK, vars, registry, worker, replies
  <2>2. CASE Finished
    BY <2>1, <2>2 DEF Finished
  <2>3. ASSUME NEW s \in Sessions, UnregisteredPacket(s) PROVE TypeOK'
    BY <2>3 DEF UnregisteredPacket, TypeOK, registry, worker, replies
  <2>4. ASSUME NEW s \in Sessions, Handle_LoginRequest(s) PROVE TypeOK'
    <3>1. idCounter' \in Ids
      BY <2>4, CounterWraps, IdAssumption DEF Handle_LoginRequest, TypeOK, Ids
    <3>2. logins' \in 0..MaxLogins
      BY <2>4, BoundAssumption DEF Handle_LoginRequest, TypeOK
    <3> QED
      BY <2>4, <3>1, <3>2 DEF Handle_LoginRequest, TypeOK, replies
  <2>5. ASSUME NEW s \in Sessions, AddPlayer(s) PROVE TypeOK'
    BY <2>5 DEF AddPlayer, TypeOK, replies
  <2>6. ASSUME NEW s \in Sessions, Reply(s) PROVE TypeOK'
    <3>1. sendQueue' \in [Sessions -> Seq(Ids \union {NullBuffer})]
      <4>1. CASE sendQueue' = sendQueue
        BY <4>1 DEF TypeOK
      <4>2. CASE sendQueue' # sendQueue
        <5>1. PICK b \in {playerId[s], NullBuffer} :
                sendQueue' = [sendQueue EXCEPT ![s] = Append(sendQueue[s], b)]
          BY <2>6, <4>2 DEF Reply
        <5> QED
          BY <5>1 DEF TypeOK
      <4> QED
        BY <4>1, <4>2
    <3> QED
      BY <2>6, <3>1 DEF Reply, TypeOK, registry
  <2>7. ASSUME NEW s \in Sessions, RegisterSend(s) PROVE TypeOK'
    <3>1. CASE NullBuffer \in Range(sendQueue[s])
      BY <2>7, <3>1 DEF RegisterSend, TypeOK, registry, worker, replies
    <3>2. CASE NullBuffer \notin Range(sendQueue[s])
      <4>1. sendQueue[s] \in Seq(Ids)
        <5>1. sendQueue[s] \in Seq(Ids \union {NullBuffer})
          BY DEF TypeOK
        <5>2. \A i \in 1..Len(sendQueue[s]) : sendQueue[s][i] \in Ids
          BY <3>2, <5>1 DEF Range
        <5> QED
          BY <5>1, <5>2
      <4>2. wire[s] \o sendQueue[s] \in Seq(Ids)
        BY <4>1 DEF TypeOK
      <4>3. /\ wire' = [wire EXCEPT ![s] = wire[s] \o sendQueue[s]]
            /\ sendQueue' = [sendQueue EXCEPT ![s] = <<>>]
            /\ UNCHANGED <<crash, registry, worker, link, logins>>
        BY <2>7, <3>2 DEF RegisterSend
      <4>4. wire' \in [Sessions -> Seq(Ids)]
        BY <4>2, <4>3 DEF TypeOK
      <4>5. sendQueue' \in [Sessions -> Seq(Ids \union {NullBuffer})]
        BY <4>3 DEF TypeOK
      <4> QED
        BY <4>3, <4>4, <4>5 DEF TypeOK, registry, worker
    <3> QED
      BY <3>1, <3>2
  <2>8. ASSUME NEW s \in Sessions, Disconnect(s) PROVE TypeOK'
    BY <2>8 DEF Disconnect, TypeOK, registry, worker, replies
  <2>9. ASSUME NEW s \in Sessions, Free(s) PROVE TypeOK'
    BY <2>9 DEF Free, TypeOK, registry, worker
  <2> QED
    BY <2>1, <2>2, <2>3, <2>4, <2>5, <2>6, <2>7, <2>8, <2>9 DEF Next
<1> QED
  BY <1>1, <1>2, PTL DEF Spec

-----------------------------------------------------------------------------
(* One player per login                                                      *)

\* The invariant behind OnePlayerPerLogin: until the counter wraps around it
\* stands at the id behind the last one handed out, a worker between the two
\* steps of a login holds an id that was handed out and that nobody else has,
\* and the list has all the others.
Numbering ==
  /\ logins < IdCount => idCounter = (logins + 1) % IdCount
  /\ FirstRound =>
       /\ \A s \in Adding : playerId[s] \in Issued
       /\ \A s, r \in Adding : playerId[s] = playerId[r] => s = r
       /\ DOMAIN players = Issued \ {playerId[s] : s \in Adding}

\* The next id is one that has not been handed out.
LEMMA NextIdIsNew ==
  ASSUME TypeOK, Numbering, logins < IdCount
  PROVE  idCounter \notin Issued
<1>1. idCounter = (logins + 1) % IdCount /\ logins \in Nat
  BY BoundAssumption DEF Numbering, TypeOK
<1>2. ASSUME NEW n \in 1..logins PROVE n % IdCount # (logins + 1) % IdCount
  <2>1. n % IdCount = n /\ n < IdCount
    BY <1>1, <1>2, CounterWraps, IdAssumption
  <2>2. CASE logins + 1 < IdCount
    BY <2>1, <2>2, <1>1, CounterWraps, IdAssumption
  <2>3. CASE logins + 1 = IdCount
    BY <2>1, <2>3, <1>1, CounterWraps, IdAssumption
  <2> QED
    BY <2>2, <2>3, <1>1, IdAssumption
<1> QED
  BY <1>1, <1>2 DEF Issued

\* A login takes the next id and adds it to those handed out.
LEMMA LoginTakesNext ==
  ASSUME TypeOK, Numbering, NEW s \in Sessions, Handle_LoginRequest(s), FirstRound'
  PROVE  /\ FirstRound
         /\ playerId'[s] = idCounter /\ idCounter \notin Issued
         /\ Issued' = Issued \union {idCounter}
         /\ Adding' = Adding \union {s} /\ s \notin Adding
         /\ \A r \in Adding : playerId'[r] = playerId[r]
<1>1. logins \in Nat /\ logins' = logins + 1 /\ logins < IdCount
  BY BoundAssumption, IdAssumption DEF TypeOK, Handle_LoginRequest, FirstRound
<1>2. FirstRound /\ idCounter \notin Issued
  BY <1>1, NextIdIsNew, IdAssumption DEF FirstRound
<1>3. Issued' = Issued \union {idCounter}
  <2>1. 1..(logins + 1) = (1..logins) \union {logins + 1}
    BY <1>1
  <2>2. idCounter = (logins + 1) % IdCount
    BY <1>1 DEF Numbering
  <2> QED
    BY <1>1, <2>1, <2>2 DEF Issued
<1>4. Adding' = Adding \union {s} /\ s \notin Adding
  BY DEF Adding, Handle_LoginRequest, Dispatching, TypeOK
<1>5. playerId'[s] = idCounter /\ \A r \in Adding : playerId'[r] = playerId[r]
  BY <1>4 DEF Adding, Handle_LoginRequest, TypeOK
<1> QED
  BY <1>2, <1>3, <1>4, <1>5

\* Only logins and AddPlayer touch the numbering.
LEMMA NumberingStep == TypeOK /\ TypeOK' /\ Numbering /\ [Next]_vars => Numbering'
<1> SUFFICES ASSUME TypeOK, TypeOK', Numbering, [Next]_vars PROVE Numbering'
  OBVIOUS
<1>1. ASSUME UNCHANGED <<idCounter, players, at, playerId, logins>> PROVE Numbering'
  BY <1>1 DEF Numbering, FirstRound, Issued, Adding
<1>2. ASSUME NEW s \in Sessions, Handle_LoginRequest(s) PROVE Numbering'
  <2>1. logins' < IdCount => idCounter' = (logins' + 1) % IdCount
    <3>1. SUFFICES ASSUME logins' < IdCount PROVE idCounter' = (logins' + 1) % IdCount
      OBVIOUS
    <3>2. logins \in Nat /\ logins' = logins + 1 /\ logins + 1 < IdCount
      BY <1>2, <3>1, BoundAssumption DEF Handle_LoginRequest, TypeOK
    <3>3. idCounter = logins + 1
      BY <3>2, CounterWraps, IdAssumption DEF Numbering
    <3> QED
      BY <1>2, <3>2, <3>3 DEF Handle_LoginRequest
  <2>2. ASSUME FirstRound'
        PROVE  /\ \A r \in Adding' : playerId'[r] \in Issued'
               /\ \A q, r \in Adding' : playerId'[q] = playerId'[r] => q = r
               /\ DOMAIN players' = Issued' \ {playerId'[r] : r \in Adding'}
    <3>1. /\ FirstRound
          /\ playerId'[s] = idCounter /\ idCounter \notin Issued
          /\ Issued' = Issued \union {idCounter}
          /\ Adding' = Adding \union {s} /\ s \notin Adding
          /\ \A r \in Adding : playerId'[r] = playerId[r]
      BY <1>2, <2>2, LoginTakesNext
    <3>2. /\ \A r \in Adding : playerId[r] \in Issued
          /\ \A q, r \in Adding : playerId[q] = playerId[r] => q = r
          /\ DOMAIN players = Issued \ {playerId[r] : r \in Adding}
      BY <3>1 DEF Numbering
    <3>3. {playerId'[r] : r \in Adding'} = {playerId[r] : r \in Adding} \union {idCounter}
      BY <3>1
    <3>4. players' = players
      BY <1>2 DEF Handle_LoginRequest
    <3>5. DOMAIN players' = Issued' \ {playerId'[r] : r \in Adding'}
      BY <3>1, <3>2, <3>3, <3>4
    <3> QED
      BY <3>1, <3>2, <3>5
  <2> QED
    BY <2>1, <2>2 DEF Numbering
<1>3. ASSUME NEW s \in Sessions, AddPlayer(s) PROVE Numbering'
  <2>1. /\ UNCHANGED <<idCounter, playerId, logins>>
        /\ DOMAIN players' = DOMAIN players \union {playerId[s]}
    BY <1>3 DEF AddPlayer
  <2>2. Adding' = Adding \ {s} /\ s \in Adding
    BY <1>3 DEF AddPlayer, Adding, TypeOK
  <2>3. (FirstRound' <=> FirstRound) /\ Issued' = Issued
    BY <2>1 DEF FirstRound, Issued
  <2>4. ASSUME FirstRound
        PROVE  DOMAIN players' = Issued \ {playerId[r] : r \in Adding \ {s}}
    <3>1. /\ \A r \in Adding : playerId[r] \in Issued
          /\ \A q, r \in Adding : playerId[q] = playerId[r] => q = r
          /\ DOMAIN players = Issued \ {playerId[r] : r \in Adding}
      BY <2>4 DEF Numbering
    <3>2. {playerId[r] : r \in Adding \ {s}} = {playerId[r] : r \in Adding} \ {playerId[s]}
      BY <2>2, <3>1
    <3> QED
      BY <2>1, <2>2, <3>1, <3>2
  <2> QED
    BY <2>1, <2>2, <2>3, <2>4 DEF Numbering
<1>4. ASSUME NEW s \in Sessions, Reply(s) PROVE Numbering'
  <2>1. Adding' = Adding
    BY <1>4 DEF Reply, Adding, TypeOK
  <2> QED
    BY <1>4, <2>1 DEF Reply, registry, Numbering, FirstRound, Issued
<1>5. CASE UNCHANGED vars
  BY <1>1, <1>5 DEF vars, registry, worker
<1>6. CASE Finished
  BY <1>5, <1>6 DEF Finished
<1>7. ASSUME NEW s \in Sessions,
             UnregisteredPacket(s) \/ RegisterSend(s) \/ Disconnect(s) \/ Free(s)
      PROVE  Numbering'
  BY <1>1, <1>7 DEF UnregisteredPacket, RegisterSend, Disconnect, Free, registry, worker
<1> QED
  BY <1>2, <1>3, <1>4, <1>5, <1>6, <1>7 DEF Next

LEMMA NumberingInit == Init => Numbering
<1> SUFFICES ASSUME Init PROVE Numbering
  OBVIOUS
<1>1. 1 % IdCount = 1
  BY CounterWraps, IdAssumption
<1>2. Adding = {} /\ Issued = {} /\ DOMAIN players = {}
  BY DEF Init, Adding, Issued
<1> QED
  BY <1>1, <1>2 DEF Init, Numbering

\* Until the counter wraps around, logins that interleave get different ids and
\* each its own player, for any number of sessions.
THEOREM LoginOnePlayer == Spec => []OnePlayerPerLogin
<1>1. Numbering => OnePlayerPerLogin
  BY DEF Numbering, OnePlayerPerLogin
<1> QED
  BY <1>1, NumberingInit, NumberingStep, LoginTypeCorrect, PTL DEF Spec

-----------------------------------------------------------------------------
(* Replies                                                                   *)

\* The invariant behind RepliesMatchPlayers: a worker that is about to reply
\* holds the id of a player of its session that the session has not been told.
ReplyReady ==
  FirstRound =>
    \A s \in Sessions : at[s] = "reply" =>
      /\ playerId[s] \in DOMAIN players /\ players[playerId[s]] = s
      /\ \A i \in DOMAIN Told(s) : Told(s)[i] # playerId[s]

\* What a session is told is a sequence, of ids and null pointers.
LEMMA ToldType ==
  ASSUME TypeOK, NEW s \in Sessions
  PROVE  /\ Told(s) \in Seq(Ids \union {NullBuffer})
         /\ DOMAIN Told(s) = 1..Len(Told(s)) /\ Len(Told(s)) \in Nat
<1>1. wire[s] \in Seq(Ids \union {NullBuffer}) /\ sendQueue[s] \in Seq(Ids \union {NullBuffer})
  <2>1. wire[s] \in Seq(Ids) /\ sendQueue[s] \in Seq(Ids \union {NullBuffer})
    BY DEF TypeOK
  <2>2. \A i \in 1..Len(wire[s]) : wire[s][i] \in Ids \union {NullBuffer}
    BY <2>1
  <2> QED
    BY <2>1, <2>2
<1>2. Told(s) \in Seq(Ids \union {NullBuffer})
  BY <1>1 DEF Told
<1> DEFINE q == Told(s)
<1>3. q \in Seq(Ids \union {NullBuffer})
  BY <1>2
<1> HIDE DEF q
<1>4. DOMAIN q = 1..Len(q) /\ Len(q) \in Nat
  BY <1>3
<1> QED
  BY <1>3, <1>4 DEF q

\* Appending to the second half of a sequence appends to the whole.
LEMMA ConcatAppend ==
  ASSUME NEW S, NEW p \in Seq(S), NEW q \in Seq(S), NEW e \in S
  PROVE  p \o Append(q, e) = Append(p \o q, e)
<1>1. Len(p) \in Nat /\ Len(q) \in Nat
  OBVIOUS
<1>2. /\ p \o Append(q, e) \in Seq(S) /\ Append(p \o q, e) \in Seq(S)
      /\ Len(p \o Append(q, e)) = Len(p) + Len(q) + 1
      /\ Len(Append(p \o q, e)) = Len(p) + Len(q) + 1
  OBVIOUS
<1>3. ASSUME NEW i \in 1..(Len(p) + Len(q) + 1)
      PROVE  (p \o Append(q, e))[i] = Append(p \o q, e)[i]
  BY <1>1
<1> QED
  BY <1>2, <1>3

\* A step that leaves the players alone, gives no session more to be told and
\* lets no worker reach its reply preserves both.
LEMMA NothingNewTold ==
  ASSUME RepliesMatchPlayers, ReplyReady,
         FirstRound' => FirstRound,
         UNCHANGED players,
         \A s \in Sessions : /\ DOMAIN Told(s)' \subseteq DOMAIN Told(s)
                             /\ \A i \in DOMAIN Told(s)' : Told(s)'[i] = Told(s)[i]
                             /\ at'[s] = "reply" => at[s] = "reply" /\ playerId'[s] = playerId[s]
  PROVE  RepliesMatchPlayers' /\ ReplyReady'
BY DEF RepliesMatchPlayers, ReplyReady

\* Every step preserves what has been told and what is about to be.
LEMMA RepliesStep ==
  TypeOK /\ TypeOK' /\ Numbering /\ RepliesMatchPlayers /\ ReplyReady /\ [Next]_vars
    => RepliesMatchPlayers' /\ ReplyReady'
<1> SUFFICES ASSUME TypeOK, TypeOK', Numbering, RepliesMatchPlayers, ReplyReady,
                    [Next]_vars
             PROVE  RepliesMatchPlayers' /\ ReplyReady'
  OBVIOUS
<1> DEFINE Kept == RepliesMatchPlayers' /\ ReplyReady'
<1>1. ASSUME UNCHANGED <<players, at, playerId, sendQueue, wire, logins>> PROVE Kept
  BY <1>1 DEF RepliesMatchPlayers, ReplyReady, FirstRound, Told
<1>2. ASSUME NEW s \in Sessions, Handle_LoginRequest(s) PROVE Kept
  <2>1. FirstRound' => FirstRound
    BY <1>2, BoundAssumption, IdAssumption DEF Handle_LoginRequest, FirstRound, TypeOK
  <2>2. /\ UNCHANGED <<players, sendQueue, wire>>
        /\ at' = [at EXCEPT ![s] = "add"] /\ playerId' = [playerId EXCEPT ![s] = idCounter]
    BY <1>2 DEF Handle_LoginRequest, replies
  <2>3. \A r \in Sessions : at'[r] = "reply" => at[r] = "reply" /\ playerId'[r] = playerId[r]
    BY <2>2 DEF TypeOK
  <2>4. \A r \in Sessions : Told(r)' = Told(r)
    BY <2>2 DEF Told
  <2> QED
    BY <2>1, <2>2, <2>3, <2>4, NothingNewTold
<1>3. ASSUME NEW s \in Sessions, AddPlayer(s) PROVE Kept
  <2>1. /\ UNCHANGED <<playerId, sendQueue, wire, logins>>
        /\ at' = [at EXCEPT ![s] = "reply"] /\ at[s] = "add"
        /\ DOMAIN players' = DOMAIN players \union {playerId[s]}
        /\ players'[playerId[s]] = s
        /\ \A id \in DOMAIN players : id # playerId[s] => players'[id] = players[id]
    BY <1>3 DEF AddPlayer, replies
  <2>2. FirstRound' = FirstRound /\ \A r \in Sessions : Told(r)' = Told(r)
    BY <2>1 DEF FirstRound, Told
  <2>3. FirstRound => playerId[s] \notin DOMAIN players
    BY <2>1 DEF Numbering, Adding
  <2>4. RepliesMatchPlayers'
    BY <2>1, <2>2, <2>3 DEF RepliesMatchPlayers
  <2>5. ASSUME NEW r \in Sessions, at'[r] = "reply", FirstRound
        PROVE  /\ playerId'[r] \in DOMAIN players' /\ players'[playerId'[r]] = r
               /\ \A i \in DOMAIN Told(r)' : Told(r)'[i] # playerId'[r]
    <3>1. CASE r = s
      <4>1. ASSUME NEW i \in DOMAIN Told(s), Told(s)[i] = playerId[s] PROVE FALSE
        <5>1. playerId[s] # NullBuffer
          BY BufferAssumption, IdAssumption DEF TypeOK, Ids
        <5>2. playerId[s] \in DOMAIN players
          BY <2>5, <4>1, <5>1 DEF RepliesMatchPlayers
        <5> QED
          BY <2>3, <2>5, <5>2
      <4> QED
        BY <2>1, <2>2, <3>1, <4>1
    <3>2. CASE r # s
      <4>1. at[r] = "reply"
        BY <2>1, <2>5, <3>2 DEF TypeOK
      <4>2. /\ playerId[r] \in DOMAIN players /\ players[playerId[r]] = r
            /\ \A i \in DOMAIN Told(r) : Told(r)[i] # playerId[r]
        BY <2>5, <4>1 DEF ReplyReady
      <4> QED
        BY <2>1, <2>2, <2>3, <2>5, <4>2
    <3> QED
      BY <3>1, <3>2
  <2> QED
    BY <2>2, <2>4, <2>5 DEF ReplyReady
<1>4. ASSUME NEW s \in Sessions, Reply(s), sendQueue' # sendQueue PROVE Kept
  <2>1. PICK b \in {playerId[s], NullBuffer} :
          sendQueue' = [sendQueue EXCEPT ![s] = Append(sendQueue[s], b)]
    BY <1>4 DEF Reply
  <2>2. /\ UNCHANGED <<players, playerId, wire, logins>>
        /\ at' = [at EXCEPT ![s] = "idle"] /\ at[s] = "reply"
    BY <1>4 DEF Reply, registry
  <2>3. FirstRound' = FirstRound
    BY <2>2 DEF FirstRound
  <2>4. \A r \in Sessions \ {s} : Told(r)' = Told(r)
    BY <2>1, <2>2 DEF Told, TypeOK
  <2>5. Told(s)' = Append(Told(s), b)
    <3>1. /\ wire[s] \in Seq(Ids \union {NullBuffer}) /\ sendQueue[s] \in Seq(Ids \union {NullBuffer})
      <4>1. wire[s] \in Seq(Ids) /\ sendQueue[s] \in Seq(Ids \union {NullBuffer})
        BY DEF TypeOK
      <4>2. \A i \in 1..Len(wire[s]) : wire[s][i] \in Ids \union {NullBuffer}
        BY <4>1
      <4> QED
        BY <4>1, <4>2
    <3>2. b \in Ids \union {NullBuffer}
      BY <2>1 DEF TypeOK
    <3>3. Told(s)' = wire[s] \o Append(sendQueue[s], b)
      BY <2>1, <2>2 DEF Told, TypeOK
    <3>4. wire[s] \o Append(sendQueue[s], b) = Append(wire[s] \o sendQueue[s], b)
      <4> DEFINE p == wire[s]
                 q == sendQueue[s]
                 S == Ids \union {NullBuffer}
      <4>1. p \in Seq(S) /\ q \in Seq(S) /\ b \in S
        BY <3>1, <3>2
      <4> HIDE DEF p, q, S
      <4>2. p \o Append(q, b) = Append(p \o q, b)
        BY <4>1, ConcatAppend
      <4> QED
        BY <4>2 DEF p, q
    <3> QED
      BY <3>3, <3>4 DEF Told
  <2>6. /\ DOMAIN Told(s)' = DOMAIN Told(s) \union {Len(Told(s)) + 1}
        /\ Told(s)'[Len(Told(s)) + 1] = b
        /\ \A i \in DOMAIN Told(s) : Told(s)'[i] = Told(s)[i] /\ i # Len(Told(s)) + 1
    <3> DEFINE q == Told(s)
    <3>1. q \in Seq(Ids \union {NullBuffer}) /\ b \in Ids \union {NullBuffer}
      BY <2>1, ToldType DEF TypeOK
    <3>2. /\ DOMAIN Append(q, b) = DOMAIN q \union {Len(q) + 1}
          /\ Append(q, b)[Len(q) + 1] = b
          /\ \A i \in DOMAIN q : Append(q, b)[i] = q[i] /\ i # Len(q) + 1
      <4> HIDE DEF q
      <4> QED
        BY <3>1
    <3> QED
      BY <2>5, <3>2
  <2>7. ASSUME FirstRound
        PROVE  /\ playerId[s] \in DOMAIN players /\ players[playerId[s]] = s
               /\ \A i \in DOMAIN Told(s) : Told(s)[i] # playerId[s]
    BY <2>2, <2>7 DEF ReplyReady
  <2>8. RepliesMatchPlayers'
    <3> SUFFICES ASSUME FirstRound, NEW r \in Sessions, NEW i \in DOMAIN Told(r)',
                        Told(r)'[i] # NullBuffer
                 PROVE  /\ Told(r)'[i] \in DOMAIN players
                        /\ players[Told(r)'[i]] = r
                        /\ \A j \in DOMAIN Told(r)' : Told(r)'[j] = Told(r)'[i] => j = i
      BY <2>2, <2>3 DEF RepliesMatchPlayers
    <3>1. CASE r # s
      BY <2>4, <3>1 DEF RepliesMatchPlayers
    <3>2. CASE r = s
      <4>1. \A k \in DOMAIN Told(s) : Told(s)[k] # NullBuffer =>
              /\ Told(s)[k] \in DOMAIN players /\ players[Told(s)[k]] = s
              /\ \A j \in DOMAIN Told(s) : Told(s)[j] = Told(s)[k] => j = k
        BY DEF RepliesMatchPlayers
      <4>2. b # NullBuffer => b = playerId[s]
        BY <2>1
      <4>3. CASE i = Len(Told(s)) + 1
        BY <2>6, <2>7, <3>2, <4>2, <4>3
      <4>4. CASE i \in DOMAIN Told(s)
        BY <2>6, <2>7, <3>2, <4>1, <4>2, <4>4
      <4> QED
        BY <2>6, <3>2, <4>3, <4>4
    <3> QED
      BY <3>1, <3>2
  <2>9. ReplyReady'
    <3>1. \A r \in Sessions : at'[r] = "reply" => r # s /\ at[r] = "reply"
      BY <2>2 DEF TypeOK
    <3> QED
      BY <2>2, <2>3, <2>4, <3>1 DEF ReplyReady
  <2> QED
    BY <2>8, <2>9
<1>a. ASSUME NEW s \in Sessions, Reply(s), sendQueue' = sendQueue PROVE Kept
  <2>1. UNCHANGED <<players, playerId, wire, logins>> /\ at' = [at EXCEPT ![s] = "idle"]
    BY <1>a DEF Reply, registry
  <2>2. \A r \in Sessions : at'[r] = "reply" => at[r] = "reply"
    BY <2>1 DEF TypeOK
  <2>3. \A r \in Sessions : Told(r)' = Told(r)
    BY <1>a, <2>1 DEF Told
  <2> QED
    BY <2>1, <2>2, <2>3, NothingNewTold DEF FirstRound
<1>5. ASSUME NEW s \in Sessions, RegisterSend(s) PROVE Kept
  <2>1. CASE UNCHANGED replies
    BY <1>1, <1>5, <2>1 DEF RegisterSend, registry, worker, replies
  <2>2. CASE /\ wire' = [wire EXCEPT ![s] = wire[s] \o sendQueue[s]]
             /\ sendQueue' = [sendQueue EXCEPT ![s] = <<>>]
    <3>1. UNCHANGED <<players, at, playerId, logins>>
      BY <1>5 DEF RegisterSend, registry, worker
    <3>2. Told(s)' = Told(s)
      <4>1. Told(s)' = Told(s) \o <<>>
        BY <2>2 DEF Told, TypeOK
      <4>2. Told(s) \in Seq(Ids \union {NullBuffer})
        BY ToldType
      <4> QED
        BY <4>1, <4>2
    <3>3. \A r \in Sessions \ {s} : Told(r)' = Told(r)
      BY <2>2 DEF Told, TypeOK
    <3>4. \A r \in Sessions : Told(r)' = Told(r)
      BY <3>2, <3>3
    <3> QED
      BY <3>1, <3>4, NothingNewTold DEF FirstRound
  <2> QED
    BY <1>5, <2>1, <2>2 DEF RegisterSend
<1>6. ASSUME NEW s \in Sessions, Free(s) PROVE Kept
  <2>1. /\ UNCHANGED <<players, at, playerId, wire, logins>>
        /\ sendQueue' = [sendQueue EXCEPT ![s] = <<>>]
    BY <1>6 DEF Free, registry, worker
  <2>2. /\ DOMAIN Told(s)' \subseteq DOMAIN Told(s)
        /\ \A i \in DOMAIN Told(s)' : Told(s)'[i] = Told(s)[i]
    <3> DEFINE w == wire[s]
               q == sendQueue[s]
    <3>1. w \in Seq(Ids) /\ q \in Seq(Ids \union {NullBuffer})
      BY DEF TypeOK
    <3>2. Told(s)' = w \o <<>> /\ Told(s) = w \o q
      BY <2>1 DEF Told, TypeOK
    <3>3. w \o <<>> = w /\ DOMAIN w = 1..Len(w) /\ DOMAIN (w \o q) = 1..(Len(w) + Len(q))
          /\ \A i \in DOMAIN w : (w \o q)[i] = w[i]
      <4> HIDE DEF w, q
      <4> QED
        BY <3>1
    <3>4. Len(w) \in Nat /\ Len(q) \in Nat
      <4> HIDE DEF w, q
      <4> QED
        BY <3>1
    <3> HIDE DEF w, q
    <3> QED
      BY <3>2, <3>3, <3>4
  <2>3. \A r \in Sessions \ {s} : Told(r)' = Told(r)
    BY <2>1 DEF Told, TypeOK
  <2>4. \A r \in Sessions : /\ DOMAIN Told(r)' \subseteq DOMAIN Told(r)
                            /\ \A i \in DOMAIN Told(r)' : Told(r)'[i] = Told(r)[i]
    BY <2>2, <2>3
  <2> QED
    BY <2>1, <2>4, NothingNewTold DEF FirstRound
<1>7. CASE UNCHANGED vars
  BY <1>1, <1>7 DEF vars, registry, worker, replies
<1>8. CASE Finished
  BY <1>7, <1>8 DEF Finished
<1>9. ASSUME NEW s \in Sessions, UnregisteredPacket(s) \/ Disconnect(s) PROVE Kept
  BY <1>1, <1>9 DEF UnregisteredPacket, Disconnect, registry, worker, replies
<1> QED
  BY <1>2, <1>3, <1>4, <1>a, <1>5, <1>6, <1>7, <1>8, <1>9 DEF Next

LEMMA RepliesInit == Init => RepliesMatchPlayers /\ ReplyReady
<1> SUFFICES ASSUME Init, NEW s \in Sessions PROVE Told(s) = <<>> /\ at[s] # "reply"
  BY DEF RepliesMatchPlayers, ReplyReady
<1> QED
  BY DEF Init, Told

\* Until the counter wraps around, a client is told only ids of players that are
\* in the list and its own, each once, for any number of sessions and whatever
\* their workers, the send path and disconnects do in between.
THEOREM LoginReplies == Spec => []RepliesMatchPlayers
BY RepliesInit, RepliesStep, NumberingInit, NumberingStep, LoginTypeCorrect, PTL DEF Spec
=============================================================================
