---------------------------- MODULE SessionSend ----------------------------
(***************************************************************************)
(* The send path of one ServerCore Session (Session.cpp: Send,             *)
(* RegisterSend, ProcessSend and the isConnected flag they consult), run   *)
(* by the threads that share the session: every thread may call Send, and  *)
(* every thread may be the IOCP worker that picks up the completion of the *)
(* one overlapped WSASend the session has.                                 *)
(*                                                                         *)
(* sendRegistered is the token.  The thread whose exchange(true) returned  *)
(* false drains sendQueue into sendEvent and posts it; the completion      *)
(* either gives the token back or posts again.  The completion drains      *)
(* under rwLock, the winner of Send drains WITHOUT it (Session.cpp:163),   *)
(* so its pops may run at the same time as the push of another Send.  That *)
(* is a data race on std::queue: PushOutcomes lists what it leaves behind, *)
(* Crash the process it may kill.                                          *)
(*                                                                         *)
(* Buffers are numbered in the order their pushes complete.                *)
(***************************************************************************)
EXTENDS Naturals, Sequences

CONSTANTS
  Threads,      \* the callers of Send, who are the IOCP workers as well
  NoThread,     \* rwLock when nobody holds it
  MaxSends      \* bound: how many calls of Send are modelled

ASSUME ThreadsAssumption  == NoThread \notin Threads
ASSUME MaxSendsAssumption == MaxSends \in Nat

\* What a slot of the queue that was never filled is read as.
Garbage == 0

VARIABLES
  conn,            \* isConnected: "new" and "down" are false, "up" is true
  rwLock,          \* the thread holding Session::rwLock exclusively
  sendRegistered,  \* the token
  sendQueue,       \* numbers of the waiting buffers, oldest first
  sendBuffers,     \* sendEvent.sendBuffers, the batch being built or in flight
  owner,           \* sendEvent.owner is set (it keeps the session alive)
  inFlight,        \* the kernel has the batch and will queue one completion
  pc,              \* where each thread is
  calls,           \* calls of Send so far (bounded by MaxSends)
  accepted,        \* pushes completed so far
  torn,            \* a pop has run inside the push now in progress
  overlapped,      \* history: two calls of Send have run at the same time
  raced,           \* history: a pop has run inside some push
  postFailed,      \* history: a WSASend has been refused on the spot
  wire             \* history: the numbers the kernel has accepted, in order

sendVars == <<sendBuffers, owner, inFlight>>
history  == <<overlapped, raced, postFailed, wire>>
vars == <<conn, rwLock, sendRegistered, sendQueue, sendVars, pc, calls,
          accepted, torn, history>>

PCs == {"idle", "send", "push", "exchange", "register", "drain", "post",
        "failed", "return", "completed", "check", "dead"}

Goto(t, label) == pc' = [pc EXCEPT ![t] = label]

\* unique_lock's destructor at the end of Send's block and of ProcessSend.
Unlock(t) == rwLock' = IF rwLock = t THEN NoThread ELSE rwLock

Init ==
  /\ conn = "new"
  /\ rwLock = NoThread
  /\ sendRegistered = FALSE
  /\ sendQueue = <<>>
  /\ sendBuffers = <<>>
  /\ owner = FALSE
  /\ inFlight = FALSE
  /\ pc = [t \in Threads |-> "idle"]
  /\ calls = 0
  /\ accepted = 0
  /\ torn = FALSE
  /\ overlapped = FALSE
  /\ raced = FALSE
  /\ postFailed = FALSE
  /\ wire = <<>>

-----------------------------------------------------------------------------
(* The connection: ProcessConnect raises the flag once, Disconnect lowers it *)

\* ProcessConnect, as far as the send path can tell.
ProcessConnect ==
  /\ conn = "new"
  /\ conn' = "up"
  /\ UNCHANGED <<rwLock, sendRegistered, sendQueue, sendVars, pc, calls,
                 accepted, torn, history>>

\* Disconnect called for a reason outside the send path.
Disconnect ==
  /\ conn = "up"
  /\ conn' = "down"
  /\ UNCHANGED <<rwLock, sendRegistered, sendQueue, sendVars, pc, calls,
                 accepted, torn, history>>

-----------------------------------------------------------------------------
(* Session::Send                                                            *)

\* t is inside Send: past the entry, or in the RegisterSend that Send calls.
InSend(t) ==
  \/ pc[t] \in {"send", "push", "exchange"}
  \/ pc[t] \in {"register", "drain", "post", "failed"} /\ rwLock # t

\* The call; a session that is not connected drops the buffer silently.
Send(t) ==
  /\ pc[t] = "idle"
  /\ calls < MaxSends
  /\ calls' = calls + 1
  /\ overlapped' = (overlapped \/ \E u \in Threads : InSend(u))
  /\ Goto(t, IF conn = "up" THEN "send" ELSE "idle")
  /\ UNCHANGED <<conn, rwLock, sendRegistered, sendQueue, sendVars, accepted,
                 torn, raced, postFailed, wire>>

\* unique_lock taken: sendQueue.push begins.
LockForPush(t) ==
  /\ pc[t] = "send"
  /\ rwLock = NoThread
  /\ rwLock' = t
  /\ torn' = FALSE
  /\ Goto(t, "push")
  /\ UNCHANGED <<conn, sendRegistered, sendQueue, sendVars, calls, accepted,
                 history>>

\* A slot outside the queue: never filled, or left by a buffer that has gone
\* through it, whose pointer pop() destroys but does not erase.
Stale(q) == {Garbage} \union {n \in 1..accepted : \A i \in DOMAIN q : q[i] # n}

\* What std::queue (one slot per block, size and first offset kept apart) holds
\* after b is pushed.  Undisturbed, the queue and b.  If pops ran in the middle,
\* an update of size or offset may be lost, and push may have computed its slot
\* from an old one: b is out of reach, or replaces the last buffer, or stands
\* alone behind a reset offset, and a stale slot joins the queue at either end.
PushOutcomes(q, b) ==
  IF ~torn
    THEN {Append(q, b)}
    ELSE {q, Append(q, b)} \union
         UNION {{q \o <<s>>, q \o <<b, s>>, <<s>> \o q, <<s>> \o Append(q, b),
                 SubSeq(q, 1, Len(q) - 1) \o <<b, s>>} : s \in Stale(q)}

\* Mutant: the buffer is queued and never counted.
PushUncounted(t) ==
  /\ pc[t] = "push"
  /\ sendQueue' \in PushOutcomes(sendQueue, accepted + 1)
  /\ Goto(t, "exchange")
  /\ UNCHANGED <<conn, rwLock, sendRegistered, sendVars, calls, accepted,
                 torn, history>>

\* sendQueue.push ends; the buffer gets its number.
Push(t) ==
  /\ pc[t] = "push"
  /\ accepted' = accepted + 1
  /\ sendQueue' \in PushOutcomes(sendQueue, accepted + 1)
  /\ Goto(t, "exchange")
  /\ UNCHANGED <<conn, rwLock, sendRegistered, sendVars, calls, torn, history>>

\* Mutant: the value the exchange returned is not looked at.
ExchangeAllWin(t) ==
  /\ pc[t] = "exchange"
  /\ sendRegistered' = TRUE
  /\ rwLock' = NoThread
  /\ Goto(t, "register")
  /\ UNCHANGED <<conn, sendQueue, sendVars, calls, accepted, torn, history>>

\* sendRegistered.exchange(true), then the lock goes; only the winner goes on.
Exchange(t) ==
  /\ pc[t] = "exchange"
  /\ sendRegistered' = TRUE
  /\ rwLock' = NoThread
  /\ Goto(t, IF sendRegistered THEN "idle" ELSE "register")
  /\ UNCHANGED <<conn, sendQueue, sendVars, calls, accepted, torn, history>>

-----------------------------------------------------------------------------
(* Session::RegisterSend: entered without rwLock from Send, with it from     *)
(* ProcessSend                                                               *)

\* Mutant: the early return leaves ProcessSend's lock behind.
RegisterSendRefusedLocked(t) ==
  /\ pc[t] = "register"
  /\ conn # "up"
  /\ Goto(t, "idle")
  /\ UNCHANGED <<conn, rwLock, sendRegistered, sendQueue, sendVars, calls,
                 accepted, torn, history>>

\* Not connected: return, with the token still taken.
RegisterSendRefused(t) ==
  /\ pc[t] = "register"
  /\ conn # "up"
  /\ Unlock(t)
  /\ Goto(t, "idle")
  /\ UNCHANGED <<conn, sendRegistered, sendQueue, sendVars, calls, accepted,
                 torn, history>>

RegisterSend(t) ==
  /\ pc[t] = "register"
  /\ conn = "up"
  /\ owner' = TRUE
  /\ Goto(t, "drain")
  /\ UNCHANGED <<conn, rwLock, sendRegistered, sendQueue, sendBuffers,
                 inFlight, calls, accepted, torn, history>>

\* Another thread is in the middle of sendQueue.push.
OtherPushing(t) == \E u \in Threads \ {t} : pc[u] = "push"

\* One turn of the loop: front() into the batch, whatever the slot holds, and
\* pop().  A pop during a push races with it.
DrainOne(t) ==
  /\ pc[t] = "drain"
  /\ sendQueue # <<>>
  /\ sendBuffers' = Append(sendBuffers, Head(sendQueue))
  /\ sendQueue' = Tail(sendQueue)
  /\ torn'  = (torn  \/ OtherPushing(t))
  /\ raced' = (raced \/ OtherPushing(t))
  /\ UNCHANGED <<conn, rwLock, sendRegistered, owner, inFlight, pc, calls,
                 accepted, overlapped, postFailed, wire>>

DrainDone(t) ==
  /\ pc[t] = "drain"
  /\ sendQueue = <<>>
  /\ Goto(t, "post")
  /\ UNCHANGED <<conn, rwLock, sendRegistered, sendQueue, sendVars, calls,
                 accepted, torn, history>>

\* The race kills the process: in the pop itself (the push has just moved the
\* queue's map of blocks away), or at any later line, by a stale pointer or by a
\* buffer freed too early, since a stale slot drops a reference it does not have.
\* Its memory is gone with it.
Crash(t) ==
  /\ pc[t] \notin {"idle", "dead"}
  /\ raced \/ (pc[t] = "drain" /\ sendQueue # <<>> /\ OtherPushing(t))
  /\ raced' = TRUE
  /\ conn' = "down"
  /\ pc' = [u \in Threads |-> "dead"]
  /\ rwLock' = NoThread
  /\ sendRegistered' = FALSE /\ owner' = FALSE /\ inFlight' = FALSE
  /\ sendQueue' = <<>> /\ sendBuffers' = <<>>
  /\ torn' = FALSE
  /\ UNCHANGED <<calls, accepted, overlapped, postFailed, wire>>

\* Mutant: WSA_IO_PENDING is treated like an error.
PostPendingIsError(t) ==
  /\ pc[t] = "post"
  /\ inFlight' = TRUE
  /\ wire' = wire \o sendBuffers
  /\ owner' = FALSE
  /\ sendBuffers' = <<>>
  /\ Goto(t, IF rwLock = t THEN "return" ELSE "idle")
  /\ UNCHANGED <<conn, rwLock, sendRegistered, sendQueue, calls, accepted,
                 torn, overlapped, raced, postFailed>>

\* WSASend takes the batch: from here on the completion may run anywhere.
PostAccepted(t) ==
  /\ pc[t] = "post"
  /\ inFlight' = TRUE
  /\ wire' = wire \o sendBuffers
  /\ Goto(t, IF rwLock = t THEN "return" ELSE "idle")
  /\ UNCHANGED <<conn, rwLock, sendRegistered, sendQueue, sendBuffers, owner,
                 calls, accepted, torn, overlapped, raced, postFailed>>

\* WSASend refuses it: HandleError disconnects for a reset or aborted
\* connection and only prints every other error.
PostRefused(t) ==
  /\ pc[t] = "post"
  /\ postFailed' = TRUE
  /\ conn' \in {conn, IF conn = "up" THEN "down" ELSE conn}
  /\ Goto(t, "failed")
  /\ UNCHANGED <<rwLock, sendRegistered, sendQueue, sendVars, calls, accepted,
                 torn, overlapped, raced, wire>>

\* Mutant: the refused batch is queued again, behind later buffers.
ReleaseAndRequeue(t) ==
  /\ pc[t] = "failed"
  /\ owner' = FALSE
  /\ sendQueue' = sendQueue \o sendBuffers
  /\ sendBuffers' = <<>>
  /\ sendRegistered' = FALSE
  /\ Unlock(t)
  /\ Goto(t, "idle")
  /\ UNCHANGED <<conn, inFlight, calls, accepted, torn, history>>

\* Mutant: the error branch keeps the token.
ReleaseKeepingToken(t) ==
  /\ pc[t] = "failed"
  /\ owner' = FALSE
  /\ sendBuffers' = <<>>
  /\ Unlock(t)
  /\ Goto(t, "idle")
  /\ UNCHANGED <<conn, sendRegistered, sendQueue, inFlight, calls, accepted,
                 torn, history>>

\* The rest of the error branch drops the batch and the token, without a look
\* at sendQueue.
ReleaseAfterFailure(t) ==
  /\ pc[t] = "failed"
  /\ owner' = FALSE
  /\ sendBuffers' = <<>>
  /\ sendRegistered' = FALSE
  /\ Unlock(t)
  /\ Goto(t, "idle")
  /\ UNCHANGED <<conn, sendQueue, inFlight, calls, accepted, torn, history>>

\* RegisterSend is back in ProcessSend, whose lock ends with it.
Return(t) ==
  /\ pc[t] = "return"
  /\ Unlock(t)
  /\ Goto(t, "idle")
  /\ UNCHANGED <<conn, sendRegistered, sendQueue, sendVars, calls, accepted,
                 torn, history>>

-----------------------------------------------------------------------------
(* Session::ProcessSend, on the worker that dequeued the completion           *)

\* Mutant: the batch of the finished send is not cleared.
ProcessSendUncleared(t) ==
  /\ pc[t] = "idle"
  /\ inFlight
  /\ inFlight' = FALSE
  /\ owner' = FALSE
  /\ \E zeroBytes \in BOOLEAN :
       /\ sendBuffers = <<>> => zeroBytes
       /\ conn' = IF zeroBytes /\ conn = "up" THEN "down" ELSE conn
  /\ Goto(t, "completed")
  /\ UNCHANGED <<rwLock, sendRegistered, sendQueue, sendBuffers, calls,
                 accepted, torn, history>>

\* owner and batch are reset first; 0 bytes (a failed send, or a send of no
\* buffers) disconnects.
ProcessSend(t) ==
  /\ pc[t] = "idle"
  /\ inFlight
  /\ inFlight' = FALSE
  /\ owner' = FALSE
  /\ sendBuffers' = <<>>
  /\ \E zeroBytes \in BOOLEAN :
       /\ sendBuffers = <<>> => zeroBytes
       /\ conn' = IF zeroBytes /\ conn = "up" THEN "down" ELSE conn
  /\ Goto(t, "completed")
  /\ UNCHANGED <<rwLock, sendRegistered, sendQueue, calls, accepted, torn,
                 history>>

\* Mutant: ProcessSend looks at the queue without the lock.
NoLockForCheck(t) ==
  /\ pc[t] = "completed"
  /\ Goto(t, "check")
  /\ UNCHANGED <<conn, rwLock, sendRegistered, sendQueue, sendVars, calls,
                 accepted, torn, history>>

LockForCheck(t) ==
  /\ pc[t] = "completed"
  /\ rwLock = NoThread
  /\ rwLock' = t
  /\ Goto(t, "check")
  /\ UNCHANGED <<conn, sendRegistered, sendQueue, sendVars, calls, accepted,
                 torn, history>>

\* Mutant: the token is given back without a look at the queue.
GiveBackBlindly(t) ==
  /\ pc[t] = "check"
  /\ sendRegistered' = FALSE
  /\ Unlock(t)
  /\ Goto(t, "idle")
  /\ UNCHANGED <<conn, sendQueue, sendVars, calls, accepted, torn, history>>

\* sendQueue.empty(): give the token back, or keep it and the lock.
GiveBack(t) ==
  /\ pc[t] = "check"
  /\ sendQueue = <<>>
  /\ sendRegistered' = FALSE
  /\ Unlock(t)
  /\ Goto(t, "idle")
  /\ UNCHANGED <<conn, sendQueue, sendVars, calls, accepted, torn, history>>

\* Mutant: ProcessSend leaves the waiting buffers to the next completion.
SendMoreLater(t) ==
  /\ pc[t] = "check"
  /\ sendQueue # <<>>
  /\ Unlock(t)
  /\ Goto(t, "idle")
  /\ UNCHANGED <<conn, sendRegistered, sendQueue, sendVars, calls, accepted,
                 torn, history>>

SendMore(t) ==
  /\ pc[t] = "check"
  /\ sendQueue # <<>>
  /\ Goto(t, "register")
  /\ UNCHANGED <<conn, rwLock, sendRegistered, sendQueue, sendVars, calls,
                 accepted, torn, history>>

-----------------------------------------------------------------------------
\* What thread t does on its own account once it is inside Send or ProcessSend.
Step(t) ==
  \/ LockForPush(t) \/ Push(t) \/ Exchange(t)
  \/ RegisterSendRefused(t) \/ RegisterSend(t)
  \/ DrainOne(t) \/ DrainDone(t) \/ Crash(t)
  \/ PostAccepted(t) \/ PostRefused(t) \/ ReleaseAfterFailure(t) \/ Return(t)
  \/ LockForCheck(t) \/ GiveBack(t) \/ SendMore(t)

Completion == \E t \in Threads : ProcessSend(t)

\* Nothing is left to do: the calls are used up, or the process is dead.
Finished ==
  /\ \/ \A t \in Threads : pc[t] = "dead"
     \/ /\ \A t \in Threads : pc[t] = "idle"
        /\ calls = MaxSends
        /\ ~inFlight
  /\ UNCHANGED vars

Next ==
  \/ ProcessConnect
  \/ Disconnect
  \/ \E t \in Threads : Send(t) \/ Step(t)
  \/ Completion
  \/ Finished

Spec == Init /\ [][Next]_vars

\* A thread inside the code keeps running, and the kernel completes every
\* overlapped send it took, on a worker that waits for completions.
FairSpec ==
  /\ Spec
  /\ \A t \in Threads : WF_vars(Step(t))
  /\ WF_vars(Completion)

-----------------------------------------------------------------------------
(* Type invariant                                                            *)

\* Every variable has its type; the buffers anywhere in the path are ones that
\* have been pushed, or the contents of a slot that never held one.
TypeOK ==
  /\ conn \in {"new", "up", "down"}
  /\ rwLock \in Threads \cup {NoThread}
  /\ sendRegistered \in BOOLEAN
  /\ owner \in BOOLEAN
  /\ inFlight \in BOOLEAN
  /\ pc \in [Threads -> PCs]
  /\ calls \in 0..MaxSends
  /\ accepted \in Nat
  /\ sendQueue \in Seq(0..accepted)
  /\ sendBuffers \in Seq(0..accepted)
  /\ wire \in Seq(0..accepted)
  /\ torn \in BOOLEAN
  /\ overlapped \in BOOLEAN
  /\ raced \in BOOLEAN
  /\ postFailed \in BOOLEAN

-----------------------------------------------------------------------------
(* Safety                                                                    *)

\* t owns the send event: it is inside RegisterSend, or inside ProcessSend and
\* has not decided about the token yet.
Sending(t) ==
  pc[t] \in {"register", "drain", "post", "failed", "completed", "check"}

\* The token works: at most one thread owns sendEvent, none does while the
\* kernel has it, and whoever has it holds the token.  This is what lets
\* RegisterSend and ProcessSend touch sendEvent without a lock.
OneSender ==
  /\ \A t, u \in Threads : Sending(t) /\ Sending(u) => t = u
  /\ inFlight => \A t \in Threads : ~Sending(t)
  /\ inFlight \/ (\E t \in Threads : Sending(t)) => sendRegistered

\* The batch is whole while the kernel reads it: the event refers to the session
\* (owner) and to exactly the buffers last put on the wire, from WSASend until
\* its completion is picked up, whatever Send, Disconnect and the other threads
\* do meanwhile.  (After a race such a reference may be one the buffer does not
\* count: Crash.)
BatchRetained ==
  inFlight =>
    /\ owner
    /\ Len(sendBuffers) <= Len(wire)
    /\ sendBuffers = SubSeq(wire, Len(wire) - Len(sendBuffers) + 1, Len(wire))

\* The part of the batch the kernel has not taken yet.
Staged == IF inFlight THEN <<>> ELSE sendBuffers

\* No wakeup is lost: when a buffer waits and nobody has the token, a thread
\* is about to take it.  The exception the code has: a WSASend refused while
\* another thread was between its push and its exchange (ReleaseAfterFailure
\* does not look at the queue again), which callers that never overlapped cannot meet.
NoStrandedBuffer ==
  sendQueue # <<>> /\ ~sendRegistered /\ (~overlapped \/ ~postFailed)
     => \E t \in Threads : pc[t] = "exchange"

\* Every buffer pushed is in exactly one place (wire, batch, queue) and in
\* order across the three, until a post is refused or the queue is torn.
\* Until two calls overlap the second cannot happen, so only a refused post can
\* lose anything.
ExactStream ==
  ~postFailed /\ (~overlapped \/ ~raced)
     => wire \o Staged \o sendQueue = [i \in 1..accepted |-> i]

\* WSASend is never called with no buffers (its completion reports 0 bytes,
\* for which ProcessSend disconnects a healthy connection), except for a
\* winner whose buffer was lost or sent by somebody else.
NoEmptyPost ==
  \A t \in Threads :
    pc[t] = "post" /\ sendBuffers = <<>> => overlapped /\ (raced \/ postFailed)

\* As long as no two calls of Send overlap, as when only the packet handlers
\* of GameServer call it (SessionLife: one receive, one handler), the winner's
\* unlocked drain meets no push: the only other thread in the path, the
\* completion, drains under the lock.
SerialSendsAreSafe == ~overlapped => ~raced /\ \A t \in Threads : pc[t] # "dead"

\* Session.cpp:159-162 on the winner's branch: only the chosen thread is
\* active here.  While one thread drains, no other is inside sendQueue.
OnlyWinnerTouchesQueue ==
  \A t, u \in Threads : pc[t] = "drain" /\ pc[u] = "push" => t = u

-----------------------------------------------------------------------------
(* The promise to the callers                                                 *)

\* Session::Send implements one ordered stream of buffers.  Until the queue is
\* torn, what is on the wire is in push order and without duplicates, and skips
\* nothing before the first refused post.  Once two calls of Send have met inside
\* the queue it promises only that nothing is taken back from the wire: buffers
\* may be lost or go out twice.
Stream == INSTANCE SendStream WITH
  accepted <- accepted,
  backlog  <- Staged \o sendQueue,
  wire     <- wire,
  fault    <- postFailed,
  torn     <- raced

ImplementsStream == Stream!Spec

-----------------------------------------------------------------------------
(* Liveness                                                                  *)

\* Nothing more is promised: the connection is gone, a post was refused or
\* the queue was torn.
Excused == conn = "down" \/ postFailed \/ (raced /\ overlapped)

OnWire(n) == \E i \in DOMAIN wire : wire[i] = n

\* Every buffer pushed on a connection that stays up reaches the wire, though
\* most are pushed by threads that lost the exchange and returned.
EventuallySent ==
  \A n \in 1..MaxSends : (accepted >= n) ~> (OnWire(n) \/ Excused)

\* The token comes back whenever the connection stays up, also after a refused
\* post or a torn queue: no session falls silent for good.
TokenReturns == sendRegistered ~> (~sendRegistered \/ conn = "down")

\* Every call of Send returns, and so does every completion that has to wait
\* for rwLock and then holds it across RegisterSend: no deadlock.
CallsReturn ==
  \A t \in Threads : (pc[t] # "idle") ~> (pc[t] \in {"idle", "dead"})
=============================================================================
