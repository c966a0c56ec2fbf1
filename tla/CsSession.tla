----------------------------- MODULE CsSession -----------------------------
(***************************************************************************)
(* One session of the C# client from connect to disconnect, with its send  *)
(* path (ClientService.cs, Session.cs, ServerSession.cs).  Threads stand   *)
(* for the main thread, other callers of Send and the pool threads that    *)
(* run the completions.                                                    *)
(*                                                                         *)
(* lockObj guards sendQueue and bufferList, and a bufferList that is not   *)
(* empty is the token: whoever filled it has a SendAsync to finish.        *)
(* disconnected and the socket are NOT under the lock, so Disconnect can   *)
(* run between RegisterSend's check and its SendAsync.  Session.Connect    *)
(* does not take the lock either: a Send that finds the socket before the  *)
(* handlers are attached can lose its completion.  A thread's todo is      *)
(* what is left of the calls it is in; operations that complete at once    *)
(* call their handler from where they were started, under the re-entrant   *)
(* lock and inside a try ("EndTry").                                       *)
(***************************************************************************)
EXTENDS Naturals, Sequences

CONSTANTS
  Threads,
  NoThread,   \* lockObj when nobody holds it
  MaxSends    \* bound: how many buffers are sent

ASSUME ThreadsAssumption  == NoThread \notin Threads
ASSUME MaxSendsAssumption == MaxSends \in Nat

VARIABLES
  link,          \* ClientService: "start", "connecting" or "done"
  socket,        \* "none" before Session.Connect, "open", "closed"
  disconnected,  \* the flag Disconnect exchanges
  attached,      \* sendEvent.Completed has its handler, ProcessSend
  lockObj,       \* the thread holding it
  sendQueue,     \* numbers of the waiting buffers
  bufferList,    \* the batch
  sendPending,   \* SendAsync has said it will complete later
  recvPending,   \* so has ReceiveAsync
  todo,          \* of each thread
  accepted,      \* buffers enqueued so far: the n-th is number n
  wire,          \* history: the numbers handed to the socket, in order
  handed,        \* history: the batch in bufferList is among them
  stranded,      \* history: a batch was left in bufferList: no SendAsync took
                 \* it, or its completion found no handler
  callbacks,     \* history: calls of OnConnected and OnDisconnected
  aborted,       \* history: an exception cut Disconnect short and was caught
  crashed        \* history: one was not caught, and the process is gone

session == <<link, socket, disconnected, attached>>
sending == <<sendQueue, bufferList, sendPending>>
history == <<accepted, wire, handed, stranded, callbacks, aborted, crashed>>
vars == <<session, lockObj, sending, recvPending, todo, history>>

\* Thread t is at the entry.
At(t, entry) == ~crashed /\ todo[t] # <<>> /\ Head(todo[t]) = entry

Idle(t) == ~crashed /\ todo[t] = <<>>

Begin(t, entries) == todo' = [todo EXCEPT ![t] = entries]

\* The entry is done; the given ones come before the rest.
Continue(t, entries) == Begin(t, entries \o Tail(todo[t]))

\* The same inside a try, unless the rest is the end of one.
ContinueInTry(t, entries) ==
  LET rest == Tail(todo[t])
  IN  Begin(t, entries \o (IF rest # <<>> /\ Head(rest) = "EndTry" THEN rest
                                                        ELSE <<"EndTry">> \o rest))

Init ==
  /\ link = "start" /\ socket = "none" /\ disconnected = FALSE /\ attached = FALSE
  /\ lockObj = NoThread
  /\ sendQueue = <<>> /\ bufferList = <<>>
  /\ sendPending = FALSE /\ recvPending = FALSE
  /\ todo = [t \in Threads |-> <<>>]
  /\ accepted = 0 /\ wire = <<>> /\ handed = FALSE
  /\ stranded = FALSE /\ callbacks = <<>> /\ aborted = FALSE /\ crashed = FALSE

-----------------------------------------------------------------------------
(* ClientService                                                             *)

\* ConnectAsync completes later or at once.
RegisterConnect(t) ==
  /\ Idle(t)
  /\ link = "start"
  /\ \/ link' = "connecting" /\ UNCHANGED todo
     \/ link' = "done" /\ Begin(t, <<"OnConnectCompleted">>)
  /\ UNCHANGED <<socket, disconnected, attached, lockObj, sending, recvPending, history>>

ConnectCompletion(t) ==
  /\ Idle(t)
  /\ link = "connecting"
  /\ link' = "done"
  /\ Begin(t, <<"OnConnectCompleted">>)
  /\ UNCHANGED <<socket, disconnected, attached, lockObj, sending, recvPending, history>>

\* With the first line of Session.Connect, from which on Send finds the socket; a
\* failed connect is only reported.
OnConnectCompleted(t) ==
  /\ At(t, "OnConnectCompleted")
  /\ \/ socket' = "open" /\ Continue(t, <<"AttachHandlers", "OnConnected">>)
     \/ Continue(t, <<>>) /\ UNCHANGED socket
  /\ UNCHANGED <<link, disconnected, attached, lockObj, sending, recvPending, history>>

\* The rest of Session.Connect: the handlers of recvEvent and sendEvent, and the
\* first receive.
AttachHandlers(t) ==
  /\ At(t, "AttachHandlers")
  /\ attached' = TRUE
  /\ Continue(t, <<"RegisterRecv">>)
  /\ UNCHANGED <<link, socket, disconnected, lockObj, sending, recvPending, history>>

\* ServerSession.OnConnected sends the login request.
OnConnected(t) ==
  /\ At(t, "OnConnected")
  /\ callbacks' = Append(callbacks, "OnConnected")
  /\ Continue(t, IF accepted < MaxSends THEN <<"Send">> ELSE <<>>)
  /\ UNCHANGED <<session, lockObj, sending, recvPending, accepted, wire, handed,
                 stranded, aborted, crashed>>

-----------------------------------------------------------------------------
(* Receiving: CsRecv has the detail                                          *)

\* What ProcessRecv goes on to: with data the next receive, unless a handler has
\* thrown; without data the end.  OnRecvPacket changes nothing here: it only prints.
Received == {<<"RegisterRecv">>, <<>>, <<"Disconnect">>}

\* ReceiveAsync stays pending, completes at once, or throws, which is caught.
RegisterRecv(t) ==
  /\ At(t, "RegisterRecv")
  /\ \/ ~disconnected /\ socket = "open" /\ recvPending' = TRUE /\ Continue(t, <<>>)
     \/ /\ ~disconnected /\ socket = "open"
        /\ \E entries \in Received : ContinueInTry(t, entries)
        /\ UNCHANGED recvPending
     \/ Continue(t, <<>>) /\ UNCHANGED recvPending
  /\ UNCHANGED <<session, lockObj, sending, history>>

\* Bytes have come, or the connection has ended.
ProcessRecv(t) ==
  /\ Idle(t)
  /\ recvPending
  /\ recvPending' = FALSE
  /\ \E entries \in Received : Begin(t, entries)
  /\ UNCHANGED <<session, lockObj, sending, history>>

-----------------------------------------------------------------------------
(* Sending                                                                   *)

\* A call of Send, whatever the state of the session.
CallSend(t) ==
  /\ Idle(t)
  /\ accepted < MaxSends
  /\ Begin(t, <<"Send">>)
  /\ UNCHANGED <<session, lockObj, sending, recvPending, history>>

\* Mutant: every call registers a send.
SendAlways(t) ==
  /\ At(t, "Send")
  /\ lockObj = NoThread
  /\ accepted < MaxSends
  /\ lockObj' = t
  /\ accepted' = accepted + 1
  /\ sendQueue' = Append(sendQueue, accepted + 1)
  /\ Continue(t, <<"RegisterSend", "Unlock">>)
  /\ UNCHANGED <<session, bufferList, sendPending, recvPending, wire, handed,
                 stranded, callbacks, aborted, crashed>>

\* Mutant: the buffer goes into the queue and is not counted.
SendUncounted(t) ==
  /\ At(t, "Send")
  /\ lockObj = NoThread
  /\ lockObj' = t
  /\ sendQueue' = Append(sendQueue, accepted + 1)
  /\ Continue(t, IF bufferList = <<>> THEN <<"RegisterSend", "Unlock">> ELSE <<"Unlock">>)
  /\ UNCHANGED <<session, bufferList, sendPending, recvPending, history>>

\* Under the lock; only an empty bufferList lets the caller register a send.
\* Bound: of two callers that are past the check of CallSend the later returns.
Send(t) ==
  /\ At(t, "Send")
  /\ lockObj = NoThread
  /\ IF accepted < MaxSends
       THEN /\ lockObj' = t
            /\ accepted' = accepted + 1
            /\ sendQueue' = Append(sendQueue, accepted + 1)
            /\ Continue(t, IF bufferList = <<>> THEN <<"RegisterSend", "Unlock">>
                                                ELSE <<"Unlock">>)
       ELSE Continue(t, <<>>) /\ UNCHANGED <<lockObj, accepted, sendQueue>>
  /\ UNCHANGED <<session, bufferList, sendPending, recvPending, wire, handed,
                 stranded, callbacks, aborted, crashed>>

\* Leaves the outermost lock statement.
Unlock(t) ==
  /\ At(t, "Unlock")
  /\ lockObj' = NoThread
  /\ Continue(t, <<>>)
  /\ UNCHANGED <<session, sending, recvPending, history>>

\* Mutant: a session that has disconnected goes on sending.
RegisterSendAnyway(t) ==
  /\ At(t, "RegisterSend")
  /\ bufferList' = bufferList \o sendQueue
  /\ sendQueue' = <<>>
  /\ Continue(t, <<"SendAsync">>)
  /\ UNCHANGED <<session, lockObj, sendPending, recvPending, history>>

\* Under the lock: everything that waits becomes the batch.
RegisterSend(t) ==
  /\ At(t, "RegisterSend")
  /\ IF disconnected
       THEN Continue(t, <<>>) /\ UNCHANGED <<sendQueue, bufferList>>
       ELSE /\ bufferList' = bufferList \o sendQueue
            /\ sendQueue' = <<>>
            /\ Continue(t, <<"SendAsync">>)
  /\ UNCHANGED <<session, lockObj, sendPending, recvPending, history>>

\* Before Connect there is no socket, and a closed one throws; either way the
\* batch stays where it is.
NoSendAsync(t) ==
  /\ At(t, "SendAsync")
  /\ Continue(t, <<>>)
  /\ stranded' = TRUE
  /\ UNCHANGED <<session, lockObj, sending, recvPending, accepted, wire, handed,
                 callbacks, aborted, crashed>>

\* The socket takes the batch and completes later or at once, or refuses it.
SendAsync(t) ==
  /\ At(t, "SendAsync")
  /\ socket = "open"
  /\ \/ /\ handed' = TRUE
        /\ wire' = wire \o bufferList
        /\ \/ sendPending' = TRUE /\ Continue(t, <<>>)
           \/ ContinueInTry(t, <<"SendDone">>) /\ UNCHANGED sendPending
     \/ ContinueInTry(t, <<"Disconnect">>) /\ UNCHANGED <<handed, wire, sendPending>>
  /\ UNCHANGED <<session, lockObj, sendQueue, bufferList, recvPending, accepted,
                 stranded, callbacks, aborted, crashed>>

\* The completion of a send that was pending, successful or not.
ProcessSend(t) ==
  /\ Idle(t)
  /\ sendPending /\ attached
  /\ sendPending' = FALSE
  /\ \E entry \in {"SendDone", "Disconnect"} : Begin(t, <<"Lock", entry, "Unlock">>)
  /\ UNCHANGED <<session, lockObj, sendQueue, bufferList, recvPending, history>>

\* The completion that comes before the handler is attached: nobody is called, and
\* nobody will empty bufferList.
SendUnheard ==
  /\ ~crashed
  /\ sendPending /\ ~attached
  /\ sendPending' = FALSE
  /\ stranded' = TRUE
  /\ UNCHANGED <<session, lockObj, sendQueue, bufferList, recvPending, todo, accepted,
                 wire, handed, callbacks, aborted, crashed>>

Lock(t) ==
  /\ At(t, "Lock")
  /\ lockObj = NoThread
  /\ lockObj' = t
  /\ Continue(t, <<>>)
  /\ UNCHANGED <<session, sending, recvPending, history>>

\* Mutant: what came meanwhile waits for the next call of Send.
SendDoneIdle(t) ==
  /\ At(t, "SendDone")
  /\ bufferList' = <<>>
  /\ handed' = FALSE
  /\ Continue(t, <<>>)
  /\ UNCHANGED <<session, lockObj, sendQueue, sendPending, recvPending, accepted,
                 wire, stranded, callbacks, aborted, crashed>>

\* Mutant: the batch is not cleared and goes out again.
SendDoneKeep(t) ==
  /\ At(t, "SendDone")
  /\ handed' = FALSE
  /\ Continue(t, IF sendQueue = <<>> THEN <<>> ELSE <<"RegisterSend">>)
  /\ UNCHANGED <<session, lockObj, sending, recvPending, accepted, wire, stranded,
                 callbacks, aborted, crashed>>

\* Under the lock: the batch is done with, and what came meanwhile follows.
SendDone(t) ==
  /\ At(t, "SendDone")
  /\ bufferList' = <<>>
  /\ handed' = FALSE
  /\ Continue(t, IF sendQueue = <<>> THEN <<>> ELSE <<"RegisterSend">>)
  /\ UNCHANGED <<session, lockObj, sendQueue, sendPending, recvPending, accepted,
                 wire, stranded, callbacks, aborted, crashed>>

-----------------------------------------------------------------------------
(* Disconnecting                                                             *)

\* Only the first call goes on; a socket without RemoteEndPoint is not reported.
Disconnect(t) ==
  /\ At(t, "Disconnect")
  /\ disconnected' = TRUE
  /\ \E entries \in {<<"OnDisconnected", "Shutdown">>, <<"Shutdown">>} :
       Continue(t, IF disconnected THEN <<>>
                   ELSE IF socket = "none" THEN <<"Clear">> ELSE entries)
  /\ UNCHANGED <<link, socket, attached, lockObj, sending, recvPending, history>>

OnDisconnected(t) ==
  /\ At(t, "OnDisconnected")
  /\ callbacks' = Append(callbacks, "OnDisconnected")
  /\ Continue(t, <<>>)
  /\ UNCHANGED <<session, lockObj, sending, recvPending, accepted, wire, handed,
                 stranded, aborted, crashed>>

\* Shutdown and Close.
Shutdown(t) ==
  /\ At(t, "Shutdown")
  /\ socket' = "closed"
  /\ Continue(t, <<"Clear">>)
  /\ UNCHANGED <<link, disconnected, attached, lockObj, sending, recvPending, history>>

\* Shutdown throws on a socket that is no longer connected: past Close and Clear
\* to the innermost try, or out of the completion.
ShutdownThrows(t) ==
  LET tries == {i \in DOMAIN todo[t] : todo[t][i] = "EndTry"}
  IN  /\ At(t, "Shutdown")
      /\ IF tries = {}
           THEN crashed' = TRUE /\ UNCHANGED <<todo, aborted>>
           ELSE \E i \in tries :
                  /\ \A j \in tries : i <= j
                  /\ Begin(t, SubSeq(todo[t], i + 1, Len(todo[t])))
                  /\ aborted' = TRUE
                  /\ UNCHANGED crashed
      /\ UNCHANGED <<session, lockObj, sending, recvPending, accepted, wire, handed,
                     stranded, callbacks>>

\* Under the lock, which a failed send still holds.
Clear(t) ==
  /\ At(t, "Clear")
  /\ lockObj \in {NoThread, t}
  /\ sendQueue' = <<>>
  /\ bufferList' = <<>>
  /\ handed' = FALSE
  /\ Continue(t, <<>>)
  /\ UNCHANGED <<session, lockObj, sendPending, recvPending, accepted, wire, stranded,
                 callbacks, aborted, crashed>>

EndTry(t) ==
  /\ At(t, "EndTry")
  /\ Continue(t, <<>>)
  /\ UNCHANGED <<session, lockObj, sending, recvPending, history>>

-----------------------------------------------------------------------------

\* Thread t goes on with the calls it is in.
Step(t) ==
  \/ OnConnectCompleted(t)
  \/ AttachHandlers(t)
  \/ OnConnected(t)
  \/ RegisterRecv(t)
  \/ Send(t)
  \/ Unlock(t)
  \/ RegisterSend(t)
  \/ NoSendAsync(t)
  \/ SendAsync(t)
  \/ Lock(t)
  \/ SendDone(t)
  \/ Disconnect(t)
  \/ OnDisconnected(t)
  \/ Shutdown(t)
  \/ ShutdownThrows(t)
  \/ Clear(t)
  \/ EndTry(t)

\* Nothing is left to do.
Finished ==
  /\ \/ crashed
     \/ /\ link = "done" /\ accepted = MaxSends
        /\ ~sendPending /\ ~recvPending
        /\ \A t \in Threads : Idle(t)
  /\ UNCHANGED vars

Next ==
  \/ \E t \in Threads :
       \/ RegisterConnect(t)
       \/ ConnectCompletion(t)
       \/ ProcessRecv(t)
       \/ CallSend(t)
       \/ ProcessSend(t)
       \/ Step(t)
  \/ SendUnheard
  \/ Finished

Spec == Init /\ [][Next]_vars

\* Threads keep running, and a pending send completes: the pool serves completions
\* in turn, so receives cannot keep its threads from it for ever.
FairSpec ==
  /\ Spec
  /\ \A t \in Threads : WF_vars(Step(t))
  /\ SF_vars(\E t \in Threads : ProcessSend(t))

-----------------------------------------------------------------------------
(* Type invariant                                                            *)

Entries ==
  {"OnConnectCompleted", "AttachHandlers", "OnConnected", "RegisterRecv", "Send",
   "Unlock", "RegisterSend", "SendAsync", "Lock", "SendDone", "Disconnect",
   "OnDisconnected", "Shutdown", "Clear", "EndTry"}

TypeOK ==
  /\ link \in {"start", "connecting", "done"}
  /\ socket \in {"none", "open", "closed"}
  /\ disconnected \in BOOLEAN
  /\ attached \in BOOLEAN
  /\ lockObj \in Threads \union {NoThread}
  /\ sendQueue \in Seq(1..accepted)
  /\ bufferList \in Seq(1..accepted)
  /\ sendPending \in BOOLEAN
  /\ recvPending \in BOOLEAN
  /\ todo \in [Threads -> Seq(Entries)]
  /\ accepted \in 0..MaxSends
  /\ wire \in Seq(1..accepted)
  /\ handed \in BOOLEAN
  /\ stranded \in BOOLEAN
  /\ callbacks \in Seq({"OnConnected", "OnDisconnected"})
  /\ aborted \in BOOLEAN
  /\ crashed \in BOOLEAN

-----------------------------------------------------------------------------
(* Safety                                                                    *)

\* Thread t still has the entry before it.
Owes(t, entry) == \E i \in DOMAIN todo[t] : todo[t][i] = entry

\* Threads that are about to call SendAsync or to finish a send that completed.
Senders == {t \in Threads : Owes(t, "SendAsync") \/ Owes(t, "SendDone")}

\* sendEvent serves one send at a time.  While it is out nobody else is sending
\* and, until Clear, bufferList is still the batch the socket reads from (the
\* last one on the wire); and a bufferList that is not empty, which makes every
\* Send only enqueue, has somebody who will empty it, unless no SendAsync took it
\* or the send completed while Session.Connect was still attaching the handlers.
OneSend ==
  /\ \A t, u \in Senders : t = u
  /\ sendPending => Senders = {}
  /\ handed => \E n \in 0..Len(wire) : bufferList = SubSeq(wire, n + 1, Len(wire))
  /\ bufferList # <<>> =>
       \/ sendPending \/ Senders # {}
       \/ disconnected \/ \E t \in Threads : Owes(t, "Disconnect")
       \/ stranded

Calls(callback) == {i \in DOMAIN callbacks : callbacks[i] = callback}

\* Threads inside the part of Disconnect that only one may enter.
Closing == {t \in Threads :
              \E entry \in {"OnDisconnected", "Shutdown", "Clear"} : Owes(t, entry)}

\* However many completions fail at the same time, a session connects and
\* disconnects once, and one thread closes it.  When that thread is through,
\* no RegisterSend that had seen the session connected has filled bufferList
\* behind its Clear.
EndsOnce ==
  /\ \A i, j \in Calls("OnConnected") : i = j
  /\ \A i, j \in Calls("OnDisconnected") : i = j
  /\ \A t, u \in Closing : t = u
  /\ Closing # {} => disconnected
  /\ disconnected /\ Closing = {} /\ ~aborted => bufferList = <<>>

-----------------------------------------------------------------------------
(* The abstract stream                                                       *)

Staged == IF handed THEN <<>> ELSE bufferList

Stream == INSTANCE SendStream
            WITH backlog <- Staged \o sendQueue, fault <- stranded \/ disconnected,
                 torn <- FALSE

\* The buffers sent on a session reach the socket in the order of the calls of
\* Send and each once; one may be missing only after a batch was stranded or
\* the session disconnected.
ImplementsStream == Stream!Spec

-----------------------------------------------------------------------------
(* Liveness                                                                  *)

\* Every buffer is handed to the socket unless the session ends or a batch was
\* stranded, which both a Send before Session.Connect and one in the middle of it
\* can do: one that a Send left in the queue is picked up by the completion.
EventuallySent ==
  \A n \in 1..MaxSends :
    accepted >= n ~> \/ \E i \in DOMAIN wire : wire[i] = n
                     \/ stranded \/ disconnected \/ crashed
=============================================================================
