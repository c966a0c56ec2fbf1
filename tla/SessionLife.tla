---------------------------- MODULE SessionLife ----------------------------
(***************************************************************************)
(* The life of the sessions of one process, a server or a client: accepted *)
(* by Listener or connected by ClientService, listed by Service and        *)
(* SessionManager, received from, sent to, disconnected and unlisted, by   *)
(* the workers of one completion port (IocpCore).                          *)
(*                                                                         *)
(* A worker's task is what is left of the calls it is in: the completion   *)
(* it picked up gives the first entries, and a call inside a handler puts  *)
(* its own in front.  Each entry is one stretch of code, named after the   *)
(* function.  The worker's task, an event's owner, an AcceptEvent, the     *)
(* client's service and the two lists are the references that keep a       *)
(* session alive.                                                          *)
(***************************************************************************)
EXTENDS Integers, Sequences, FiniteSets

CONSTANTS
  Workers,       \* the threads in GetQueuedCompletionStatus
  Sessions,      \* bound: the session objects alive at once
  AcceptEvents,  \* acceptCount of them in the code
  NoSession, NoAccept

ASSUME NamesAssumption == NoSession \notin Sessions /\ NoAccept \notin AcceptEvents

Events == {"connect", "recv", "send", "disconnect"}

VARIABLES
  connected,       \* the sessions with isConnected
  owner,           \* <<s, e>>: event e of session s has its owner set
  inFlight,        \* <<s, e>>: a completion of e is to come
  sendRegistered,  \* the sessions whose send token is taken
  sendWaiting,     \* the sessions with something in sendQueue
  sessions,        \* Service::sessions
  sessionCount,    \* Service::sessionCount
  clients,         \* SessionManager::sessions
  armed,           \* AcceptEvent::session
  accepting,       \* the AcceptEvents with an AcceptEx outstanding
  clientSession,   \* ClientService::session; NoSession in a server
  task,            \* of each worker
  calls,           \* history: OnConnected and OnDisconnected of each session
  deaf,            \* history: a WSARecv was refused and HandleError went on
  misread,         \* history: success of DisconnectEx was taken for an error
  abandoned,       \* history: failure of DisconnectEx was not noticed
  crash            \* "owner": a completion came and its owner was null;
                   \* "session": RegisterAccept got no session to arm an event
                   \* with, or has used up the stack

events  == <<owner, inFlight>>
sending == <<sendRegistered, sendWaiting>>
lists   == <<sessions, sessionCount, clients>>
accepts == <<armed, accepting, clientSession>>
history == <<calls, deaf, misread, abandoned>>
vars == <<connected, events, sending, lists, accepts, task, history, crash>>

crashed == crash # "no"

Idle == [session |-> NoSession, accept |-> NoAccept, todo |-> <<>>]

\* Something refers to s; without it the object is gone.
Alive(s) ==
  \/ \E e \in Events : <<s, e>> \in owner
  \/ s \in sessions \cup clients \cup {clientSession}
  \/ \E a \in AcceptEvents : armed[a] = s
  \/ \E w \in Workers : task[w].session = s

\* A name for the next session object.
Free == {s \in Sessions : ~Alive(s) /\ \A e \in Events : <<s, e>> \notin inFlight}

InTask(w, entry) == \E i \in DOMAIN task[w].todo : task[w].todo[i] = entry

\* Worker w is at the entry, in session s.
At(w, s, entry) ==
  /\ ~crashed
  /\ task[w].todo # <<>>
  /\ Head(task[w].todo) = entry
  /\ s = task[w].session

\* The entry is done, and the given ones come before the rest.
Continue(w, entries) ==
  LET rest == entries \o Tail(task[w].todo)
  IN  task' = [task EXCEPT ![w] = IF rest = <<>> THEN Idle ELSE [@ EXCEPT !.todo = rest]]

\* A server's StartAccept has armed its events, before the workers start.
InitServer ==
  /\ clientSession = NoSession
  /\ armed \in [AcceptEvents -> Sessions]
  /\ \A a, b \in AcceptEvents : armed[a] = armed[b] => a = b
  /\ accepting = AcceptEvents
  /\ task = [w \in Workers |-> Idle]

\* A client has created its session: ClientService::Start is about to connect it,
\* on a thread that counts as one of the workers.
InitClient ==
  /\ clientSession \in Sessions
  /\ armed = [a \in AcceptEvents |-> NoSession]
  /\ accepting = {}
  /\ \E main \in Workers :
       task = [[w \in Workers |-> Idle] EXCEPT
                 ![main] = [Idle EXCEPT !.session = clientSession,
                                        !.todo = <<"RegisterConnect">>]]

Init ==
  /\ connected = {} /\ owner = {} /\ inFlight = {}
  /\ sendRegistered = {} /\ sendWaiting = {}
  /\ sessions = {} /\ sessionCount = 0 /\ clients = {}
  /\ InitServer \/ InitClient
  /\ calls = [s \in Sessions |-> <<>>]
  /\ deaf = {} /\ misread = {} /\ abandoned = {}
  /\ crash = "no"

-----------------------------------------------------------------------------
(* Listener, and ClientService's call of RegisterConnect                     *)

\* Mutant: the first receive is registered before OnConnected.
ConnectEntriesRecvFirst == <<"ProcessConnect", "AddSession", "RegisterRecv", "OnConnected">>

\* Mutant: OnConnected registers a receive of its own.
ConnectEntriesTwice ==
  <<"ProcessConnect", "AddSession", "OnConnected", "RegisterRecv", "RegisterRecv">>

\* Session::ProcessConnect, called by Listener or for a CONNECT completion.
ConnectEntries == <<"ProcessConnect", "AddSession", "OnConnected", "RegisterRecv">>

\* Mutant: an accept that cannot be completed returns early.
AcceptEntriesEarly == {<<>>, ConnectEntries \o <<"RegisterAccept">>}

\* The context of the socket or its peer cannot be had, or the session is
\* connected; the event is armed again in either case.
AcceptEntries == {<<"RegisterAccept">>, ConnectEntries \o <<"RegisterAccept">>}

\* Bound: an accept is served only if a new session can be made behind it.
SessionLeft ==
  Cardinality({w \in Workers : InTask(w, "RegisterAccept")}) < Cardinality(Free)

\* Mutant: the session is moved out of the event.
ProcessAcceptMoves(w) ==
  /\ ~crashed
  /\ task[w] = Idle
  /\ SessionLeft
  /\ \E a \in accepting, entries \in AcceptEntries :
       /\ accepting' = accepting \ {a}
       /\ armed' = [armed EXCEPT ![a] = NoSession]
       /\ task' = [task EXCEPT ![w] = [session |-> armed[a], accept |-> a, todo |-> entries]]
  /\ UNCHANGED <<connected, events, sending, lists, clientSession, history, crash>>

\* Listener::ProcessAccept; the event keeps its session until it is armed again.
ProcessAccept(w) ==
  /\ ~crashed
  /\ task[w] = Idle
  /\ SessionLeft
  /\ \E a \in accepting, entries \in AcceptEntries :
       /\ accepting' = accepting \ {a}
       /\ task' = [task EXCEPT ![w] = [session |-> armed[a], accept |-> a, todo |-> entries]]
  /\ UNCHANGED <<connected, events, sending, lists, armed, clientSession, history, crash>>

\* Listener::RegisterAccept with CreateSession.  A refused AcceptEx is tried
\* again with another new session, one call deeper; here until it is accepted.
RegisterAccept(w, s) ==
  /\ At(w, s, "RegisterAccept")
  /\ \E new \in Free :
       /\ armed' = [armed EXCEPT ![task[w].accept] = new]
       /\ connected' = connected \ {new}
       /\ sendRegistered' = sendRegistered \ {new}
       /\ sendWaiting' = sendWaiting \ {new}
       /\ calls' = [calls EXCEPT ![new] = <<>>]
       /\ deaf' = deaf \ {new}
       /\ misread' = misread \ {new}
       /\ abandoned' = abandoned \ {new}
  /\ accepting' = accepting \cup {task[w].accept}
  /\ Continue(w, <<>>)
  /\ UNCHANGED <<events, lists, clientSession, crash>>

\* It fails: CreateSession cannot register the socket with the port and returns
\* null, which RegisterAccept dereferences, or AcceptEx goes on being refused until
\* the stack is used up.
RegisterAcceptNull(w, s) ==
  /\ At(w, s, "RegisterAccept")
  /\ crash' = "session"
  /\ UNCHANGED <<connected, events, sending, lists, accepts, task, history>>

\* What is left to do behind a refused operation: HandleError, which calls
\* Disconnect for a reset or aborted connection only, and the cleaning up.
Refused(cleanup) == {<<"Disconnect", cleanup>>, <<cleanup>>}

\* Session::RegisterConnect of a client: it gives up before ConnectEx, or
\* ConnectEx is accepted, or refused.
RegisterConnect(w, s) ==
  /\ At(w, s, "RegisterConnect")
  /\ \/ Continue(w, <<>>) /\ UNCHANGED events
     \/ /\ owner' = owner \cup {<<s, "connect">>}
        /\ inFlight' = inFlight \cup {<<s, "connect">>}
        /\ Continue(w, <<>>)
     \/ /\ owner' = owner \cup {<<s, "connect">>}
        /\ \E entries \in Refused("ConnectRefused") : Continue(w, entries)
        /\ UNCHANGED inFlight
  /\ UNCHANGED <<connected, sending, lists, accepts, history, crash>>

ConnectRefused(w, s) ==
  /\ At(w, s, "ConnectRefused")
  /\ owner' = owner \ {<<s, "connect">>}
  /\ Continue(w, <<>>)
  /\ UNCHANGED <<connected, inFlight, sending, lists, accepts, history, crash>>

-----------------------------------------------------------------------------
(* Connecting                                                                *)

ProcessConnect(w, s) ==
  /\ At(w, s, "ProcessConnect")
  /\ connected' = connected \cup {s}
  /\ Continue(w, <<>>)
  /\ UNCHANGED <<events, sending, lists, accepts, history, crash>>

AddSession(w, s) ==
  /\ At(w, s, "AddSession")
  /\ sessionCount' = sessionCount + 1
  /\ sessions' = sessions \cup {s}
  /\ Continue(w, <<>>)
  /\ UNCHANGED <<connected, events, sending, clients, accepts, history, crash>>

\* ClientSession::OnConnected, with SessionManager::Add, in a server;
\* ServerSession::OnConnected, which sends the login message, in a client.
OnConnected(w, s) ==
  /\ At(w, s, "OnConnected")
  /\ calls' = [calls EXCEPT ![s] = Append(@, "OnConnected")]
  /\ IF s = clientSession
       THEN Continue(w, <<"Send">>) /\ UNCHANGED clients
       ELSE Continue(w, <<>>) /\ clients' = clients \cup {s}
  /\ UNCHANGED <<connected, events, sending, sessions, sessionCount, accepts,
                 deaf, misread, abandoned, crash>>

-----------------------------------------------------------------------------
(* Receiving and sending                                                     *)

\* Mutant: WSA_IO_PENDING is not told from an error.
RegisterUnchecked(w, s, e, cleanup) ==
  \/ /\ s \notin connected
     /\ Continue(w, <<>>)
     /\ UNCHANGED <<events, deaf>>
  \/ /\ s \in connected
     /\ owner' = owner \cup {<<s, e>>}
     /\ inFlight' \in {inFlight, inFlight \cup {<<s, e>>}}
     /\ Continue(w, <<cleanup>>)
     /\ UNCHANGED deaf

\* Not connected: nothing.  Else owner is set, and the operation is accepted or
\* refused.
Register(w, s, e, cleanup) ==
  \/ /\ s \notin connected
     /\ Continue(w, <<>>)
     /\ UNCHANGED <<events, deaf>>
  \/ /\ s \in connected
     /\ owner' = owner \cup {<<s, e>>}
     /\ inFlight' = inFlight \cup {<<s, e>>}
     /\ Continue(w, <<>>)
     /\ UNCHANGED deaf
  \/ /\ s \in connected
     /\ owner' = owner \cup {<<s, e>>}
     /\ \E entries \in Refused(cleanup) :
          /\ Continue(w, entries)
          /\ deaf' = IF e = "recv" /\ entries = <<cleanup>> THEN deaf \cup {s} ELSE deaf
     /\ UNCHANGED inFlight

RegisterRecv(w, s) ==
  /\ At(w, s, "RegisterRecv")
  /\ Register(w, s, "recv", "RecvRefused")
  /\ UNCHANGED <<connected, sending, lists, accepts, calls, misread, abandoned, crash>>

RecvRefused(w, s) ==
  /\ At(w, s, "RecvRefused")
  /\ owner' = owner \ {<<s, "recv">>}
  /\ Continue(w, <<>>)
  /\ UNCHANGED <<connected, inFlight, sending, lists, accepts, history, crash>>

\* Session::Send, called by Handle_LoginRequest and the client's OnConnected.
Send(w, s) ==
  /\ At(w, s, "Send")
  /\ IF s \in connected
       THEN /\ sendWaiting' = sendWaiting \cup {s}
            /\ sendRegistered' = sendRegistered \cup {s}
            /\ Continue(w, IF s \in sendRegistered THEN <<>> ELSE <<"RegisterSend">>)
       ELSE Continue(w, <<>>) /\ UNCHANGED sending
  /\ UNCHANGED <<connected, events, lists, accepts, history, crash>>

\* Session::RegisterSend, for the winner of Send or inside ProcessSend.
PostSend(w, s) ==
  /\ Register(w, s, "send", "SendRefused")
  /\ sendWaiting' = IF s \in connected THEN sendWaiting \ {s} ELSE sendWaiting
  /\ UNCHANGED sendRegistered

RegisterSend(w, s) ==
  /\ At(w, s, "RegisterSend")
  /\ PostSend(w, s)
  /\ UNCHANGED <<connected, lists, accepts, calls, misread, abandoned, crash>>

SendRefused(w, s) ==
  /\ At(w, s, "SendRefused")
  /\ owner' = owner \ {<<s, "send">>}
  /\ sendRegistered' = sendRegistered \ {s}
  /\ Continue(w, <<>>)
  /\ UNCHANGED <<connected, inFlight, sendWaiting, lists, accepts, history, crash>>

\* The part of Session::ProcessSend under the lock.
ProcessSend(w, s) ==
  /\ At(w, s, "ProcessSend")
  /\ IF s \in sendWaiting
       THEN PostSend(w, s)
       ELSE /\ sendRegistered' = sendRegistered \ {s}
            /\ Continue(w, <<>>)
            /\ UNCHANGED <<events, sendWaiting, deaf>>
  /\ UNCHANGED <<connected, lists, accepts, calls, misread, abandoned, crash>>

-----------------------------------------------------------------------------
(* Disconnecting                                                             *)

\* Mutant: every call goes on.
DisconnectEach(w, s) ==
  /\ At(w, s, "Disconnect")
  /\ connected' = connected \ {s}
  /\ Continue(w, <<"RegisterDisconnect">>)
  /\ UNCHANGED <<events, sending, lists, accepts, history, crash>>

\* Mutant: the session is only marked.
DisconnectMarks(w, s) ==
  /\ At(w, s, "Disconnect")
  /\ connected' = connected \ {s}
  /\ Continue(w, <<>>)
  /\ UNCHANGED <<events, sending, lists, accepts, history, crash>>

\* Session::Disconnect: only the first one goes on.
Disconnect(w, s) ==
  /\ At(w, s, "Disconnect")
  /\ connected' = connected \ {s}
  /\ Continue(w, IF s \in connected THEN <<"RegisterDisconnect">> ELSE <<>>)
  /\ UNCHANGED <<events, sending, lists, accepts, history, crash>>

\* DisconnectEx returns FALSE and is pending; or TRUE, with the completion still
\* to come, and the last error of some earlier call is not WSA_IO_PENDING; or
\* FALSE because it failed, which nobody looks at.
RegisterDisconnect(w, s) ==
  /\ At(w, s, "RegisterDisconnect")
  /\ owner' = owner \cup {<<s, "disconnect">>}
  /\ \/ /\ inFlight' = inFlight \cup {<<s, "disconnect">>}
        /\ Continue(w, <<>>)
        /\ UNCHANGED <<misread, abandoned>>
     \/ /\ inFlight' = inFlight \cup {<<s, "disconnect">>}
        /\ misread' = misread \cup {s}
        /\ Continue(w, <<"DisconnectRefused">>)
        /\ UNCHANGED abandoned
     \/ /\ abandoned' = abandoned \cup {s}
        /\ Continue(w, <<>>)
        /\ UNCHANGED <<inFlight, misread>>
  /\ UNCHANGED <<connected, sending, lists, accepts, calls, deaf, crash>>

DisconnectRefused(w, s) ==
  /\ At(w, s, "DisconnectRefused")
  /\ owner' = owner \ {<<s, "disconnect">>}
  /\ Continue(w, <<>>)
  /\ UNCHANGED <<connected, inFlight, sending, lists, accepts, history, crash>>

\* ClientSession::OnDisconnected, with SessionManager::Remove; a client's does
\* nothing.
OnDisconnected(w, s) ==
  /\ At(w, s, "OnDisconnected")
  /\ clients' = clients \ {s}
  /\ calls' = [calls EXCEPT ![s] = Append(@, "OnDisconnected")]
  /\ Continue(w, <<>>)
  /\ UNCHANGED <<connected, events, sending, sessions, sessionCount, accepts,
                 deaf, misread, abandoned, crash>>

RemoveSession(w, s) ==
  /\ At(w, s, "RemoveSession")
  /\ sessions' = sessions \ {s}
  /\ sessionCount' = sessionCount - 1
  /\ Continue(w, <<>>)
  /\ UNCHANGED <<connected, events, sending, clients, accepts, history, crash>>

-----------------------------------------------------------------------------
(* IocpCore::ObserveIO                                                       *)

\* Mutant: a handled receive does not register the next.
HandlersReplyOnly(e) ==
  CASE e = "connect"    -> {ConnectEntries}
    [] e = "recv"       -> {<<"Disconnect">>, <<"Send">>}
    [] e = "send"       -> {<<"ProcessSend">>, <<"Disconnect", "ProcessSend">>}
    [] e = "disconnect" -> {<<"OnDisconnected", "RemoveSession">>}

\* Mutant: the service is not told of the disconnect.
HandlersForget(e) ==
  CASE e = "connect"    -> {ConnectEntries}
    [] e = "recv"       -> {<<"Disconnect">>, <<"RegisterRecv">>}
    [] e = "send"       -> {<<"ProcessSend">>, <<"Disconnect", "ProcessSend">>}
    [] e = "disconnect" -> {<<"OnDisconnected">>}

\* Session::ObserveIO behind the reset of owner: a connect, even one that failed
\* (IocpCore does not pass the error on); a receive of 0 bytes, without a
\* reply, with one, or read too far behind one; a send, of 0 bytes or not; the
\* disconnect.  Bound: one reply to a receive.
Handlers(e) ==
  CASE e = "connect"    -> {ConnectEntries}
    [] e = "recv"       -> {<<"Disconnect">>, <<"RegisterRecv">>,
                            <<"Send", "RegisterRecv">>, <<"Send", "Disconnect">>}
    [] e = "send"       -> {<<"ProcessSend">>, <<"Disconnect", "ProcessSend">>}
    [] e = "disconnect" -> {<<"OnDisconnected", "RemoveSession">>}

\* A completion, successful or not: its owner is dereferenced and handles it.
ObserveIO(w, s, e) ==
  /\ ~crashed
  /\ task[w] = Idle
  /\ <<s, e>> \in inFlight
  /\ inFlight' = inFlight \ {<<s, e>>}
  /\ owner' = owner \ {<<s, e>>}
  /\ IF <<s, e>> \in owner
       THEN /\ \E entries \in Handlers(e) :
                 task' = [task EXCEPT ![w] = [Idle EXCEPT !.session = s, !.todo = entries]]
            /\ UNCHANGED crash
       ELSE crash' = "owner" /\ UNCHANGED task
  /\ UNCHANGED <<connected, sending, lists, accepts, history>>

-----------------------------------------------------------------------------
Step(w) ==
  \E s \in Sessions :
    \/ RegisterAccept(w, s) \/ RegisterAcceptNull(w, s)
    \/ RegisterConnect(w, s) \/ ConnectRefused(w, s)
    \/ ProcessConnect(w, s) \/ AddSession(w, s) \/ OnConnected(w, s)
    \/ RegisterRecv(w, s) \/ RecvRefused(w, s)
    \/ Send(w, s) \/ RegisterSend(w, s) \/ SendRefused(w, s) \/ ProcessSend(w, s)
    \/ Disconnect(w, s) \/ RegisterDisconnect(w, s) \/ DisconnectRefused(w, s)
    \/ OnDisconnected(w, s) \/ RemoveSession(w, s)

\* The process is dead, a client's session has ended, or no session is left for
\* another accept.
Finished ==
  /\ \/ crashed
     \/ /\ inFlight = {}
        /\ \A w \in Workers : task[w] = Idle
        /\ ~SessionLeft \/ clientSession # NoSession
  /\ UNCHANGED vars

Next ==
  \/ \E w \in Workers :
       \/ ProcessAccept(w)
       \/ \E s \in Sessions, e \in Events : ObserveIO(w, s, e)
       \/ Step(w)
  \/ Finished

Spec == Init /\ [][Next]_vars

-----------------------------------------------------------------------------
(* Type invariant                                                            *)

Entries ==
  {"RegisterAccept", "RegisterConnect", "ConnectRefused",
   "ProcessConnect", "AddSession", "OnConnected",
   "RegisterRecv", "RecvRefused", "Send", "RegisterSend", "SendRefused",
   "ProcessSend", "Disconnect", "RegisterDisconnect", "DisconnectRefused",
   "OnDisconnected", "RemoveSession"}

TypeOK ==
  /\ connected \subseteq Sessions
  /\ owner \subseteq Sessions \X Events
  /\ inFlight \subseteq Sessions \X Events
  /\ sendRegistered \subseteq Sessions
  /\ sendWaiting \subseteq Sessions
  /\ sessions \subseteq Sessions
  /\ sessionCount \in Int
  /\ clients \subseteq Sessions
  /\ clientSession \in Sessions \cup {NoSession}
  /\ armed \in [AcceptEvents -> IF clientSession = NoSession THEN Sessions ELSE {NoSession}]
  /\ accepting \subseteq AcceptEvents
  /\ task \in [Workers -> [session : Sessions \cup {NoSession},
                           accept : AcceptEvents \cup {NoAccept},
                           todo : Seq(Entries)]]
  /\ calls \in [Sessions -> Seq({"OnConnected", "OnDisconnected"})]
  /\ deaf \subseteq Sessions
  /\ misread \subseteq Sessions
  /\ abandoned \subseteq Sessions
  /\ crash \in {"no", "owner", "session"}

-----------------------------------------------------------------------------
(* Safety                                                                    *)

WorkersAt(s, entry) == {w \in Workers : task[w].session = s /\ InTask(w, entry)}

\* The owner that keeps a session alive is there until the completion has been
\* picked up.  The one exception is RegisterDisconnect, which takes success of
\* DisconnectEx for an error and clears it, and only that can make a worker meet a null owner.
CompletionsFindSession ==
  /\ \A s \in Sessions, e \in Events :
       <<s, e>> \in inFlight /\ <<s, e>> \notin owner => e = "disconnect" /\ s \in misread
  /\ crash = "owner" => misread # {}

\* A session has one receive at a time, pending or being handled, and so one
\* caller of Send: what CppRecv and SerialSendsAreSafe of SessionSend rest on.
OneReceive ==
  \A s \in Sessions :
    /\ Cardinality(WorkersAt(s, "RegisterRecv"))
         + (IF <<s, "recv">> \in inFlight THEN 1 ELSE 0) <= 1
    /\ Cardinality(WorkersAt(s, "Send")) <= 1

\* sessionCount counts the sessions, across all interleavings of disconnects.
CountMatches == sessionCount = Cardinality(sessions)

\* s is on its way out, or will never get there.
Leaving(s) ==
  \/ \E entry \in {"RegisterDisconnect", "OnDisconnected", "RemoveSession"} :
       WorkersAt(s, entry) # {}
  \/ <<s, "disconnect">> \in inFlight
  \/ s \in abandoned
  \/ crashed

\* A connected session is listed, or its connecting worker is about to list it;
\* a listed one is connected or leaving.
ListedWhileConnected ==
  \A s \in Sessions :
    /\ s \in connected =>
         /\ s \in sessions \/ WorkersAt(s, "AddSession") # {}
         /\ s \in clients \cup {clientSession} \/ WorkersAt(s, "OnConnected") # {}
    /\ s \in (sessions \cup clients) \ connected => Leaving(s)

\* A connected session is received from: a receive is pending or a worker will
\* register one, unless HandleError has passed over a refused WSARecv, as it does
\* for a client whose failed ConnectEx was taken for a connection.
ConnectedIsServed ==
  \A s \in connected \ deaf :
    \/ <<s, "recv">> \in inFlight
    \/ \E entry \in {"RegisterRecv", "Disconnect"} : WorkersAt(s, entry) # {}

-----------------------------------------------------------------------------
(* The promise to the service and the application                            *)

\* Whichever workers run which of its calls, and however many of them disconnect
\* it, a session is connected, listed, reported, disconnected, reported and
\* unlisted once each and in this order (ProcessConnect, AddSession, OnConnected,
\* Disconnect, OnDisconnected, RemoveSession), and the references keep its object
\* until the last.
Cycle == INSTANCE LifeCycle WITH
  up <- connected, listed <- sessions, known <- clients, told <- calls

ImplementsLifeCycle == Cycle!Spec

-----------------------------------------------------------------------------
(* Liveness                                                                  *)

\* The workers run, and each completion is picked up by a waiting one.
FairSpec ==
  /\ Spec
  /\ \A w \in Workers : WF_vars(Step(w))
  /\ \A s \in Sessions, e \in Events :
       SF_vars(\E w \in Workers : ObserveIO(w, s, e))

\* A session that is not connected any more leaves both lists.
Unlisted ==
  \A s \in Sessions :
    s \in (sessions \cup clients) \ connected
      ~> s \notin sessions \cup clients \/ s \in abandoned \/ crashed

\* An AcceptEvent of a server that has been served is armed again.
Rearmed ==
  \A a \in AcceptEvents :
    (a \notin accepting /\ clientSession = NoSession) ~> (a \in accepting \/ crashed)
=============================================================================
