------------------------------- MODULE Login -------------------------------
(***************************************************************************)
(* Logging in: the packet table (PacketHandler.h), Handle_LoginRequest     *)
(* (ServerPacketHandler.cpp), the id counter (PlayerIdGenerator.h) and the *)
(* list of players (PlayerLoginManager.h).  A session's packets are        *)
(* handled by one worker at a time (SessionLife: OneReceive), sessions     *)
(* side by side, so the three steps of a login interleave with those of    *)
(* other sessions, with the send path and with Disconnect.  The send path  *)
(* is the one SendStream promises.                                         *)
(*                                                                         *)
(* Left out because they change nothing: the other four handlers, packets  *)
(* too short or that do not parse.  Nobody calls RemovePlayer: players     *)
(* stay when their session is gone, and every login makes another one.     *)
(***************************************************************************)
EXTENDS Naturals, Sequences, Functions

CONSTANTS
  Sessions,
  NullBuffer,  \* the buffer MakeSendBuffer returns when it fails
  IdCount,     \* 2^32, scaled down: ids are 0..IdCount-1
  MaxLogins    \* bound: how many logins are handled

ASSUME IdAssumption     == IdCount \in Nat \ {0, 1}
ASSUME BufferAssumption == NullBuffer \notin Nat
ASSUME BoundAssumption  == MaxLogins \in Nat

VARIABLES
  idCounter,  \* PlayerIdGenerator's static counter
  players,    \* PlayerLoginManager._players: the session of each player
  at,         \* of each session's worker: "idle", "add" or "reply"
  playerId,   \* of each session: Handle_LoginRequest's player->id
  link,       \* "connected"; "closing": after Disconnect, packets received may
              \* still be handled; "gone": the session object is freed
  sendQueue,  \* of each session: the replies, each the id it names
  wire,       \* of each session: those handed to the network
  logins,     \* history: how many ids have been handed out
  crash       \* "no", or what ended the process ("memory": or left its memory
              \* overwritten)

worker   == <<at, playerId>>
registry == <<idCounter, players>>
replies  == <<sendQueue, wire>>
vars     == <<registry, worker, link, replies, logins, crash>>

Ids == 0..(IdCount - 1)

Init ==
  /\ idCounter = 1
  /\ players = [id \in {} |-> NullBuffer]
  /\ at = [s \in Sessions |-> "idle"]
  /\ playerId = [s \in Sessions |-> 0]
  /\ link = [s \in Sessions |-> "connected"]
  /\ sendQueue = [s \in Sessions |-> <<>>]
  /\ wire = [s \in Sessions |-> <<>>]
  /\ logins = 0
  /\ crash = "no"

\* A packet of session s is being dispatched.
Dispatching(s) == crash = "no" /\ at[s] = "idle" /\ link[s] # "gone"

\* Nobody calls PacketHandler::Init, so an id without a handler finds an empty
\* function, and id 65535 lies behind the table: the call throws out of the worker.
UnregisteredPacket(s) ==
  /\ Dispatching(s)
  /\ crash' = "packet"
  /\ UNCHANGED <<registry, worker, link, replies, logins>>

\* Mutant: a plain ++; of two increments at the same time one is lost.
GeneratorNotAtomic(s) ==
  /\ Dispatching(s)
  /\ logins < MaxLogins
  /\ at' = [at EXCEPT ![s] = "add"]
  /\ playerId' = [playerId EXCEPT ![s] = idCounter]
  /\ idCounter' \in {(idCounter + 1) % IdCount} \union
                    (IF \E r \in Sessions \ {s} : at[r] = "add" THEN {idCounter} ELSE {})
  /\ logins' = logins + 1
  /\ UNCHANGED <<players, link, replies, crash>>

\* Mutant: ids are kept in a wider type than the counter's.
GeneratorWider(s) ==
  /\ Dispatching(s)
  /\ logins < MaxLogins
  /\ at' = [at EXCEPT ![s] = "add"]
  /\ playerId' = [playerId EXCEPT ![s] = idCounter]
  /\ idCounter' = idCounter + 1
  /\ logins' = logins + 1
  /\ UNCHANGED <<players, link, replies, crash>>

\* A LoginRequest that parses gets the next id: fetch_add.
Handle_LoginRequest(s) ==
  /\ Dispatching(s)
  /\ logins < MaxLogins
  /\ at' = [at EXCEPT ![s] = "add"]
  /\ playerId' = [playerId EXCEPT ![s] = idCounter]
  /\ idCounter' = (idCounter + 1) % IdCount
  /\ logins' = logins + 1
  /\ UNCHANGED <<players, link, replies, crash>>

\* Mutant: a session that has logged in before keeps its first player.
AddFirstPlayer(s) ==
  /\ crash = "no" /\ at[s] = "add"
  /\ at' = [at EXCEPT ![s] = "reply"]
  /\ players' = IF s \in Range(players) THEN players
                ELSE [id \in DOMAIN players \union {playerId[s]} |->
                        IF id = playerId[s] THEN s ELSE players[id]]
  /\ UNCHANGED <<idCounter, playerId, link, replies, logins, crash>>

\* Under the manager's mutex: over any player that has the id.
AddPlayer(s) ==
  /\ crash = "no" /\ at[s] = "add"
  /\ at' = [at EXCEPT ![s] = "reply"]
  /\ players' = [id \in DOMAIN players \union {playerId[s]} |->
                   IF id = playerId[s] THEN s ELSE players[id]]
  /\ UNCHANGED <<idCounter, playerId, link, replies, logins, crash>>

\* MakeSendBuffer and Send.  The name in a reply is the client's own and as long as it
\* likes, so the size of a reply may not fit: 2^16 bytes and more are not serialized,
\* and the null pointer goes to Send; for the four sizes below, dataSize + 4 wraps, and
\* the reply is written past its buffer (SendBufferPool: Smash), after which nothing
\* can be said.  Send drops what comes after Disconnect, unless its test came before.
Reply(s) ==
  /\ crash = "no" /\ at[s] = "reply"
  /\ at' = [at EXCEPT ![s] = "idle"]
  /\ \/ /\ \E buffer \in {playerId[s], NullBuffer} :
              sendQueue' = [sendQueue EXCEPT ![s] = Append(@, buffer)]
        /\ UNCHANGED crash
     \/ /\ link[s] # "connected"
        /\ UNCHANGED <<sendQueue, crash>>
     \/ /\ crash' = "memory"
        /\ UNCHANGED sendQueue
  /\ UNCHANGED <<registry, playerId, link, wire, logins>>

\* RegisterSend, by the thread that may: a null pointer is dereferenced.
RegisterSend(s) ==
  /\ crash = "no" /\ link[s] = "connected" /\ sendQueue[s] # <<>>
  /\ IF NullBuffer \in Range(sendQueue[s])
       THEN crash' = "buffer" /\ UNCHANGED replies
       ELSE /\ wire' = [wire EXCEPT ![s] = @ \o sendQueue[s]]
            /\ sendQueue' = [sendQueue EXCEPT ![s] = <<>>]
            /\ UNCHANGED crash
  /\ UNCHANGED <<registry, worker, link, logins>>

\* Disconnect, at any time; the players' weak_ptr says nothing of it.
Disconnect(s) ==
  /\ crash = "no" /\ link[s] = "connected"
  /\ link' = [link EXCEPT ![s] = "closing"]
  /\ UNCHANGED <<registry, worker, replies, logins, crash>>

\* The last reference to the session is dropped, and its queue with it.
Free(s) ==
  /\ crash = "no" /\ link[s] = "closing" /\ at[s] = "idle"
  /\ link' = [link EXCEPT ![s] = "gone"]
  /\ sendQueue' = [sendQueue EXCEPT ![s] = <<>>]
  /\ UNCHANGED <<registry, worker, wire, logins, crash>>

\* Nobody is connected any more, or the process is gone.
Finished ==
  /\ crash # "no" \/ \A s \in Sessions : link[s] = "gone"
  /\ UNCHANGED vars

Next ==
  \/ \E s \in Sessions :
       \/ UnregisteredPacket(s)
       \/ Handle_LoginRequest(s)
       \/ AddPlayer(s)
       \/ Reply(s)
       \/ RegisterSend(s)
       \/ Disconnect(s)
       \/ Free(s)
  \/ Finished

Spec == Init /\ [][Next]_vars

-----------------------------------------------------------------------------
(* Type invariant                                                            *)

TypeOK ==
  /\ idCounter \in Ids
  /\ DOMAIN players \subseteq Ids
  /\ players \in [DOMAIN players -> Sessions]
  /\ at \in [Sessions -> {"idle", "add", "reply"}]
  /\ playerId \in [Sessions -> Ids]
  /\ link \in [Sessions -> {"connected", "closing", "gone"}]
  /\ sendQueue \in [Sessions -> Seq(Ids \union {NullBuffer})]
  /\ wire \in [Sessions -> Seq(Ids)]
  /\ logins \in 0..MaxLogins
  /\ crash \in {"no", "packet", "buffer", "memory"}

-----------------------------------------------------------------------------
(* Safety                                                                    *)

\* The counter has not handed out an id a second time.
FirstRound == logins <= IdCount

\* The ids handed out in the first round.
Issued == {n % IdCount : n \in 1..logins}

Adding == {s \in Sessions : at[s] = "add"}

\* However logins of different sessions interleave, they get different ids, and
\* every login whose AddPlayer is done has its own player: none overwrites
\* another's, and a disconnect takes none away.
OnePlayerPerLogin ==
  FirstRound =>
    /\ \A s, r \in Adding : playerId[s] = playerId[r] => s = r
    /\ DOMAIN players = Issued \ {playerId[s] : s \in Adding}

\* What session s has been or will be told.
Told(s) == wire[s] \o sendQueue[s]

\* A client is told the id of a player that is in the list already and is its
\* own, so no two clients are told the same id, and a client is never told an
\* id a second time.
RepliesMatchPlayers ==
  FirstRound =>
    \A s \in Sessions : \A i \in DOMAIN Told(s) :
      LET id == Told(s)[i]
      IN  id # NullBuffer =>
            /\ id \in DOMAIN players /\ players[id] = s
            /\ \A j \in DOMAIN Told(s) : Told(s)[j] = id => j = i
=============================================================================
