--------------------------- MODULE ServerSessions ---------------------------
(***************************************************************************)
(* The sessions of the headless server (src/core/src/server.cpp) on top of *)
(* its connections (src/core/src/utils/networking.cpp).  Three kinds of    *)
(* threads share the globals `client' and `running' without a lock:        *)
(*   - the acceptor, the listener's worker, runs _clientHandler,           *)
(*   - the reader of each connection, ConnClass::readWorker, runs          *)
(*     _packetHandler, which uses `client' and not its own connection,     *)
(*   - the sender, the thread of the last DSP block, runs                  *)
(*     _testServerHandler for every buffer the started source yields.      *)
(* A peer may be silent or leave at any time.  A null or deleted           *)
(* connection that is used, and two threads in the same unique_ptr, are    *)
(* undefined: the process is taken to end (`crashed').  A test of `client' *)
(* and the call it guards are one step; send() does not block.             *)
(***************************************************************************)
EXTENDS Integers, FiniteSets

CONSTANT N           \* connections in one behaviour

ASSUME NAssumption == N \in Nat

Conns == 1..N        \* in the order in which they are accepted
None == 0            \* the null pointer

VARIABLES peer,      \* peer[c]: "none" before c is accepted, "up", "left"
          open,      \* open[c]: connectionOpen
          stopping,  \* stopping[c]: stopWorkers
          shut,      \* shut[c]: the socket was shut down by close
          dead,      \* dead[c]: the object is deleted
          queue,     \* queue[c]: header reads in readQueue
          reader,    \* reader[c]: where c's read worker is
          using,     \* using[c]: the connection c's read worker reads a body from
          acceptor,  \* where the listener's worker is
          conn,      \* _clientHandler's argument
          sender,    \* where the DSP thread is
          old,       \* old[t]: the object thread t is closing or deleting
          client, running,   \* the globals of server.cpp
          on,        \* the selected source is started
          crashed

conns == <<peer, open, stopping, shut, dead, queue, reader, using>>
globals == <<client, running, on>>
vars == <<conns, acceptor, conn, sender, old, globals, crashed>>

Handling == {"body", "start", "started", "stop", "stopped", "reply", "rearm"}

Init == /\ peer = [c \in Conns |-> "none"]
        /\ open = [c \in Conns |-> FALSE]
        /\ stopping = [c \in Conns |-> FALSE]
        /\ shut = [c \in Conns |-> FALSE]
        /\ dead = [c \in Conns |-> FALSE]
        /\ queue = [c \in Conns |-> 0]
        /\ reader = [c \in Conns |-> "none"]
        /\ using = [c \in Conns |-> None]
        /\ acceptor = "accept"
        /\ conn = None
        /\ sender = "idle"
        /\ old = [t \in {"acceptor", "sender"} |-> None]
        /\ client = None /\ running = FALSE /\ on = FALSE
        /\ crashed = FALSE

-----------------------------------------------------------------------------
(* Connections.                                                            *)

\* The object a pointer leads to cannot be used.
Dangling(c) == c # None => dead[c]

\* write() on c: it returns at once when c is closed; when the peer is gone or
\* the socket is shut down it may fail, and then closes c.
Write(c) == open' \in {open} \cup IF peer[c] = "left" \/ shut[c]
                                    THEN {[open EXCEPT ![c] = FALSE]} ELSE {}

\* readAsync() on c: the entry is dropped when c is closed.
ReadAsync(c) == queue' = [queue EXCEPT ![c] = IF open[c] THEN @ + 1 ELSE @]

\* close() on c up to the joins: the socket is shut down only if c is open.
SlipNoShutdown(c) == stopping' = [stopping EXCEPT ![c] = TRUE] /\ UNCHANGED shut
Shut(c) == /\ stopping' = [stopping EXCEPT ![c] = TRUE]
           /\ shut' = [shut EXCEPT ![c] = @ \/ open[c]]

\* recv() on c can only return 0 or an error.
Broken(c) == peer[c] = "left" \/ shut[c]

PeerLeaves(c) == /\ peer[c] = "up" /\ ~shut[c] /\ ~crashed
                 /\ peer' = [peer EXCEPT ![c] = "left"]
                 /\ UNCHANGED <<open, stopping, shut, dead, queue, reader, using,
                                acceptor, conn, sender, old, globals, crashed>>

-----------------------------------------------------------------------------
(* The read worker of connection c, and _packetHandler in it.              *)

Reader(c, from, to) == /\ ~crashed
                       /\ reader[c] = from
                       /\ reader' = [reader EXCEPT ![c] = to]
                       /\ UNCHANGED <<peer, stopping, shut, dead, acceptor, conn,
                                      sender, old, client>>

SlipNoPredicate(c) == /\ ~stopping[c] /\ open[c]
                      /\ Reader(c, "wait", "recv")
                      /\ queue' = [queue EXCEPT ![c] = @ - 1]
                      /\ UNCHANGED <<open, using, running, on, crashed>>
\* readWorker 198-206: woken for an entry, or to return.
TakeEntry(c) == /\ queue[c] > 0 /\ ~stopping[c] /\ open[c]
                /\ Reader(c, "wait", "recv")
                /\ queue' = [queue EXCEPT ![c] = @ - 1]
                /\ UNCHANGED <<open, using, running, on, crashed>>

WorkerReturns(c) == /\ stopping[c] \/ (queue[c] > 0 /\ ~open[c])
                    /\ Reader(c, "wait", "done")
                    /\ UNCHANGED <<open, queue, using, running, on, crashed>>

\* The header arrives: the packet has a body, or none, and then it is invalid
\* and answered with an error.
Receive(c) == /\ ~Broken(c) /\ open[c]
              /\ \E to \in {"body", "reply"} : Reader(c, "recv", to)
              /\ UNCHANGED <<open, queue, using, running, on, crashed>>

SlipKeepOpen(c) == /\ Reader(c, "recv", "done")
                   /\ UNCHANGED open
                   /\ UNCHANGED <<queue, using, running, on, crashed>>
\* The read fails: the connection is closed and the worker returns.
ReceiveFails(c) == /\ Broken(c) \/ ~open[c]
                   /\ Reader(c, "recv", "done")
                   /\ open' = [open EXCEPT ![c] = FALSE]
                   /\ UNCHANGED <<queue, using, running, on, crashed>>

\* client->read for the body: the pointer is loaded ...
BodyBegins(c) == /\ using[c] = None
                 /\ Reader(c, "body", "body")
                 /\ using' = [using EXCEPT ![c] = client]
                 /\ crashed' = Dangling(client)
                 /\ UNCHANGED <<open, queue, running, on>>

\* ... and the body read, with a command or another packet in it, ...
Body(c) == LET d == using[c] IN
           /\ d # None /\ ~dead[d] /\ ~Broken(d) /\ open[d]
           /\ \E to \in {"start", "stop", "reply"} : Reader(c, "body", to)
           /\ using' = [using EXCEPT ![c] = None]
           /\ UNCHANGED <<open, queue, running, on, crashed>>

SlipBodyKeepsOpen(c) == LET d == using[c] IN
                        /\ d # None /\ (dead[d] \/ Broken(d) \/ ~open[d])
                        /\ Reader(c, "body", "wait")
                        /\ using' = [using EXCEPT ![c] = None]
                        /\ crashed' = dead[d]
                        /\ UNCHANGED <<open, queue, running, on>>
\* ... or the read fails and the handler returns without another readAsync.
BodyFails(c) == LET d == using[c] IN
                /\ d # None /\ (dead[d] \/ Broken(d) \/ ~open[d])
                /\ Reader(c, "body", "wait")
                /\ using' = [using EXCEPT ![c] = None]
                /\ open' = [open EXCEPT ![d] = FALSE]
                /\ crashed' = dead[d]
                /\ UNCHANGED <<queue, running, on>>

\* COMMAND_START, if the challenge is met: the source is started ...
Start(c) == /\ Reader(c, "start", "started")
            /\ on' = TRUE
            /\ UNCHANGED <<open, queue, using, running, crashed>>

\* ... then running is set.
Started(c) == /\ Reader(c, "started", "reply")
              /\ running' = TRUE
              /\ UNCHANGED <<open, queue, using, on, crashed>>

\* COMMAND_STOP: the source is stopped ...
Stop(c) == /\ Reader(c, "stop", "stopped")
           /\ on' = FALSE
           /\ UNCHANGED <<open, queue, using, running, crashed>>

\* ... then running is cleared.
Stopped(c) == /\ Reader(c, "stopped", "reply")
              /\ running' = FALSE
              /\ UNCHANGED <<open, queue, using, on, crashed>>

\* The answer goes to the current client, if this command has one.
Reply(c) == /\ Reader(c, "reply", "rearm")
            /\ \/ UNCHANGED <<open, crashed>>
               \/ Dangling(client) /\ crashed' = TRUE /\ UNCHANGED open
               \/ ~Dangling(client) /\ Write(client) /\ UNCHANGED crashed
            /\ UNCHANGED <<queue, using, running, on>>

SlipAnswerOnly(c) == /\ Reader(c, "rearm", "wait")
                     /\ UNCHANGED <<open, queue, using, running, on, crashed>>
\* The next header read is asked of the current client.
Rearm(c) == /\ Reader(c, "rearm", "wait")
            /\ crashed' = Dangling(client)
            /\ IF Dangling(client) THEN UNCHANGED queue ELSE ReadAsync(client)
            /\ UNCHANGED <<open, using, running, on>>

ReaderStep(c) == \/ TakeEntry(c) \/ WorkerReturns(c) \/ ReceiveFails(c) \/ BodyBegins(c)
                 \/ BodyFails(c) \/ Start(c) \/ Started(c) \/ Stop(c) \/ Stopped(c)
                 \/ Reply(c) \/ Rearm(c)

-----------------------------------------------------------------------------
(* Closing and deleting, by the acceptor and the sender.                   *)

\* ~ConnClass of old[t] up to the join, and the join: connectionOpen falls.
Joined(t) == old[t] # None => reader[old[t]] = "done"
Delete(t) == /\ Joined(t)
             /\ open' = [c \in Conns |-> open[c] /\ c # old[t]]
             /\ dead' = [c \in Conns |-> dead[c] \/ c = old[t]]
             /\ queue' = [c \in Conns |-> IF c = old[t] THEN 0 ELSE queue[c]]
             /\ old' = [old EXCEPT ![t] = None]

-----------------------------------------------------------------------------
(* The acceptor: _clientHandler in the listener's worker.                  *)

Acceptor(from, to) == /\ ~crashed
                      /\ acceptor = from /\ acceptor' = to
                      /\ UNCHANGED <<peer, using, sender>>

Accept(c) == /\ ~crashed
             /\ acceptor = "accept" /\ acceptor' = "test"
             /\ peer[c] = "none" /\ \A d \in 1..c - 1 : peer[d] # "none"
             /\ peer' = [peer EXCEPT ![c] = "up"]
             /\ open' = [open EXCEPT ![c] = TRUE]
             /\ reader' = [reader EXCEPT ![c] = "wait"]
             /\ conn' = c
             /\ UNCHANGED <<stopping, shut, dead, queue, using, sender, old, globals, crashed>>

Test == LET taken == client # None /\ open[client] IN
        /\ Acceptor("test", IF ~taken THEN "install" ELSE IF running THEN "reject" ELSE "idle")
        /\ UNCHANGED <<open, stopping, shut, dead, queue, reader, conn, old, client, running, on,
                       crashed>>

\* The newcomer is told to disconnect and closed.
Reject == /\ Acceptor("reject", "delete")
          /\ old' = [old EXCEPT !["acceptor"] = conn]
          /\ Shut(conn)
          /\ conn' = None
          /\ UNCHANGED <<open, dead, queue, reader, client, running, on, crashed>>

Rejected == /\ Acceptor("delete", "accept")
            /\ Delete("acceptor")
            /\ UNCHANGED <<stopping, shut, reader, conn, client, running, on, crashed>>

\* client->close() of an idle client up to the joins, the joins, and reset().
SendAway == /\ Acceptor("idle", "join")
            /\ IF Dangling(client)
                 THEN crashed' = TRUE /\ UNCHANGED <<old, stopping, shut>>
                 ELSE /\ old' = [old EXCEPT !["acceptor"] = client]
                      /\ Shut(client)
                      /\ UNCHANGED crashed
            /\ UNCHANGED <<open, dead, queue, reader, conn, client, running, on>>

SentAway == /\ Acceptor("join", "reset")
            /\ Joined("acceptor")
            /\ crashed' = dead[old["acceptor"]]
            /\ open' = [open EXCEPT ![old["acceptor"]] = FALSE]
            /\ old' = [old EXCEPT !["acceptor"] = None]
            /\ UNCHANGED <<stopping, shut, dead, queue, reader, conn, client, running, on>>

\* The pointer is replaced before the old object is deleted; two threads that
\* replace it at the same time may both delete the object.
Racing == acceptor \in {"reset", "install"} /\ sender = "reset"
Replace(t, new) == /\ client' = new
                   /\ old' = [old EXCEPT ![t] = client]
                   /\ crashed' \in {FALSE, Racing}
                   /\ IF client = None THEN UNCHANGED <<stopping, shut>> ELSE Shut(client)

Reset == /\ Acceptor("reset", "drop")
         /\ Replace("acceptor", None)
         /\ UNCHANGED <<open, dead, queue, reader, conn, running, on>>

Dropped == /\ Acceptor("drop", "install")
           /\ Delete("acceptor")
           /\ UNCHANGED <<stopping, shut, reader, conn, client, running, on, crashed>>

Install == /\ Acceptor("install", "swap")
           /\ Replace("acceptor", conn)
           /\ conn' = None
           /\ UNCHANGED <<open, dead, queue, reader, running, on>>

Installed == /\ Acceptor("swap", "arm")
             /\ Delete("acceptor")
             /\ UNCHANGED <<stopping, shut, reader, conn, client, running, on, crashed>>

Arm == /\ Acceptor("arm", "settle")
       /\ crashed' = Dangling(client)
       /\ IF Dangling(client) THEN UNCHANGED queue ELSE ReadAsync(client)
       /\ UNCHANGED <<open, stopping, shut, dead, reader, conn, old, client, running, on>>

\* The settings reset stops the source and leaves running alone.
Settle == /\ Acceptor("settle", "greet")
          /\ on' = FALSE
          /\ UNCHANGED <<open, stopping, shut, dead, queue, reader, conn, old, client, running,
                          crashed>>

\* The sample rate is sent, and the listener asked for the next connection.
Greet == /\ Acceptor("greet", "accept")
         /\ IF Dangling(client)
              THEN crashed' = TRUE /\ UNCHANGED open
              ELSE Write(client) /\ UNCHANGED crashed
         /\ UNCHANGED <<stopping, shut, dead, queue, reader, conn, old, client, running, on>>

AcceptorStep == \/ Test \/ Reject \/ Rejected \/ SendAway \/ SentAway \/ Reset \/ Dropped
                \/ Install \/ Installed \/ Arm \/ Settle \/ Greet

-----------------------------------------------------------------------------
(* The sender: _testServerHandler in the thread of the last block.         *)

Sender(from, to) == /\ ~crashed
                    /\ sender = from /\ sender' = to
                    /\ UNCHANGED <<peer, reader, using, acceptor, conn>>

Buffer == /\ on
          /\ Sender("idle", "send")
          /\ UNCHANGED <<open, stopping, shut, dead, queue, old, client, running, on,
                          crashed>>

Send == /\ \/ client = None /\ UNCHANGED <<open, crashed>>
           \/ client # None /\ dead[client] /\ crashed' = TRUE /\ UNCHANGED open
           \/ client # None /\ ~dead[client] /\ open[client] /\ Write(client) /\ UNCHANGED crashed
        /\ Sender("send", "idle")
        /\ UNCHANGED <<stopping, shut, dead, queue, old, client, running, on>>

\* The client is gone: the source is stopped, running cleared, client reset.
SenderStops == /\ client # None /\ ~open[client]
               /\ Sender("send", "clear")
               /\ on' = FALSE
               /\ UNCHANGED <<open, stopping, shut, dead, queue, old, client, running, crashed>>

SenderClears == /\ Sender("clear", "reset")
                /\ running' = FALSE
                /\ UNCHANGED <<open, stopping, shut, dead, queue, old, client, on, crashed>>

SenderResets == /\ Sender("reset", "delete")
                /\ Replace("sender", None)
                /\ UNCHANGED <<open, dead, queue, running, on>>

SenderDeletes == /\ Sender("delete", "idle")
                 /\ Delete("sender")
                 /\ UNCHANGED <<stopping, shut, client, running, on, crashed>>

SenderStep == Buffer \/ Send \/ SenderStops \/ SenderClears \/ SenderResets \/ SenderDeletes

-----------------------------------------------------------------------------
Next == \/ AcceptorStep \/ SenderStep
        \/ \E c \in Conns : Accept(c) \/ PeerLeaves(c) \/ Receive(c) \/ Body(c) \/ ReaderStep(c)

\* Threads run, and a started source yields buffers (Buffer is a SenderStep).
\* Nothing is assumed of the peers: a silent one sends nothing and never leaves,
\* so Accept, PeerLeaves, Receive and Body are not fair.
Fairness == /\ WF_vars(AcceptorStep) /\ WF_vars(SenderStep)
            /\ \A c \in Conns : WF_vars(ReaderStep(c))

Spec == Init /\ [][Next]_vars /\ Fairness
-----------------------------------------------------------------------------
(* Properties.                                                             *)

\* Every variable keeps its type; the reads the workers of
\* deleted connections ask of the next client add up.
TypeOK == /\ peer \in [Conns -> {"none", "up", "left"}]
          /\ open \in [Conns -> BOOLEAN] /\ stopping \in [Conns -> BOOLEAN]
          /\ shut \in [Conns -> BOOLEAN] /\ dead \in [Conns -> BOOLEAN]
          /\ queue \in [Conns -> 0..Cardinality(Conns)]
          /\ reader \in [Conns -> Handling \cup {"none", "wait", "recv", "done"}]
          /\ using \in [Conns -> Conns \cup {None}]
          /\ acceptor \in {"accept", "test", "reject", "idle", "join", "reset", "drop",
                           "install", "swap", "arm", "settle", "greet", "delete"}
          /\ sender \in {"idle", "send", "clear", "reset", "delete"}
          /\ old \in [{"acceptor", "sender"} -> Conns \cup {None}]
          /\ {conn, client} \subseteq Conns \cup {None}
          /\ {running, on, crashed} \subseteq BOOLEAN

\* An open client is listened to: a header read of it is queued or under way,
\* or its packet is being handled, or the acceptor has yet to ask for the first.
\* Every path of _packetHandler that leaves the client open must ask again.
ClientIsRead == crashed \/ client = None \/ ~open[client]
                  \/ queue[client] > 0 \/ reader[client] \in Handling \cup {"recv"}
                  \/ acceptor \in {"swap", "arm"}

\* The acceptor comes back for the next peer, whatever the connected ones do.
\* One case holds it up: the worker of a connection that is deleted reads the
\* body of its packet from the next client, which says nothing (server.cpp:360).
Misled == \E c \in Conns : reader[c] = "body" /\ using[c] \notin {None, c}
AcceptsAgain == []<>(acceptor = "accept" \/ crashed \/ Misled)

\* A newcomer is refused for a client no longer than that client is there: one
\* that has left stops counting as connected, or is replaced.  `running' may say
\* what it likes meanwhile: when it has stayed set without a source, an idle
\* client keeps all others out (server.cpp:281), but only until it leaves.  Each
\* failed read of a body returns without asking for another packet
\* (server.cpp:361), and must itself have closed the connection it read from.
GoneMakesRoom == \A c \in Conns :
    client = c /\ peer[c] = "left" ~> client # c \/ ~open[c] \/ crashed

\* "client disconnection is detected, stream is stopped" (changelog): when the
\* client of a started source has left, the source is stopped (server.cpp:468),
\* or another client that is still there has come in between.
Bereft == on /\ \E c \in Conns : client = c /\ peer[c] = "left"
DeadNoticed == Bereft ~> ~Bereft \/ crashed
=============================================================================
