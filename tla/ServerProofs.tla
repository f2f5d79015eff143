---------------------------- MODULE ServerProofs ----------------------------
(***************************************************************************)
(* Proofs about ServerSessions for any number of connections: an open client *)
(* always has a read of its next packet asked for, although every handler    *)
(* asks for it through the global client; reads do not pile up; a worker that *)
(* is joined has been told, and none loses its connection under it.          *)
(***************************************************************************)
EXTENDS ServerSessions, FiniteSetTheorems, TLAPS

(* Types; how many reads can be queued is the subject of Counted below.     *)
Types == /\ peer \in [Conns -> {"none", "up", "left"}]
         /\ open \in [Conns -> BOOLEAN] /\ stopping \in [Conns -> BOOLEAN]
         /\ shut \in [Conns -> BOOLEAN] /\ dead \in [Conns -> BOOLEAN]
         /\ queue \in [Conns -> Nat]
         /\ reader \in [Conns -> Handling \cup {"none", "wait", "recv", "done"}]
         /\ using \in [Conns -> Conns \cup {None}]
         /\ acceptor \in {"accept", "test", "reject", "idle", "join", "reset", "drop",
                          "install", "swap", "arm", "settle", "greet", "delete"}
         /\ sender \in {"idle", "send", "clear", "reset", "delete"}
         /\ old \in [{"acceptor", "sender"} -> Conns \cup {None}]
         /\ conn \in Conns \cup {None} /\ client \in Conns \cup {None}
         /\ running \in BOOLEAN /\ on \in BOOLEAN /\ crashed \in BOOLEAN

(* A connection that has not been the client yet: nobody asks it for         *)
(* anything, and nobody else closes it.                                      *)
Untouched(c) == /\ client # c
                /\ \A d \in Conns : using[d] # c
                /\ using[c] = None
                /\ reader[c] \in {"none", "wait"}
                /\ queue[c] = 0 /\ ~stopping[c]

(* What the acceptor has in hand.                                           *)
InHand == /\ conn # None <=>
               acceptor \in {"test", "reject", "idle", "join", "reset", "drop", "install"}
          /\ conn # None => peer[conn] # "none"
          /\ acceptor = "join" /\ ~crashed => old["acceptor"] # None
          /\ \A c \in Conns : peer[c] = "none" \/ c = conn => Untouched(c)

(* The client's own worker reads bodies from the client: only a connection   *)
(* that is the client no longer can be reading from another.                 *)
OwnBody == client # None => using[client] \in {None, client}

IInv == Types /\ InHand /\ OwnBody /\ ClientIsRead

-----------------------------------------------------------------------------
(* Nobody is connected at the start.                                        *)
LEMMA InitIInv == Init => IInv
<1> SUFFICES ASSUME Init PROVE IInv
  OBVIOUS
<1> USE NAssumption DEF Init, Conns, None
<1>1. Types
  BY DEF Types
<1>2. InHand
  BY DEF InHand, Untouched
<1>3. OwnBody /\ ClientIsRead
  BY DEF OwnBody, ClientIsRead
<1> QED
  BY <1>1, <1>2, <1>3 DEF IInv

(* A peer leaves.                                                           *)
LEMMA PeerLeavesKeeps == ASSUME IInv, NEW c \in Conns, PeerLeaves(c) PROVE IInv'
<1> USE NAssumption DEF IInv, Types, Conns, None, globals, conns, Handling, PeerLeaves
<1>1. Types'
  OBVIOUS
<1>2. InHand'
  BY DEF InHand, Untouched
<1>3. OwnBody'
  BY DEF OwnBody, InHand, Untouched
<1>4. ClientIsRead'
  BY DEF ClientIsRead, OwnBody, InHand, Untouched
<1> QED
  BY <1>1, <1>2, <1>3, <1>4 DEF IInv

(* A read worker takes a header read off its queue and is in the middle of it.*)
LEMMA TakeEntryKeeps == ASSUME IInv, NEW c \in Conns, TakeEntry(c) PROVE IInv'
<1> USE NAssumption DEF IInv, Types, Conns, None, globals, conns, Handling, TakeEntry,
     Reader
<1>1. Types'
  OBVIOUS
<1>2. InHand'
  BY DEF InHand, Untouched
<1>3. OwnBody'
  BY DEF OwnBody, InHand, Untouched
<1>4. ClientIsRead'
  BY DEF ClientIsRead, OwnBody, InHand, Untouched
<1> QED
  BY <1>1, <1>2, <1>3, <1>4 DEF IInv

(* A read worker ends; one that still has reads queued leaves them there.   *)
LEMMA WorkerReturnsKeeps == ASSUME IInv, NEW c \in Conns, WorkerReturns(c) PROVE IInv'
<1> USE NAssumption DEF IInv, Types, Conns, None, globals, conns, Handling, WorkerReturns,
     Reader
<1>1. Types'
  OBVIOUS
<1>2. InHand'
  BY DEF InHand, Untouched
<1>3. OwnBody'
  BY DEF OwnBody, InHand, Untouched
<1>4. ClientIsRead'
  BY DEF ClientIsRead, OwnBody, InHand, Untouched
<1> QED
  BY <1>1, <1>2, <1>3, <1>4 DEF IInv

(* A header arrives.                                                        *)
LEMMA ReceiveKeeps == ASSUME IInv, NEW c \in Conns, Receive(c) PROVE IInv'
<1> USE NAssumption DEF IInv, Types, Conns, None, globals, conns, Handling, Receive, Reader
<1>1. Types'
  OBVIOUS
<1>2. InHand'
  BY DEF InHand, Untouched
<1>3. OwnBody'
  BY DEF OwnBody, InHand, Untouched
<1>4. ClientIsRead'
  BY DEF ClientIsRead, OwnBody, InHand, Untouched
<1> QED
  BY <1>1, <1>2, <1>3, <1>4 DEF IInv

(* A read that fails closes the connection.                                 *)
LEMMA ReceiveFailsKeeps == ASSUME IInv, NEW c \in Conns, ReceiveFails(c) PROVE IInv'
<1> USE NAssumption DEF IInv, Types, Conns, None, globals, conns, Handling, ReceiveFails,
     Reader
<1>1. Types'
  OBVIOUS
<1>2. InHand'
  BY DEF InHand, Untouched
<1>3. OwnBody'
  BY DEF OwnBody, InHand, Untouched
<1>4. ClientIsRead'
  BY DEF ClientIsRead, OwnBody, InHand, Untouched
<1> QED
  BY <1>1, <1>2, <1>3, <1>4 DEF IInv

(* The body is read from the client there is.                               *)
LEMMA BodyBeginsKeeps == ASSUME IInv, NEW c \in Conns, BodyBegins(c) PROVE IInv'
<1> USE NAssumption DEF IInv, Types, Conns, None, globals, conns, Handling, BodyBegins,
     Reader, Dangling
<1>1. Types'
  OBVIOUS
<1>2. InHand'
  BY DEF InHand, Untouched
<1>3. OwnBody'
  BY DEF OwnBody, InHand, Untouched
<1>4. ClientIsRead'
  BY DEF ClientIsRead, OwnBody, InHand, Untouched
<1> QED
  BY <1>1, <1>2, <1>3, <1>4 DEF IInv

(* The body arrives.                                                        *)
LEMMA BodyKeeps == ASSUME IInv, NEW c \in Conns, Body(c) PROVE IInv'
<1> USE NAssumption DEF IInv, Types, Conns, None, globals, conns, Handling, Body, Reader
<1>1. Types'
  OBVIOUS
<1>2. InHand'
  BY DEF InHand, Untouched
<1>3. OwnBody'
  BY DEF OwnBody, InHand, Untouched
<1>4. ClientIsRead'
  BY DEF ClientIsRead, OwnBody, InHand, Untouched
<1> QED
  BY <1>1, <1>2, <1>3, <1>4 DEF IInv

(* The body fails: the connection it was read from is closed.               *)
LEMMA BodyFailsKeeps == ASSUME IInv, NEW c \in Conns, BodyFails(c) PROVE IInv'
<1> USE NAssumption DEF IInv, Types, Conns, None, globals, conns, Handling, BodyFails,
     Reader
<1>1. Types'
  OBVIOUS
<1>2. InHand'
  BY DEF InHand, Untouched
<1>3. OwnBody'
  BY DEF OwnBody, InHand, Untouched
<1>4. ClientIsRead'
  BY DEF ClientIsRead, OwnBody, InHand, Untouched
<1> QED
  BY <1>1, <1>2, <1>3, <1>4 DEF IInv

(* START starts the source,                                                 *)
LEMMA StartKeeps == ASSUME IInv, NEW c \in Conns, Start(c) PROVE IInv'
<1> USE NAssumption DEF IInv, Types, Conns, None, globals, conns, Handling, Start, Reader
<1>1. Types'
  OBVIOUS
<1>2. InHand'
  BY DEF InHand, Untouched
<1>3. OwnBody'
  BY DEF OwnBody, InHand, Untouched
<1>4. ClientIsRead'
  BY DEF ClientIsRead, OwnBody, InHand, Untouched
<1> QED
  BY <1>1, <1>2, <1>3, <1>4 DEF IInv

(* and sets running.                                                        *)
LEMMA StartedKeeps == ASSUME IInv, NEW c \in Conns, Started(c) PROVE IInv'
<1> USE NAssumption DEF IInv, Types, Conns, None, globals, conns, Handling, Started, Reader
<1>1. Types'
  OBVIOUS
<1>2. InHand'
  BY DEF InHand, Untouched
<1>3. OwnBody'
  BY DEF OwnBody, InHand, Untouched
<1>4. ClientIsRead'
  BY DEF ClientIsRead, OwnBody, InHand, Untouched
<1> QED
  BY <1>1, <1>2, <1>3, <1>4 DEF IInv

(* STOP stops the source and clears running,                                *)
LEMMA StopKeeps == ASSUME IInv, NEW c \in Conns, Stop(c) PROVE IInv'
<1>1. Types'
  <2>1. /\ reader' = [reader EXCEPT ![c] = "stopped"]
        /\ on' = FALSE
        /\ UNCHANGED <<peer, open, stopping, shut, dead, queue, using, acceptor, conn,
                       sender, old, client, running, crashed>>
    BY DEF Stop, Reader
  <2>2. reader' \in [Conns -> Handling \cup {"none", "wait", "recv", "done"}]
    BY <2>1 DEF IInv, Types, Handling
  <2>3. Types
    BY DEF IInv
  <2>4. /\ on' \in BOOLEAN /\ running' \in BOOLEAN /\ crashed' \in BOOLEAN
        /\ client' \in Conns \cup {None}
    BY <2>1, <2>3 DEF Types
  <2>5. UNCHANGED <<peer, open, stopping, shut, dead, queue, using, acceptor, conn, sender, old>>
    BY <2>1
  <2> QED
    BY <2>2, <2>3, <2>4, <2>5 DEF Types
<1> USE NAssumption DEF IInv, Types, Conns, None, globals, conns, Handling, Stop, Reader
<1>2. InHand'
  BY DEF InHand, Untouched
<1>3. OwnBody'
  BY DEF OwnBody, InHand, Untouched
<1>4. ClientIsRead'
  BY DEF ClientIsRead, OwnBody, InHand, Untouched
<1> QED
  BY <1>1, <1>2, <1>3, <1>4 DEF IInv

(* in this order.                                                           *)
LEMMA StoppedKeeps == ASSUME IInv, NEW c \in Conns, Stopped(c) PROVE IInv'
<1>1. Types'
  <2>1. /\ reader' = [reader EXCEPT ![c] = "reply"] /\ running' = FALSE
        /\ UNCHANGED <<peer, open, stopping, shut, dead, queue, using, acceptor, conn,
                       sender, old, client, on, crashed>>
    BY DEF Stopped, Reader
  <2>2. reader' \in [Conns -> Handling \cup {"none", "wait", "recv", "done"}]
    BY <2>1 DEF IInv, Types, Handling
  <2>3. Types
    BY DEF IInv
  <2>4. /\ on' \in BOOLEAN /\ running' \in BOOLEAN /\ crashed' \in BOOLEAN
        /\ client' \in Conns \cup {None}
    BY <2>1, <2>3 DEF Types
  <2>5. UNCHANGED <<peer, open, stopping, shut, dead, queue, using, acceptor, conn, sender, old>>
    BY <2>1
  <2> QED
    BY <2>2, <2>3, <2>4, <2>5 DEF Types
<1> USE NAssumption DEF IInv, Types, Conns, None, globals, conns, Handling, Stopped, Reader
<1>2. InHand'
  BY DEF InHand, Untouched
<1>3. OwnBody'
  BY DEF OwnBody, InHand, Untouched
<1>4. ClientIsRead'
  BY DEF ClientIsRead, OwnBody, InHand, Untouched
<1> QED
  BY <1>1, <1>2, <1>3, <1>4 DEF IInv

(* An answer may close the client.                                          *)
LEMMA ReplyKeeps == ASSUME IInv, NEW c \in Conns, Reply(c) PROVE IInv'
<1>a. /\ reader[c] = "reply" /\ reader' = [reader EXCEPT ![c] = "rearm"]
      /\ UNCHANGED <<peer, stopping, shut, dead, queue, using, acceptor, conn, sender,
                     old, client, running, on>>
  BY DEF Reply, Reader
<1>b. ~crashed /\ open' \in {open, [open EXCEPT ![client] = FALSE]} /\ crashed' \in BOOLEAN
  BY DEF Reply, Reader, Write, IInv, Types
<1>1. Types'
  <2>1. reader' \in [Conns -> Handling \cup {"none", "wait", "recv", "done"}]
    BY <1>a DEF IInv, Types, Handling
  <2>2. open' \in [Conns -> BOOLEAN]
    BY <1>b DEF IInv, Types
  <2> QED
    BY <1>a, <1>b, <2>1, <2>2 DEF IInv, Types
<1>2. InHand'
  BY <1>a, <1>b DEF IInv, Types, InHand, Untouched
<1> USE NAssumption DEF IInv, Types, Conns, None, globals, conns, Handling, Reply, Reader,
     Write, Dangling
<1>3. OwnBody'
  BY DEF OwnBody, InHand, Untouched
<1>4. ClientIsRead'
  BY DEF ClientIsRead, OwnBody, InHand, Untouched
<1> QED
  BY <1>1, <1>2, <1>3, <1>4 DEF IInv

(* The next read is asked of the client.                                    *)
LEMMA RearmKeeps == ASSUME IInv, NEW c \in Conns, Rearm(c) PROVE IInv'
<1>a. queue' \in [Conns -> Nat]
  <2>1. queue \in [Conns -> Nat]
    BY DEF IInv, Types
  <2>2. queue' = queue \/ ReadAsync(client)
    BY DEF Rearm
  <2> QED
    BY <2>1, <2>2 DEF ReadAsync
<1>b. crashed' \in BOOLEAN
  BY DEF Rearm, Dangling
<1> USE NAssumption DEF IInv, Types, Conns, None, globals, conns, Handling, Rearm, Reader,
     ReadAsync, Dangling
<1>1. Types'
  BY <1>a, <1>b
<1>2. InHand'
  BY DEF InHand, Untouched
<1>3. OwnBody'
  BY DEF OwnBody, InHand, Untouched
<1>4. ClientIsRead'
  BY DEF ClientIsRead, OwnBody, InHand, Untouched
<1> QED
  BY <1>1, <1>2, <1>3, <1>4 DEF IInv

(* A new connection, which nothing refers to yet.                           *)
LEMMA AcceptKeeps == ASSUME IInv, NEW c \in Conns, Accept(c) PROVE IInv'
<1> USE NAssumption DEF IInv, Types, Conns, None, globals, conns, Handling, Accept
<1>1. Types'
  OBVIOUS
<1>2. InHand'
  BY DEF InHand, Untouched
<1>3. OwnBody'
  BY DEF OwnBody, InHand, Untouched
<1>4. ClientIsRead'
  BY DEF ClientIsRead, OwnBody, InHand, Untouched
<1> QED
  BY <1>1, <1>2, <1>3, <1>4 DEF IInv

(* The listener looks at the client.                                        *)
LEMMA TestKeeps == ASSUME IInv, Test PROVE IInv'
<1> USE NAssumption DEF IInv, Types, Conns, None, globals, conns, Handling, Test, Acceptor
<1>1. Types'
  OBVIOUS
<1>2. InHand'
  BY DEF InHand, Untouched
<1>3. OwnBody'
  BY DEF OwnBody, InHand, Untouched
<1>4. ClientIsRead'
  BY DEF ClientIsRead, OwnBody, InHand, Untouched
<1> QED
  BY <1>1, <1>2, <1>3, <1>4 DEF IInv

(* The newcomer is closed,                                                  *)
LEMMA RejectKeeps == ASSUME IInv, Reject PROVE IInv'
<1> USE NAssumption DEF IInv, Types, Conns, None, globals, conns, Handling, Reject,
     Acceptor, Shut
<1>1. Types'
  OBVIOUS
<1>2. InHand'
  BY DEF InHand, Untouched
<1>3. OwnBody'
  BY DEF OwnBody, InHand, Untouched
<1>4. ClientIsRead'
  BY DEF ClientIsRead, OwnBody, InHand, Untouched
<1> QED
  BY <1>1, <1>2, <1>3, <1>4 DEF IInv

(* and deleted.                                                             *)
LEMMA RejectedKeeps == ASSUME IInv, Rejected PROVE IInv'
<1> USE NAssumption DEF IInv, Types, Conns, None, globals, conns, Handling, Rejected,
     Acceptor, Delete, Joined
<1>1. Types'
  OBVIOUS
<1>2. InHand'
  BY DEF InHand, Untouched
<1>3. OwnBody'
  BY DEF OwnBody, InHand, Untouched
<1>4. ClientIsRead'
  BY DEF ClientIsRead, OwnBody, InHand, Untouched
<1> QED
  BY <1>1, <1>2, <1>3, <1>4 DEF IInv

(* An idle client is closed: what it has queued stays queued,               *)
LEMMA SendAwayKeeps == ASSUME IInv, SendAway PROVE IInv'
<1> USE NAssumption DEF IInv, Types, Conns, None, globals, conns, Handling, SendAway,
     Acceptor, Shut, Dangling
<1>1. Types'
  <2>1. old' \in [{"acceptor", "sender"} -> Conns \cup {None}]
    OBVIOUS
  <2>2. stopping' \in [Conns -> BOOLEAN] /\ shut' \in [Conns -> BOOLEAN]
    OBVIOUS
  <2>3. crashed' \in BOOLEAN
    OBVIOUS
  <2> QED
    BY <2>1, <2>2, <2>3
<1>2. InHand'
  BY DEF InHand, Untouched
<1>3. OwnBody'
  BY DEF OwnBody, InHand, Untouched
<1>4. ClientIsRead'
  BY DEF ClientIsRead, OwnBody, InHand, Untouched
<1> QED
  BY <1>1, <1>2, <1>3, <1>4 DEF IInv

(* until its worker has ended.                                              *)
LEMMA SentAwayKeeps == ASSUME IInv, SentAway PROVE IInv'
<1> USE NAssumption DEF IInv, Types, Conns, None, globals, conns, Handling, SentAway,
     Acceptor, Joined
<1>1. Types'
  <2>1. old["acceptor"] \in Conns
    BY DEF InHand
  <2>2. crashed' \in BOOLEAN
    BY <2>1
  <2>3. open' \in [Conns -> BOOLEAN] /\ old' \in [{"acceptor", "sender"} -> Conns \cup {None}]
    OBVIOUS
  <2> QED
    BY <2>2, <2>3
<1>2. InHand'
  BY DEF InHand, Untouched
<1>3. OwnBody'
  BY DEF OwnBody, InHand, Untouched
<1>4. ClientIsRead'
  BY DEF ClientIsRead, OwnBody, InHand, Untouched
<1> QED
  BY <1>1, <1>2, <1>3, <1>4 DEF IInv

(* The pointer is cleared,                                                  *)
LEMMA ResetKeeps == ASSUME IInv, Reset PROVE IInv'
<1> USE NAssumption DEF IInv, Types, Conns, None, globals, conns, Handling, Reset, Acceptor,
     Replace, Racing, Shut
<1>1. Types'
  OBVIOUS
<1>2. InHand'
  BY DEF InHand, Untouched
<1>3. OwnBody'
  BY DEF OwnBody, InHand, Untouched
<1>4. ClientIsRead'
  BY DEF ClientIsRead, OwnBody, InHand, Untouched
<1> QED
  BY <1>1, <1>2, <1>3, <1>4 DEF IInv

(* and the old client deleted.                                              *)
LEMMA DroppedKeeps == ASSUME IInv, Dropped PROVE IInv'
<1> USE NAssumption DEF IInv, Types, Conns, None, globals, conns, Handling, Dropped,
     Acceptor, Delete
<1>1. Types'
  OBVIOUS
<1>2. InHand'
  BY DEF InHand, Untouched
<1>3. OwnBody'
  BY DEF OwnBody, InHand, Untouched
<1>4. ClientIsRead'
  BY DEF ClientIsRead, OwnBody, InHand, Untouched
<1> QED
  BY <1>1, <1>2, <1>3, <1>4 DEF IInv

(* The newcomer is the client: no worker reads from it yet,                 *)
LEMMA InstallKeeps == ASSUME IInv, Install PROVE IInv'
<1> USE NAssumption DEF IInv, Types, Conns, None, globals, conns, Handling, Install,
     Acceptor, Replace, Racing, Shut
<1>1. Types'
  OBVIOUS
<1>2. InHand'
  BY DEF InHand, Untouched
<1>3. OwnBody'
  BY DEF OwnBody, InHand, Untouched
<1>4. ClientIsRead'
  BY DEF ClientIsRead, OwnBody, InHand, Untouched
<1> QED
  BY <1>1, <1>2, <1>3, <1>4 DEF IInv

(* the one before it is deleted,                                            *)
LEMMA InstalledKeeps == ASSUME IInv, Installed PROVE IInv'
<1> USE NAssumption DEF IInv, Types, Conns, None, globals, conns, Handling, Installed,
     Acceptor, Delete
<1>1. Types'
  OBVIOUS
<1>2. InHand'
  BY DEF InHand, Untouched
<1>3. OwnBody'
  BY DEF OwnBody, InHand, Untouched
<1>4. ClientIsRead'
  BY DEF ClientIsRead, OwnBody, InHand, Untouched
<1> QED
  BY <1>1, <1>2, <1>3, <1>4 DEF IInv

(* and its first header read asked for.                                     *)
LEMMA ArmKeeps == ASSUME IInv, Arm PROVE IInv'
<1> USE NAssumption DEF IInv, Types, Conns, None, globals, conns, Handling, Arm, Acceptor,
     ReadAsync, Dangling
<1>1. Types'
  OBVIOUS
<1>2. InHand'
  BY DEF InHand, Untouched
<1>3. OwnBody'
  BY DEF OwnBody, InHand, Untouched
<1>4. ClientIsRead'
  BY DEF ClientIsRead, OwnBody, InHand, Untouched
<1> QED
  BY <1>1, <1>2, <1>3, <1>4 DEF IInv

(* The source is stopped by the reset of the settings.                      *)
LEMMA SettleKeeps == ASSUME IInv, Settle PROVE IInv'
<1> USE NAssumption DEF IInv, Types, Conns, None, globals, conns, Handling, Settle, Acceptor
<1>1. Types'
  OBVIOUS
<1>2. InHand'
  BY DEF InHand, Untouched
<1>3. OwnBody'
  BY DEF OwnBody, InHand, Untouched
<1>4. ClientIsRead'
  BY DEF ClientIsRead, OwnBody, InHand, Untouched
<1> QED
  BY <1>1, <1>2, <1>3, <1>4 DEF IInv

(* The sample rate is sent.                                                 *)
LEMMA GreetKeeps == ASSUME IInv, Greet PROVE IInv'
<1> USE NAssumption DEF IInv, Types, Conns, None, globals, conns, Handling, Greet, Acceptor,
     Write, Dangling
<1>1. Types'
  OBVIOUS
<1>2. InHand'
  BY DEF InHand, Untouched
<1>3. OwnBody'
  BY DEF OwnBody, InHand, Untouched
<1>4. ClientIsRead'
  BY DEF ClientIsRead, OwnBody, InHand, Untouched
<1> QED
  BY <1>1, <1>2, <1>3, <1>4 DEF IInv

(* The DSP thread has a buffer,                                             *)
LEMMA BufferKeeps == ASSUME IInv, Buffer PROVE IInv'
<1> USE NAssumption DEF IInv, Types, Conns, None, globals, conns, Handling, Buffer, Sender
<1>1. Types'
  OBVIOUS
<1>2. InHand'
  BY DEF InHand, Untouched
<1>3. OwnBody'
  BY DEF OwnBody, InHand, Untouched
<1>4. ClientIsRead'
  BY DEF ClientIsRead, OwnBody, InHand, Untouched
<1> QED
  BY <1>1, <1>2, <1>3, <1>4 DEF IInv

(* and sends it.                                                            *)
LEMMA SendKeeps == ASSUME IInv, Send PROVE IInv'
<1>1. Types'
  <2>1. /\ sender' = "idle"
        /\ UNCHANGED <<peer, stopping, shut, dead, queue, reader, using, acceptor, conn,
                       old, client, running, on>>
    BY DEF Send, Sender
  <2>2. open' \in {open, [open EXCEPT ![client] = FALSE]} /\ crashed' \in BOOLEAN
    BY DEF Send, Write, IInv, Types
  <2>3. open' \in [Conns -> BOOLEAN]
    BY <2>2 DEF IInv, Types
  <2> QED
    BY <2>1, <2>2, <2>3 DEF IInv, Types
<1> USE NAssumption DEF IInv, Types, Conns, None, globals, conns, Handling, Send, Sender,
     Write
<1>2. InHand'
  BY DEF InHand, Untouched
<1>3. OwnBody'
  BY DEF OwnBody, InHand, Untouched
<1>4. ClientIsRead'
  BY DEF ClientIsRead, OwnBody, InHand, Untouched
<1> QED
  BY <1>1, <1>2, <1>3, <1>4 DEF IInv

(* The client is closed: the DSP thread stops the source,                   *)
LEMMA SenderStopsKeeps == ASSUME IInv, SenderStops PROVE IInv'
<1> USE NAssumption DEF IInv, Types, Conns, None, globals, conns, Handling, SenderStops,
     Sender
<1>1. Types'
  OBVIOUS
<1>2. InHand'
  BY DEF InHand, Untouched
<1>3. OwnBody'
  BY DEF OwnBody, InHand, Untouched
<1>4. ClientIsRead'
  BY DEF ClientIsRead, OwnBody, InHand, Untouched
<1> QED
  BY <1>1, <1>2, <1>3, <1>4 DEF IInv

(* clears running,                                                          *)
LEMMA SenderClearsKeeps == ASSUME IInv, SenderClears PROVE IInv'
<1> USE NAssumption DEF IInv, Types, Conns, None, globals, conns, Handling, SenderClears,
     Sender
<1>1. Types'
  OBVIOUS
<1>2. InHand'
  BY DEF InHand, Untouched
<1>3. OwnBody'
  BY DEF OwnBody, InHand, Untouched
<1>4. ClientIsRead'
  BY DEF ClientIsRead, OwnBody, InHand, Untouched
<1> QED
  BY <1>1, <1>2, <1>3, <1>4 DEF IInv

(* clears the pointer,                                                      *)
LEMMA SenderResetsKeeps == ASSUME IInv, SenderResets PROVE IInv'
<1>1. Types'
  <2>1. /\ sender' = "delete" /\ client' = None /\ crashed' \in BOOLEAN
        /\ old' = [old EXCEPT !["sender"] = client]
        /\ UNCHANGED <<peer, open, dead, queue, reader, using, acceptor, conn, running,
                       on>>
    BY DEF SenderResets, Sender, Replace, Racing
  <2>2. stopping' \in [Conns -> BOOLEAN] /\ shut' \in [Conns -> BOOLEAN]
    BY DEF SenderResets, Replace, Shut, IInv, Types
  <2> QED
    BY <2>1, <2>2 DEF IInv, Types
<1> USE NAssumption DEF IInv, Types, Conns, None, globals, conns, Handling, SenderResets,
     Sender, Replace, Racing, Shut
<1>2. InHand'
  BY DEF InHand, Untouched
<1>3. OwnBody'
  BY DEF OwnBody, InHand, Untouched
<1>4. ClientIsRead'
  BY DEF ClientIsRead, OwnBody, InHand, Untouched
<1> QED
  BY <1>1, <1>2, <1>3, <1>4 DEF IInv

(* and deletes the client.                                                  *)
LEMMA SenderDeletesKeeps == ASSUME IInv, SenderDeletes PROVE IInv'
<1> USE NAssumption DEF IInv, Types, Conns, None, globals, conns, Handling, SenderDeletes,
     Sender, Delete
<1>1. Types'
  OBVIOUS
<1>2. InHand'
  BY DEF InHand, Untouched
<1>3. OwnBody'
  BY DEF OwnBody, InHand, Untouched
<1>4. ClientIsRead'
  BY DEF ClientIsRead, OwnBody, InHand, Untouched
<1> QED
  BY <1>1, <1>2, <1>3, <1>4 DEF IInv

LEMMA StutterKeeps == ASSUME IInv, UNCHANGED vars PROVE IInv'
<1> USE DEF vars, conns, globals, IInv
<1>1. Types'
  BY DEF Types
<1>2. InHand'
  BY DEF InHand, Untouched
<1>3. OwnBody' /\ ClientIsRead'
  BY DEF OwnBody, ClientIsRead
<1> QED
  BY <1>1, <1>2, <1>3 DEF IInv

(* Every step.                                                              *)
LEMMA StepKeeps == IInv /\ [Next]_vars => IInv'
<1> SUFFICES ASSUME IInv, [Next]_vars PROVE IInv'
  OBVIOUS
<1>1. CASE AcceptorStep
  BY <1>1, TestKeeps, RejectKeeps, RejectedKeeps, SendAwayKeeps, SentAwayKeeps, ResetKeeps,
     DroppedKeeps, InstallKeeps, InstalledKeeps, ArmKeeps, SettleKeeps, GreetKeeps
     DEF AcceptorStep
<1>2. CASE SenderStep
  BY <1>2, BufferKeeps, SendKeeps, SenderStopsKeeps, SenderClearsKeeps, SenderResetsKeeps,
     SenderDeletesKeeps DEF SenderStep
<1>3. CASE \E c \in Conns : Accept(c) \/ PeerLeaves(c) \/ Receive(c) \/ Body(c)
  BY <1>3, AcceptKeeps, PeerLeavesKeeps, ReceiveKeeps, BodyKeeps
<1>4. CASE \E c \in Conns : ReaderStep(c)
  BY <1>4, TakeEntryKeeps, WorkerReturnsKeeps, ReceiveFailsKeeps, BodyBeginsKeeps,
     BodyFailsKeeps, StartKeeps, StartedKeeps, StopKeeps, StoppedKeeps, ReplyKeeps, RearmKeeps
     DEF ReaderStep
<1>5. CASE UNCHANGED vars
  BY <1>5, StutterKeeps
<1> QED
  BY <1>1, <1>2, <1>3, <1>4, <1>5 DEF Next

(* The strengthening holds in every reachable state.                        *)
THEOREM Invariant == Spec => []IInv
<1>1. Init => IInv
  BY InitIInv
<1>2. IInv /\ [Next]_vars => IInv'
  BY StepKeeps
<1> QED
  BY <1>1, <1>2, PTL DEF Spec

(* Every path of _packetHandler that leaves the client open asks for its     *)
(* next packet, for any number of connections, old workers included.         *)
THEOREM ClientStaysRead == Spec => []ClientIsRead
<1>1. IInv => ClientIsRead
  BY DEF IInv
<1> QED
  BY <1>1, Invariant, PTL
-----------------------------------------------------------------------------
(* How many reads can be queued.  Every read that is queued or under way, and *)
(* every packet that is handled, goes back to one accepted connection: the    *)
(* acceptor asks for one read when it has made a connection the client, and   *)
(* a handler asks for one when it has finished with one.                      *)

(* The reads that have been asked for, each with a number of its own, the     *)
(* newcomer that may become the client and the client that is yet to be armed.*)
Claim(c, i) == \/ c = 0 /\ i = 0 /\ conn # None
               \/ c = 0 /\ i = 1 /\ acceptor \in {"swap", "arm"}
               \/ c \in Conns /\ i = 0 /\ reader[c] \in Handling \cup {"recv"}
               \/ c \in Conns /\ i \in 1..queue[c]

Claims == {t \in (0..N) \X Nat : Claim(t[1], t[2])}

(* The connections that have been accepted.                                 *)
Known == {c \in Conns : peer[c] # "none"}

(* There are no more claims than accepted connections.                      *)
Counted == IsFiniteSet(Claims) /\ Cardinality(Claims) <= Cardinality(Known)

(* A step that brings no new claim and no new connection.                   *)
NoNewClaim == /\ \A c \in 0..N, i \in Nat : Claim(c, i)' => Claim(c, i)
              /\ Known' = Known

(* The accepted connections are finitely many.                              *)
LEMMA KnownFinite ==
  /\ IsFiniteSet(Conns) /\ Cardinality(Conns) = N
  /\ IsFiniteSet(Known) /\ Cardinality(Known) \in Nat /\ Cardinality(Known) <= N
<1>1. IsFiniteSet(Conns) /\ Cardinality(Conns) = N
  <2>1. IsFiniteSet(1..N) /\ Cardinality(1..N) = IF 1 > N THEN 0 ELSE N - 1 + 1
    BY NAssumption, FS_Interval, 1 \in Int, N \in Int
  <2> QED
    BY <2>1, NAssumption DEF Conns
<1>2. Known \in SUBSET Conns
  BY DEF Known
<1>3. IsFiniteSet(Known) /\ Cardinality(Known) <= N
  BY <1>1, <1>2, FS_Subset
<1> QED
  BY <1>1, <1>3, FS_CardinalityType

(* Then the count stays.                                                    *)
LEMMA ClaimsShrink ==
  ASSUME Counted, NoNewClaim
  PROVE  Counted'
<1>1. Claims' \in SUBSET Claims
  BY DEF Claims, NoNewClaim
<1>2. IsFiniteSet(Claims') /\ Cardinality(Claims') <= Cardinality(Claims)
  BY <1>1, FS_Subset DEF Counted
<1>3. Cardinality(Claims') \in Nat /\ Cardinality(Claims) \in Nat
  BY <1>2, FS_CardinalityType DEF Counted
<1> QED
  BY <1>2, <1>3, KnownFinite DEF Counted, NoNewClaim

(* It stays too when a claim is given up for another.                       *)
LEMMA ClaimMoves ==
  ASSUME Counted, NEW x \in Claims, NEW y,
         Claims' \subseteq (Claims \ {x}) \cup {y}, Known' = Known
  PROVE  Counted'
<1>1. IsFiniteSet(Claims \ {x}) /\ Cardinality(Claims \ {x}) = Cardinality(Claims) - 1
  BY FS_RemoveElement DEF Counted
<1>2. /\ IsFiniteSet((Claims \ {x}) \cup {y})
      /\ Cardinality((Claims \ {x}) \cup {y}) \in {Cardinality(Claims) - 1,
                                                   (Cardinality(Claims) - 1) + 1}
  BY <1>1, FS_AddElement
<1>3. /\ IsFiniteSet(Claims')
      /\ Cardinality(Claims') <= Cardinality((Claims \ {x}) \cup {y})
  BY <1>2, FS_Subset
<1>4. Cardinality(Claims') \in Nat /\ Cardinality(Claims) \in Nat
  BY <1>3, FS_CardinalityType DEF Counted
<1> QED
  BY <1>2, <1>3, <1>4, KnownFinite DEF Counted

(* The steps of a read worker that ask for nothing.                         *)
LEMMA ReaderAsksNothing ==
  ASSUME IInv, NEW c \in Conns,
         WorkerReturns(c) \/ ReceiveFails(c) \/ BodyBegins(c) \/ BodyFails(c) \/ Start(c)
         \/ Started(c) \/ Stop(c) \/ Stopped(c) \/ Reply(c)
  PROVE  NoNewClaim
<1>1. CASE WorkerReturns(c)
  BY <1>1 DEF WorkerReturns, Reader, Handling, Claim, NoNewClaim, Known, IInv, Types,
     globals, conns
<1>2. CASE ReceiveFails(c)
  BY <1>2 DEF ReceiveFails, Reader, Handling, Claim, NoNewClaim, Known, IInv, Types, globals, conns
<1>3. CASE BodyBegins(c)
  BY <1>3 DEF BodyBegins, Reader, Handling, Claim, NoNewClaim, Known, IInv, Types, globals, conns
<1>4. CASE BodyFails(c)
  BY <1>4 DEF BodyFails, Reader, Handling, Claim, NoNewClaim, Known, IInv, Types, globals, conns
<1>5. CASE Start(c)
  BY <1>5 DEF Start, Reader, Handling, Claim, NoNewClaim, Known, IInv, Types, globals, conns
<1>6. CASE Started(c)
  BY <1>6 DEF Started, Reader, Handling, Claim, NoNewClaim, Known, IInv, Types, globals, conns
<1>7. CASE Stop(c)
  BY <1>7 DEF Stop, Reader, Handling, Claim, NoNewClaim, Known, IInv, Types, globals, conns
<1>8. CASE Stopped(c)
  BY <1>8 DEF Stopped, Reader, Handling, Claim, NoNewClaim, Known, IInv, Types, globals, conns
<1>9. CASE Reply(c)
  BY <1>9 DEF Reply, Reader, Handling, Claim, NoNewClaim, Known, IInv, Types, globals, conns
<1> QED
  BY <1>1, <1>2, <1>3, <1>4, <1>5, <1>6, <1>7, <1>8, <1>9

(* A peer that leaves, and the packets that come.                           *)
LEMMA PeerAsksNothing ==
  ASSUME IInv, NEW c \in Conns, PeerLeaves(c) \/ Receive(c) \/ Body(c)
  PROVE  NoNewClaim
<1>1. CASE PeerLeaves(c)
  BY <1>1 DEF PeerLeaves, Claim, NoNewClaim, Known, IInv, Types, globals, conns
<1>2. CASE Receive(c)
  BY <1>2 DEF Receive, Reader, Handling, Claim, NoNewClaim, Known, IInv, Types, globals, conns
<1>3. CASE Body(c)
  BY <1>3 DEF Body, Reader, Handling, Claim, NoNewClaim, Known, IInv, Types, globals, conns
<1> QED
  BY <1>1, <1>2, <1>3

(* The steps of the acceptor between accepting and arming.                  *)
LEMMA AcceptorAsksNothing ==
  ASSUME IInv,
         Test \/ Reject \/ Rejected \/ SendAway \/ SentAway \/ Reset
         \/ Dropped \/ Installed \/ Settle \/ Greet
  PROVE  NoNewClaim
<1>1. CASE Test
  BY <1>1 DEF Test, Acceptor, Claim, NoNewClaim, Known, IInv, Types, globals, conns
<1>2. CASE Reject
  BY <1>2 DEF Reject, Acceptor, Shut, Claim, NoNewClaim, Known, IInv, Types, globals, conns
<1>3. CASE Rejected
  BY <1>3 DEF Rejected, Acceptor, Delete, Claim, NoNewClaim, Known, IInv, Types, globals, conns
<1>4. CASE SendAway
  BY <1>4 DEF SendAway, Acceptor, Shut, Dangling, Claim, NoNewClaim, Known, IInv, Types,
     globals, conns
<1>5. CASE SentAway
  BY <1>5 DEF SentAway, Acceptor, Claim, NoNewClaim, Known, IInv, Types, globals, conns
<1>6. CASE Reset
  BY <1>6 DEF Reset, Acceptor, Replace, Claim, NoNewClaim, Known, IInv, Types, globals, conns
<1>7. CASE Dropped
  BY <1>7 DEF Dropped, Acceptor, Delete, Claim, NoNewClaim, Known, IInv, Types, globals, conns
<1>8. CASE Installed
  BY <1>8 DEF Installed, Acceptor, Delete, Claim, NoNewClaim, Known, IInv, Types, globals, conns
<1>9. CASE Settle
  BY <1>9 DEF Settle, Acceptor, Claim, NoNewClaim, Known, IInv, Types, globals, conns
<1>10. CASE Greet
  BY <1>10 DEF Greet, Acceptor, Claim, NoNewClaim, Known, IInv, Types, globals, conns
<1> QED
  BY <1>1, <1>2, <1>3, <1>4, <1>5, <1>6, <1>7, <1>8, <1>9, <1>10

(* The sender never asks for a read.                                        *)
LEMMA SenderAsksNothing ==
  ASSUME IInv, SenderStep
  PROVE  NoNewClaim
<1>1. CASE Buffer
  BY <1>1 DEF Buffer, Sender, Claim, NoNewClaim, Known, IInv, Types, globals, conns
<1>2. CASE Send
  BY <1>2 DEF Send, Sender, Claim, NoNewClaim, Known, IInv, Types, globals, conns
<1>3. CASE SenderStops
  BY <1>3 DEF SenderStops, Sender, Claim, NoNewClaim, Known, IInv, Types, globals, conns
<1>4. CASE SenderClears
  BY <1>4 DEF SenderClears, Sender, Claim, NoNewClaim, Known, IInv, Types, globals, conns
<1>5. CASE SenderResets
  BY <1>5 DEF SenderResets, Sender, Replace, Claim, NoNewClaim, Known, IInv, Types, globals, conns
<1>6. CASE SenderDeletes
  BY <1>6 DEF SenderDeletes, Sender, Delete, Claim, NoNewClaim, Known, IInv, Types, globals, conns
<1> QED
  BY <1>1, <1>2, <1>3, <1>4, <1>5, <1>6 DEF SenderStep

(* A worker takes a read off its queue and makes it.                        *)
LEMMA TakeEntryCounts ==
  ASSUME IInv, Counted, NEW c \in Conns, TakeEntry(c)
  PROVE  Counted'
<1>1. /\ queue[c] \in Nat /\ queue[c] > 0 /\ Known' = Known /\ c \in 0..N
      /\ queue \in [Conns -> Nat] /\ 0 \notin Conns
  BY NAssumption DEF TakeEntry, Reader, Known, Conns, IInv, Types
<1>2. <<c, queue[c]>> \in Claims
  BY <1>1 DEF Claims, Claim
<1>3. ASSUME NEW d \in 0..N, NEW i \in Nat, Claim(d, i)', ~(d = c /\ i = 0)
      PROVE  Claim(d, i) /\ ~(d = c /\ i = queue[c])
  <2>1. CASE d \in Conns /\ i \in 1..queue'[d]
    BY <1>1, <2>1 DEF TakeEntry, Claim
  <2>2. CASE ~(d \in Conns /\ i \in 1..queue'[d])
    BY <1>1, <1>3, <2>2 DEF TakeEntry, Reader, Claim, IInv, Types
  <2> QED
    BY <2>1, <2>2
<1>4. Claims' \subseteq (Claims \ {<<c, queue[c]>>}) \cup {<<c, 0>>}
  BY <1>3 DEF Claims
<1> QED
  BY <1>1, <1>2, <1>4, ClaimMoves

(* Where a read that is asked for goes.                                     *)
LEMMA ReadAsyncClaims ==
  ASSUME IInv, NEW c \in Conns, ReadAsync(c), NEW d \in Conns, NEW i \in 1..queue'[d],
         i \notin 1..queue[d]
  PROVE  d = c /\ i = queue[c] + 1
BY DEF ReadAsync, IInv, Types

(* A handler that has finished asks for the client's next packet.           *)
LEMMA RearmCounts ==
  ASSUME IInv, Counted, NEW c \in Conns, Rearm(c)
  PROVE  Counted'
<1>1. /\ reader[c] = "rearm" /\ reader' = [reader EXCEPT ![c] = "wait"] /\ Known' = Known
      /\ c \in 0..N /\ 0 \notin Conns /\ conn' = conn /\ acceptor' = acceptor
      /\ client \in Conns \cup {None}
  BY NAssumption DEF Rearm, Reader, Known, Conns, IInv, Types
<1>2. <<c, 0>> \in Claims
  BY <1>1 DEF Claims, Claim, Handling
<1>3. ASSUME NEW d \in 0..N, NEW i \in Nat, Claim(d, i)', ~(d \in Conns /\ i \in 1..queue'[d])
      PROVE  Claim(d, i) /\ ~(d = c /\ i = 0)
  BY <1>1, <1>3 DEF Claim, Handling, IInv, Types
<1>4. CASE ReadAsync(client) /\ client \in Conns
  <2>1. ASSUME NEW d \in Conns, NEW i \in 1..queue'[d], ~(d = client /\ i = queue[client] + 1)
        PROVE  Claim(d, i) /\ ~(d = c /\ i = 0)
    BY <1>4, <2>1, ReadAsyncClaims DEF Claim
  <2>2. Claims' \subseteq (Claims \ {<<c, 0>>}) \cup {<<client, queue[client] + 1>>}
    BY <1>3, <2>1 DEF Claims
  <2> QED
    BY <1>1, <1>2, <2>2, ClaimMoves
<1>5. CASE queue' = queue
  <2>1. ASSUME NEW d \in Conns, NEW i \in 1..queue'[d] PROVE Claim(d, i) /\ ~(d = c /\ i = 0)
    BY <1>5 DEF Claim
  <2>2. Claims' \subseteq (Claims \ {<<c, 0>>}) \cup {<<c, 0>>}
    BY <1>3, <2>1 DEF Claims
  <2> QED
    BY <1>1, <1>2, <2>2, ClaimMoves
<1>6. client = None => queue' = queue
  <2>1. Dangling(None)
    BY DEF Dangling
  <2>2. Dangling(client) => queue' = queue
    BY DEF Rearm
  <2> QED
    BY <2>1, <2>2
<1> QED
  BY <1>1, <1>4, <1>5, <1>6 DEF Rearm

(* The newcomer becomes the client that is to be armed ...                  *)
LEMMA InstallCounts ==
  ASSUME IInv, Counted, Install
  PROVE  Counted'
<1>1. /\ conn # None /\ conn' = None /\ acceptor' = "swap" /\ Known' = Known
      /\ queue' = queue /\ reader' = reader /\ 0 \in 0..N
  BY NAssumption DEF Install, Acceptor, Known, IInv, InHand
<1>2. <<0, 0>> \in Claims
  BY <1>1 DEF Claims, Claim
<1>3. ASSUME NEW d \in 0..N, NEW i \in Nat, Claim(d, i)', ~(d = 0 /\ i = 1)
      PROVE  Claim(d, i) /\ ~(d = 0 /\ i = 0)
  BY <1>1, <1>3, NAssumption DEF Claim, Conns
<1>4. Claims' \subseteq (Claims \ {<<0, 0>>}) \cup {<<0, 1>>}
  BY <1>3 DEF Claims
<1> QED
  BY <1>1, <1>2, <1>4, ClaimMoves

(* ... and is armed.                                                        *)
LEMMA ArmCounts ==
  ASSUME IInv, Counted, Arm
  PROVE  Counted'
<1>1. /\ acceptor = "arm" /\ acceptor' = "settle" /\ Known' = Known /\ conn' = conn
      /\ reader' = reader /\ 0 \in 0..N /\ client \in Conns \cup {None} /\ 0 \notin Conns
  BY NAssumption DEF Arm, Acceptor, Known, Conns, IInv, Types
<1>2. <<0, 1>> \in Claims
  BY <1>1 DEF Claims, Claim
<1>3. ASSUME NEW d \in 0..N, NEW i \in Nat, Claim(d, i)', ~(d \in Conns /\ i \in 1..queue'[d])
      PROVE  Claim(d, i) /\ ~(d = 0 /\ i = 1)
  BY <1>1, <1>3 DEF Claim
<1>4. CASE ReadAsync(client) /\ client \in Conns
  <2>1. ASSUME NEW d \in Conns, NEW i \in 1..queue'[d], ~(d = client /\ i = queue[client] + 1)
        PROVE  Claim(d, i) /\ ~(d = 0 /\ i = 1)
    BY <1>1, <1>4, <2>1, ReadAsyncClaims DEF Claim
  <2>2. Claims' \subseteq (Claims \ {<<0, 1>>}) \cup {<<client, queue[client] + 1>>}
    BY <1>3, <2>1 DEF Claims
  <2> QED
    BY <1>1, <1>2, <2>2, ClaimMoves
<1>5. CASE queue' = queue
  <2>1. ASSUME NEW d \in Conns, NEW i \in 1..queue'[d] PROVE Claim(d, i) /\ ~(d = 0 /\ i = 1)
    BY <1>1, <1>5 DEF Claim
  <2>2. Claims' \subseteq (Claims \ {<<0, 1>>}) \cup {<<0, 1>>}
    BY <1>3, <2>1 DEF Claims
  <2> QED
    BY <1>1, <1>2, <2>2, ClaimMoves
<1>6. client = None => queue' = queue
  <2>1. Dangling(None)
    BY DEF Dangling
  <2>2. Dangling(client) => queue' = queue
    BY DEF Arm
  <2> QED
    BY <2>1, <2>2
<1> QED
  BY <1>1, <1>4, <1>5, <1>6 DEF Arm

(* A new connection brings the claim of the newcomer.                       *)
LEMMA AcceptCounts ==
  ASSUME IInv, Counted, NEW c \in Conns, Accept(c)
  PROVE  Counted'
<1>1. /\ conn = None /\ conn' = c /\ acceptor = "accept" /\ acceptor' = "test"
      /\ queue' = queue /\ reader' = [reader EXCEPT ![c] = "wait"]
      /\ peer[c] = "none" /\ peer' = [peer EXCEPT ![c] = "up"]
  BY DEF Accept, IInv, InHand
<1>2. c \notin Known /\ Known' = Known \cup {c}
  BY <1>1 DEF Known, IInv, Types
<1>3. Cardinality(Known') = Cardinality(Known) + 1 /\ IsFiniteSet(Known')
  BY <1>2, KnownFinite, FS_AddElement
<1>4. ASSUME NEW d \in 0..N, NEW i \in Nat, Claim(d, i)', ~(d = 0 /\ i = 0)
      PROVE  Claim(d, i)
  BY <1>1, <1>4 DEF Claim, Handling, IInv, Types
<1>5. Claims' \subseteq Claims \cup {<<0, 0>>}
  BY <1>4 DEF Claims
<1>6. /\ IsFiniteSet(Claims \cup {<<0, 0>>}) /\ Cardinality(Claims) \in Nat
      /\ Cardinality(Claims \cup {<<0, 0>>}) <= Cardinality(Claims) + 1
  <2>1. IsFiniteSet(Claims) /\ Cardinality(Claims) \in Nat
    BY FS_CardinalityType DEF Counted
  <2>2. /\ IsFiniteSet(Claims \cup {<<0, 0>>})
        /\ Cardinality(Claims \cup {<<0, 0>>})
             = IF <<0, 0>> \in Claims THEN Cardinality(Claims) ELSE Cardinality(Claims) + 1
    BY <2>1, FS_AddElement
  <2> QED
    BY <2>1, <2>2
<1>7. /\ IsFiniteSet(Claims')
      /\ Cardinality(Claims') <= Cardinality(Claims \cup {<<0, 0>>})
  BY <1>5, <1>6, FS_Subset
<1>8. Cardinality(Claims') \in Nat /\ Cardinality(Claims \cup {<<0, 0>>}) \in Nat
  BY <1>6, <1>7, FS_CardinalityType
<1> QED
  BY <1>3, <1>6, <1>7, <1>8, KnownFinite DEF Counted

(* Nobody has asked for anything at the start.                              *)
LEMMA InitCounted == ASSUME Init PROVE Counted
<1>1. Claims = {}
  BY NAssumption DEF Init, Claims, Claim, Handling
<1> QED
  BY <1>1, FS_EmptySet, KnownFinite DEF Counted

(* Every step.                                                              *)
LEMMA StepCounts ==
  ASSUME IInv, Counted, [Next]_vars
  PROVE  Counted'
<1>1. CASE AcceptorStep
  <2>1. CASE Install
    BY <2>1, InstallCounts
  <2>2. CASE Arm
    BY <2>2, ArmCounts
  <2> QED
    BY <1>1, <2>1, <2>2, AcceptorAsksNothing, ClaimsShrink DEF AcceptorStep
<1>2. CASE SenderStep
  BY <1>2, SenderAsksNothing, ClaimsShrink
<1>3. ASSUME NEW c \in Conns, Accept(c) \/ PeerLeaves(c) \/ Receive(c) \/ Body(c)
      PROVE  Counted'
  BY <1>3, AcceptCounts, PeerAsksNothing, ClaimsShrink
<1>4. ASSUME NEW c \in Conns, ReaderStep(c) PROVE Counted'
  <2>1. CASE TakeEntry(c)
    BY <2>1, TakeEntryCounts
  <2>2. CASE Rearm(c)
    BY <2>2, RearmCounts
  <2> QED
    BY <1>4, <2>1, <2>2, ReaderAsksNothing, ClaimsShrink DEF ReaderStep
<1>5. CASE UNCHANGED vars
  <2>1. NoNewClaim
    BY <1>5 DEF vars, conns, NoNewClaim, Claim, Known
  <2> QED
    BY <2>1, ClaimsShrink
<1> QED
  BY <1>1, <1>2, <1>3, <1>4, <1>5 DEF Next

(* The reads that are queued for one connection, however they got there, are  *)
(* never more than the connections there have been (readAsync, which puts     *)
(* them in readQueue without a limit).                                        *)
THEOREM TypeCorrect == Spec => []TypeOK
<1>1. Init => IInv /\ Counted
  BY InitIInv, InitCounted
<1>2. (IInv /\ Counted) /\ [Next]_vars => (IInv /\ Counted)'
  BY StepKeeps, StepCounts
<1>3. ASSUME IInv, Counted PROVE TypeOK
  <2>1. ASSUME NEW c \in Conns PROVE queue[c] \in 0..Cardinality(Conns)
    <3>1. queue[c] \in Nat /\ c \in 0..N
      BY <1>3, NAssumption DEF IInv, Types, Conns
    <3> DEFINE Q == 1..queue[c]
               f == [i \in Q |-> <<c, i>>]
    <3>2. IsFiniteSet(Q) /\ Cardinality(Q) = queue[c]
      <4>1. 1 \in Int /\ queue[c] \in Int
        BY <3>1
      <4>2. IsFiniteSet(Q) /\ Cardinality(Q) = IF 1 > queue[c] THEN 0 ELSE queue[c] - 1 + 1
        BY <4>1, FS_Interval
      <4> HIDE DEF Q
      <4> QED
        BY <3>1, <4>2
    <3>3. f \in Injection(Q, Claims)
      <4>1. \A i \in Q : <<c, i>> \in Claims
        BY <3>1 DEF Claims, Claim
      <4>2. f \in [Q -> Claims]
        BY <4>1
      <4>3. \A i, j \in Q : f[i] = f[j] => i = j
        OBVIOUS
      <4> QED
        BY <4>2, <4>3 DEF Injection, IsInjective
    <3>4. Cardinality(Q) <= Cardinality(Claims) /\ Cardinality(Claims) \in Nat
      BY <1>3, <3>3, FS_Injection, FS_CardinalityType DEF Counted
    <3> HIDE DEF Q
    <3> QED
      BY <1>3, <3>1, <3>2, <3>4, KnownFinite, NAssumption DEF Counted
  <2>2. queue \in [Conns -> 0..Cardinality(Conns)]
    BY <1>3, <2>1 DEF IInv, Types
  <2> QED
    BY <1>3, <2>2 DEF IInv, Types, TypeOK
<1> QED
  BY <1>1, <1>2, <1>3, PTL DEF Spec
-----------------------------------------------------------------------------
(* Closing and deleting.  AcceptsAgain is liveness and stays with TLC; what   *)
(* it rests on is that a worker that is joined has been told to return and    *)
(* that its socket cannot hold it.                                            *)

(* close() tells the worker of a connection, and shuts the socket down unless *)
(* the connection is closed already, before anybody waits for that worker: no *)
(* thread joins one that has not heard of it (ConnClass::close).              *)
Told(c) == stopping[c] /\ (shut[c] \/ ~open[c])
ToldBeforeJoined ==
  \A t \in {"acceptor", "sender"}, c \in Conns : old[t] = c => Told(c)

(* A connection is deleted only when its own worker has returned, and a       *)
(* deleted one is never open: neither the acceptor nor the DSP thread frees a *)
(* connection under its read worker (ConnClass::~ConnClass).                  *)
DeletedAfterWorker == \A c \in Conns : dead[c] => reader[c] = "done" /\ ~open[c]

(* Only accepted connections are closed, and close() leaves no socket open.   *)
Closing == /\ \A c \in Conns : stopping[c] => peer[c] # "none" /\ Told(c)
           /\ \A c \in Conns : dead[c] => stopping[c]
           /\ ToldBeforeJoined /\ DeletedAfterWorker

(* A step that closes and accepts nothing.                                    *)
LEMMA QuietCloses ==
  ASSUME Closing, UNCHANGED <<peer, stopping, shut, dead>>,
         \A t \in {"acceptor", "sender"}, c \in Conns : old'[t] = c => old[t] = c,
         \A c \in Conns : open'[c] => open[c],
         \A c \in Conns : reader[c] = "done" => reader'[c] = "done"
  PROVE  Closing'
BY DEF Closing, ToldBeforeJoined, DeletedAfterWorker, Told

(* What write() on one connection may do to the others: nothing.              *)
LEMMA WriteCloses ==
  ASSUME Types, NEW c \in Conns, Write(c)
  PROVE  \A d \in Conns : open'[d] => open[d]
BY DEF Types, Write

(* The steps of a read worker.                                                *)
LEMMA ReaderCloses ==
  ASSUME Types, Closing, NEW c \in Conns, ReaderStep(c) \/ Receive(c) \/ Body(c)
  PROVE  Closing'
<1> DEFINE Moves == /\ reader[c] # "done"
                    /\ \A d \in Conns : d # c => reader'[d] = reader[d]
                    /\ UNCHANGED <<peer, stopping, shut, dead, old>>
           Opens == \E d \in Conns : open'[d] /\ ~open[d]
<1>1. CASE Reply(c)
  <2>1. Moves
    BY <1>1 DEF Reply, Reader, Types
  <2>2. ~Opens
    BY <1>1, WriteCloses DEF Reply, Dangling, Types, None
  <2> QED
    BY <2>1, <2>2, QuietCloses
<1>2. CASE TakeEntry(c) \/ WorkerReturns(c)
  <2>1. Moves /\ ~Opens
    BY <1>2 DEF TakeEntry, WorkerReturns, Reader, Types
  <2> QED
    BY <2>1, QuietCloses
<1>3. CASE ReceiveFails(c) \/ BodyBegins(c)
  <2>1. Moves /\ ~Opens
    BY <1>3 DEF ReceiveFails, BodyBegins, Reader, Types
  <2> QED
    BY <2>1, QuietCloses
<1>4. CASE BodyFails(c)
  <2>1. Moves /\ ~Opens
    BY <1>4 DEF BodyFails, Reader, Types
  <2> QED
    BY <2>1, QuietCloses
<1>5. CASE Start(c) \/ Started(c) \/ Stop(c) \/ Stopped(c) \/ Rearm(c)
  <2>1. Moves /\ ~Opens
    BY <1>5 DEF Start, Started, Stop, Stopped, Rearm, Reader, Types
  <2> QED
    BY <2>1, QuietCloses
<1>6. CASE Receive(c) \/ Body(c)
  <2>1. Moves /\ ~Opens
    BY <1>6 DEF Receive, Body, Reader, Types
  <2> QED
    BY <2>1, QuietCloses
<1> QED
  BY <1>1, <1>2, <1>3, <1>4, <1>5, <1>6 DEF ReaderStep

(* close() on a connection that has been accepted, up to the join.            *)
LEMMA ShutCloses ==
  ASSUME Types, Closing, NEW c \in Conns, NEW t \in {"acceptor", "sender"},
         peer[c] # "none", Shut(c), old' = [old EXCEPT ![t] = c],
         UNCHANGED <<peer, open, dead, reader>>
  PROVE  Closing'
<1>1. /\ stopping'[c] /\ (shut'[c] \/ ~open'[c])
      /\ \A d \in Conns : d # c => stopping'[d] = stopping[d] /\ shut'[d] = shut[d]
  BY DEF Shut, Types
<1>2. \A u \in {"acceptor", "sender"}, d \in Conns : old'[u] = d => d = c \/ old[u] = d
  BY DEF Types
<1> QED
  BY <1>1, <1>2 DEF Closing, ToldBeforeJoined, DeletedAfterWorker, Told

(* ~ConnClass once the worker is joined.                                      *)
LEMMA DeleteCloses ==
  ASSUME Types, Closing, NEW t \in {"acceptor", "sender"}, Delete(t),
         UNCHANGED <<peer, stopping, shut, reader>>
  PROVE  Closing'
<1>1. /\ \A c \in Conns : open'[c] => open[c] /\ c # old[t]
      /\ \A c \in Conns : dead'[c] => dead[c] \/ c = old[t]
  BY DEF Delete, Types
<1>2. \A u \in {"acceptor", "sender"}, c \in Conns : old'[u] = c => old[u] = c
  BY NAssumption DEF Delete, Types, None, Conns
<1>3. \A c \in Conns : c = old[t] => Told(c) /\ reader[c] = "done"
  BY NAssumption DEF Delete, Joined, Closing, ToldBeforeJoined, None, Conns
<1> QED
  BY <1>1, <1>2, <1>3 DEF Closing, ToldBeforeJoined, DeletedAfterWorker, Told

(* unique_ptr::reset and assignment up to the join.                           *)
LEMMA ReplaceCloses ==
  ASSUME IInv, Closing, NEW t \in {"acceptor", "sender"}, NEW new, Replace(t, new),
         UNCHANGED <<peer, open, dead, reader>>
  PROVE  Closing'
<1>1. CASE client = None
  <2>1. \A u \in {"acceptor", "sender"}, c \in Conns : old'[u] = c => old[u] = c
    BY <1>1, NAssumption DEF Replace, IInv, Types, None, Conns
  <2> QED
    BY <1>1, <2>1, QuietCloses DEF Replace
<1>2. CASE client # None
  <2>1. client \in Conns /\ peer[client] # "none"
    BY <1>2 DEF IInv, Types, InHand, Untouched
  <2> QED
    BY <1>2, <2>1, ShutCloses DEF Replace, IInv
<1> QED
  BY <1>1, <1>2

(* The steps of the acceptor.                                                 *)
LEMMA AcceptorCloses == ASSUME IInv, Closing, AcceptorStep PROVE Closing'
<1>1. CASE Test \/ Settle
  BY <1>1, QuietCloses DEF Test, Settle, Acceptor
<1>2. CASE Arm
  BY <1>2, QuietCloses DEF Arm, Acceptor
<1>3. CASE Greet
  <2>1. \A d \in Conns : open'[d] => open[d]
    BY <1>3, WriteCloses DEF Greet, Dangling, IInv, Types, None
  <2> QED
    BY <1>3, <2>1, QuietCloses DEF Greet, Acceptor
<1>4. CASE Reject
  <2>1. conn \in Conns /\ peer[conn] # "none"
    BY <1>4 DEF Reject, Acceptor, IInv, Types, InHand
  <2> QED
    BY <1>4, <2>1, ShutCloses DEF Reject, Acceptor, IInv
<1>5. CASE SendAway
  <2>1. CASE Dangling(client)
    BY <1>5, <2>1, QuietCloses DEF SendAway, Acceptor
  <2>2. CASE ~Dangling(client)
    <3>1. client \in Conns /\ peer[client] # "none"
      BY <2>2 DEF Dangling, IInv, Types, InHand, Untouched
    <3> QED
      BY <1>5, <2>2, <3>1, ShutCloses DEF SendAway, Acceptor, IInv
  <2> QED
    BY <2>1, <2>2
<1>6. CASE SentAway
  <2>1. /\ \A c \in Conns : open'[c] => open[c]
        /\ \A u \in {"acceptor", "sender"}, c \in Conns : old'[u] = c => old[u] = c
    BY <1>6, NAssumption DEF SentAway, IInv, Types, None, Conns
  <2> QED
    BY <1>6, <2>1, QuietCloses DEF SentAway, Acceptor
<1>7. CASE Reset \/ Install
  BY <1>7, ReplaceCloses DEF Reset, Install, Acceptor
<1>8. CASE Rejected \/ Dropped \/ Installed
  BY <1>8, DeleteCloses DEF Rejected, Dropped, Installed, Acceptor, IInv
<1> QED
  BY <1>1, <1>2, <1>3, <1>4, <1>5, <1>6, <1>7, <1>8 DEF AcceptorStep

(* The steps of the DSP thread.                                               *)
LEMMA SenderCloses == ASSUME IInv, Closing, SenderStep PROVE Closing'
<1>1. CASE Buffer \/ SenderStops \/ SenderClears
  BY <1>1, QuietCloses DEF Buffer, SenderStops, SenderClears, Sender
<1>2. CASE Send
  <2>1. \A d \in Conns : open'[d] => open[d]
    BY <1>2, WriteCloses DEF Send, IInv, Types, None
  <2> QED
    BY <1>2, <2>1, QuietCloses DEF Send, Sender
<1>3. CASE SenderResets
  BY <1>3, ReplaceCloses DEF SenderResets, Sender
<1>4. CASE SenderDeletes
  BY <1>4, DeleteCloses DEF SenderDeletes, Sender, IInv
<1> QED
  BY <1>1, <1>2, <1>3, <1>4 DEF SenderStep

(* A peer that comes or leaves: the connection that comes is a new one.       *)
LEMMA PeerCloses ==
  ASSUME Types, Closing, NEW c \in Conns, Accept(c) \/ PeerLeaves(c) PROVE Closing'
<1>1. CASE Accept(c)
  <2>1. ~stopping[c] /\ ~dead[c] /\ old' = old
    BY <1>1 DEF Accept, Closing
  <2>2. \A d \in Conns : d # c => /\ open'[d] = open[d] /\ reader'[d] = reader[d]
                                  /\ peer'[d] = peer[d]
    BY <1>1 DEF Accept, Types
  <2>3. \A t \in {"acceptor", "sender"} : old[t] # c
    BY <2>1 DEF Closing, ToldBeforeJoined, Told
  <2> QED
    BY <1>1, <2>1, <2>2, <2>3 DEF Accept, Closing, ToldBeforeJoined, DeletedAfterWorker, Told
<1>2. CASE PeerLeaves(c)
  BY <1>2 DEF PeerLeaves, Types, Closing, ToldBeforeJoined, DeletedAfterWorker, Told
<1> QED
  BY <1>1, <1>2

(* Every step.                                                                *)
LEMMA StepCloses == ASSUME IInv, Closing, [Next]_vars PROVE Closing'
<1>1. CASE AcceptorStep \/ SenderStep
  BY <1>1, AcceptorCloses, SenderCloses
<1>2. CASE \E c \in Conns : Accept(c) \/ PeerLeaves(c)
  BY <1>2, PeerCloses DEF IInv
<1>3. CASE \E c \in Conns : Receive(c) \/ Body(c) \/ ReaderStep(c)
  BY <1>3, ReaderCloses DEF IInv
<1>4. CASE UNCHANGED vars
  BY <1>4, QuietCloses DEF vars, conns
<1> QED
  BY <1>1, <1>2, <1>3, <1>4 DEF Next

(* Closing, with the rest of the invariant.                                   *)
LEMMA ClosingInvariant == Spec => [](IInv /\ Closing)
<1>1. Init => IInv /\ Closing
  BY InitIInv, NAssumption
     DEF Init, Closing, ToldBeforeJoined, DeletedAfterWorker, Told, None, Conns
<1>2. (IInv /\ Closing) /\ [Next]_vars => (IInv /\ Closing)'
  BY StepKeeps, StepCloses
<1> QED
  BY <1>1, <1>2, PTL DEF Spec

(* Neither the acceptor nor the DSP thread waits for a read worker that has   *)
(* not been told to return, or that its own socket could hold.                *)
THEOREM ClosingIsHeard == Spec => []ToldBeforeJoined
<1>1. Closing => ToldBeforeJoined
  BY DEF Closing
<1> QED
  BY <1>1, ClosingInvariant, PTL

(* No connection is freed under its own read worker, and none that was freed  *)
(* is taken for an open one.                                                  *)
THEOREM NotFreedUnderWorker == Spec => []DeletedAfterWorker
<1>1. Closing => DeletedAfterWorker
  BY DEF Closing
<1> QED
  BY <1>1, ClosingInvariant, PTL
=============================================================================
