-------------------------------- MODULE Mux --------------------------------
(***************************************************************************)
(* The connection multiplexer (pkg/net/multiplex/mux.go), two of them at   *)
(* the two ends of a trunk, as NRI uses it: a ttrpc client and a ttrpc     *)
(* server at either end, each writing to and reading from a connection of  *)
(* its own.                                                                *)
(*                                                                         *)
(* A frame is a header, which names a connection, and a payload, written   *)
(* one after the other under a lock.  The reader goroutine of the other    *)
(* end puts the payload into the queue of the connection it finds in its   *)
(* table.  It never waits: a full queue ends the multiplexer.              *)
(***************************************************************************)
EXTENDS Naturals, Sequences

CONSTANTS
    End,         \* the two ends of the trunk
    Conn,        \* connection ids
    BlockedEnds, \* the ends made WithBlockedRead: the runtime's (plugin.go:258)
    QueueLength, \* capacity of a connection's queue
    MaxFrames,   \* bound on the frames sent to each end over a connection
    None         \* no connection, no error

ASSUME MuxAssumption ==
    /\ \E a, b \in End : a # b /\ End = {a, b}
    /\ BlockedEnds \subseteq End /\ BlockedEnds # {}
    /\ QueueLength \in Nat \ {0}
    /\ MaxFrames \in [End -> [Conn -> Nat]]
    /\ None \notin Conn

VARIABLES
    up,         \* the trunk is open at both ends
    wire,       \* the headers and payloads on the way to each end
    table,      \* mux.conns of each end
    conn,       \* each connection object: "none", "open", or "closed" (its doneC)
    readC,      \* its queue
    muxClosed,  \* mux.doneC is closed
    writeLock,  \* the connection that holds mux.writeLock
    writing,    \* a connection's Write: "idle", "waiting" (for the lock), "header"
                \* (about to write one) or "payload"
    reader,     \* the reader goroutine: "blocked", "header", "payload" or "done"
    hdr,        \* the connection id in the header it read last
    sent,       \* history: the payloads written towards each end
    received,   \* history: what Read returned at each end
    dropped     \* history: connections that lost a frame before they were opened

trunkVars   == <<up, wire>>
connVars    == <<table, conn, readC>>
writerVars  == <<writeLock, writing>>
readerVars  == <<reader, hdr>>
historyVars == <<sent, received, dropped>>
vars == <<trunkVars, connVars, muxClosed, writerVars, readerVars, historyVars>>

Peer(e) == CHOOSE f \in End : f # e

\* What is on the wire: headers, with n = 0, and payloads, which tell where they belong
\* by the connection they were written to and their position among those.
Position == UNION {1 .. MaxFrames[e][c] : e \in End, c \in Conn}
Payload == [id : Conn, n : Position]
Chunk == [id : Conn, n : Position \cup {0}]

PerConn(v) == [e \in End |-> [c \in Conn |-> v]]

\* newMux at both ends.
Init ==
    /\ up = TRUE
    /\ wire = [e \in End |-> <<>>]
    /\ table = [e \in End |-> {}]
    /\ conn = PerConn("none")
    /\ readC = PerConn(<<>>)
    /\ muxClosed = [e \in End |-> FALSE]
    /\ writeLock = [e \in End |-> None]
    /\ writing = PerConn("idle")
    /\ reader = [e \in End |-> IF e \in BlockedEnds THEN "blocked" ELSE "header"]
    /\ hdr = [e \in End |-> None]
    /\ sent = PerConn(<<>>) /\ received = PerConn(<<>>)
    /\ dropped = [e \in End |-> {}]
-----------------------------------------------------------------------------
\* mux.Close: closes the connections in the table, the multiplexer and the trunk, once.
CloseMux(e) ==
    IF muxClosed[e]
    THEN UNCHANGED <<muxClosed, conn, up>>
    ELSE /\ muxClosed' = [muxClosed EXCEPT ![e] = TRUE]
         /\ conn' = [conn EXCEPT ![e] =
                       [c \in Conn |-> IF c \in table[e] THEN "closed" ELSE @[c]]]
         /\ up' = FALSE

Close(e) ==
    /\ ~muxClosed[e]
    /\ CloseMux(e)
    /\ UNCHANGED <<wire, table, readC, writerVars, readerVars, historyVars>>

\* mux.Open, and Listen and Dialer, which call it.  NRI opens each connection once.
Open(e, c) ==
    /\ conn[e][c] = "none"
    /\ conn' = [conn EXCEPT ![e][c] = "open"]
    /\ table' = [table EXCEPT ![e] = @ \cup {c}]
    /\ UNCHANGED <<trunkVars, readC, muxClosed, writerVars, readerVars, historyVars>>

\* conn.Close
CloseConn(e, c) ==
    /\ conn[e][c] = "open"
    /\ conn' = [conn EXCEPT ![e][c] = "closed"]
    /\ table' = [table EXCEPT ![e] = @ \ {c}]
    /\ UNCHANGED <<trunkVars, readC, muxClosed, writerVars, readerVars, historyVars>>

AllOpened(e) == \A c \in Conn : conn[e][c] # "none"

\* Mutant: the reader runs while connections are still being opened.
UnblockEarly(e) ==
    /\ reader[e] = "blocked"
    /\ reader' = [reader EXCEPT ![e] = "header"]
    /\ UNCHANGED <<trunkVars, connVars, muxClosed, writerVars, hdr, historyVars>>

\* mux.Unblock, which plugin.start calls after plugin.connect has opened all.
Unblock(e) ==
    /\ reader[e] = "blocked" /\ AllOpened(e)
    /\ reader' = [reader EXCEPT ![e] = "header"]
    /\ UNCHANGED <<trunkVars, connVars, muxClosed, writerVars, hdr, historyVars>>
-----------------------------------------------------------------------------
(***************************************************************************)
(* Who speaks when: stub.Start opens all connections before it registers,  *)
(* and the runtime is silent until something was received: plugin.start    *)
(* configures a plugin once it has registered.                             *)
(***************************************************************************)
Speaks(e) ==
    /\ AllOpened(e)
    /\ e \in BlockedEnds => \E c \in Conn : received[e][c] # <<>>

\* conn.Write looks at the connection before it waits for the lock.
Write(e, c) ==
    /\ writing[e][c] = "idle" /\ conn[e][c] = "open" /\ Speaks(e)
    /\ Len(sent[Peer(e)][c]) < MaxFrames[Peer(e)][c]
    /\ writing' = [writing EXCEPT ![e][c] = "waiting"]
    /\ UNCHANGED <<trunkVars, connVars, muxClosed, writeLock, readerVars, historyVars>>

\* Mutant: the header is written before the lock is taken.
WriteHeaderUnlocked(e, c) ==
    /\ writing[e][c] \in {"waiting", "header"}
    /\ up
    /\ writeLock' = [writeLock EXCEPT ![e] = c]
    /\ wire' = [wire EXCEPT ![Peer(e)] = Append(@, [id |-> c, n |-> 0])]
    /\ writing' = [writing EXCEPT ![e][c] = "payload"]
    /\ UNCHANGED <<up, connVars, muxClosed, readerVars, historyVars>>

\* mux.write: the header, then the payload, under the lock.
WriteHeader(e, c) ==
    /\ \/ writing[e][c] = "waiting" /\ writeLock[e] = None
       \/ writing[e][c] = "header"
    /\ up
    /\ writeLock' = [writeLock EXCEPT ![e] = c]
    /\ wire' = [wire EXCEPT ![Peer(e)] = Append(@, [id |-> c, n |-> 0])]
    /\ writing' = [writing EXCEPT ![e][c] = "payload"]
    /\ UNCHANGED <<up, connVars, muxClosed, readerVars, historyVars>>

\* A buffer longer than maxPayloadSize takes several frames.
WritePayload(e, c) ==
    LET f == Peer(e)
        m == [id |-> c, n |-> Len(sent[f][c]) + 1] IN
    /\ writing[e][c] = "payload" /\ up
    /\ wire' = [wire EXCEPT ![f] = Append(@, m)]
    /\ sent' = [sent EXCEPT ![f][c] = Append(@, m)]
    /\ \/ /\ writing' = [writing EXCEPT ![e][c] = "header"]
          /\ Len(sent'[f][c]) < MaxFrames[f][c]
          /\ UNCHANGED writeLock
       \/ /\ writing' = [writing EXCEPT ![e][c] = "idle"]
          /\ writeLock' = [writeLock EXCEPT ![e] = None]
    /\ UNCHANGED <<up, connVars, muxClosed, readerVars, received, dropped>>

(***************************************************************************)
(* Writing to a closed trunk fails.  If part of the header or payload had  *)
(* gone out, the framing is lost and the multiplexer is closed.            *)
(***************************************************************************)
WriteFails(e, c) ==
    /\ ~up
    /\ \/ writing[e][c] = "waiting" /\ writeLock[e] = None
       \/ writing[e][c] \in {"header", "payload"}
    /\ writing' = [writing EXCEPT ![e][c] = "idle"]
    /\ writeLock' = [writeLock EXCEPT ![e] = None]
    /\ CloseMux(e) \/ UNCHANGED <<muxClosed, conn, up>>
    /\ UNCHANGED <<wire, table, readC, readerVars, historyVars>>
-----------------------------------------------------------------------------
\* mux.reader
ReadHeader(e) ==
    /\ reader[e] = "header" /\ ~muxClosed[e]
    /\ wire[e] # <<>>
    /\ hdr' = [hdr EXCEPT ![e] = Head(wire[e]).id]
    /\ wire' = [wire EXCEPT ![e] = Tail(@)]
    /\ reader' = [reader EXCEPT ![e] = "payload"]
    /\ UNCHANGED <<up, connVars, muxClosed, writerVars, historyVars>>

\* The payload is read and passed on.  Taking the connection from the table and
\* putting the payload into its queue are one step: a Close in between has no other
\* effect than one before or after both.
ReadsPayload(e) ==
    /\ reader[e] = "payload" /\ ~muxClosed[e]
    /\ wire[e] # <<>>
    /\ wire' = [wire EXCEPT ![e] = Tail(@)]

Queue(e) ==
    /\ ReadsPayload(e)
    /\ hdr[e] \in table[e] /\ Len(readC[e][hdr[e]]) < QueueLength
    /\ readC' = [readC EXCEPT ![e][hdr[e]] = Append(@, Head(wire[e]))]
    /\ reader' = [reader EXCEPT ![e] = "header"]
    /\ UNCHANGED <<up, table, conn, muxClosed, writerVars, hdr, historyVars>>

\* Frames for connections that are not in the table are dropped.
Drop(e) ==
    /\ ReadsPayload(e)
    /\ hdr[e] \notin table[e]
    /\ dropped' = [dropped EXCEPT ![e] = IF conn[e][hdr[e]] = "none" THEN @ \cup {hdr[e]} ELSE @]
    /\ reader' = [reader EXCEPT ![e] = "header"]
    /\ UNCHANGED <<up, connVars, muxClosed, writerVars, hdr, sent, received>>

\* Mutant: when a queue is full, the reader waits for somebody to read.
OverflowWaits(e) == FALSE

Overflow(e) ==
    /\ ReadsPayload(e)
    /\ hdr[e] \in table[e] /\ Len(readC[e][hdr[e]]) = QueueLength
    /\ CloseMux(e)
    /\ reader' = [reader EXCEPT ![e] = "done"]
    /\ UNCHANGED <<table, readC, writerVars, hdr, historyVars>>

\* Mutant: an error on the trunk ends the reader but not the multiplexer.
TrunkEndsUnnoticed(e) ==
    /\ reader[e] \in {"header", "payload"} /\ ~muxClosed[e]
    /\ ~up /\ wire[e] = <<>>
    /\ reader' = [reader EXCEPT ![e] = "done"]
    /\ UNCHANGED <<trunkVars, connVars, muxClosed, writerVars, hdr, historyVars>>

\* The other end is gone, and all it sent has been read.
TrunkEnds(e) ==
    /\ reader[e] \in {"header", "payload"} /\ ~muxClosed[e]
    /\ ~up /\ wire[e] = <<>>
    /\ CloseMux(e)
    /\ reader' = [reader EXCEPT ![e] = "done"]
    /\ UNCHANGED <<wire, table, readC, writerVars, hdr, historyVars>>

\* The multiplexer was closed at this end.
ReaderStops(e) ==
    /\ reader[e] \in {"header", "payload"} /\ muxClosed[e]
    /\ reader' = [reader EXCEPT ![e] = "done"]
    /\ UNCHANGED <<trunkVars, connVars, muxClosed, writerVars, hdr, historyVars>>
-----------------------------------------------------------------------------
(***************************************************************************)
(* conn.Read takes a message from the queue or reports that the connection *)
(* is closed; if both are possible, select takes either.  The callers'     *)
(* buffers hold any frame.                                                 *)
(***************************************************************************)
Read(e, c) ==
    /\ conn[e][c] # "none" /\ readC[e][c] # <<>>
    /\ received' = [received EXCEPT ![e][c] = Append(@, Head(readC[e][c]))]
    /\ readC' = [readC EXCEPT ![e][c] = Tail(@)]
    /\ UNCHANGED <<trunkVars, table, conn, muxClosed, writerVars, readerVars, sent, dropped>>

Reader(e) == ReadHeader(e) \/ Queue(e) \/ Drop(e) \/ Overflow(e) \/ TrunkEnds(e) \/ ReaderStops(e)

Next ==
    \E e \in End :
       \/ Close(e) \/ Unblock(e) \/ Reader(e)
       \/ \E c \in Conn : \/ Open(e, c) \/ CloseConn(e, c)
                          \/ Write(e, c) \/ WriteHeader(e, c) \/ WritePayload(e, c)
                          \/ WriteFails(e, c)
                          \/ Read(e, c)

Spec == Init /\ [][Next]_vars

\* The reader goroutine keeps running.  Nobody has to read, write or close.
FairSpec == Spec /\ \A e \in End : WF_vars(Reader(e))
-----------------------------------------------------------------------------
TypeOK ==
    /\ up \in BOOLEAN
    /\ wire \in [End -> Seq(Chunk)]
    /\ table \in [End -> SUBSET Conn]
    /\ conn \in [End -> [Conn -> {"none", "open", "closed"}]]
    /\ readC \in [End -> [Conn -> Seq(Chunk)]]
    /\ \A e \in End, c \in Conn : Len(readC[e][c]) <= QueueLength
    /\ muxClosed \in [End -> BOOLEAN]
    /\ writeLock \in [End -> Conn \cup {None}]
    /\ writing \in [End -> [Conn -> {"idle", "waiting", "header", "payload"}]]
    /\ reader \in [End -> {"blocked", "header", "payload", "done"}]
    /\ hdr \in [End -> Conn \cup {None}]
    /\ \A e \in End : reader[e] = "payload" => hdr[e] \in Conn
    /\ sent \in [End -> [Conn -> Seq(Payload)]]
    /\ received \in [End -> [Conn -> Seq(Chunk)]]
    /\ dropped \in [End -> SUBSET Conn]

(***************************************************************************)
(* Two multiplexers and a trunk are one channel per connection and         *)
(* direction: whatever the writers interleave, the queues hold and the     *)
(* ends close, each receiver gets a prefix of what was sent to it.         *)
(***************************************************************************)
AsChannel(v) == [ec \in End \X Conn |-> v[ec[1]][ec[2]]]

Wires == INSTANCE Channels
         WITH Channel <- End \X Conn, Message <- Payload,
              sent <- AsChannel(sent), received <- AsChannel(received)

ImplementsChannels == Wires!Spec

(***************************************************************************)
(* No frame arrives before its connection is opened: Open signals nothing  *)
(* to the other end (mux.go:56), so that only the blocked reader of the    *)
(* runtime and the order in which the two sides begin to speak keep the    *)
(* first messages from being dropped.                                      *)
(***************************************************************************)
NothingDropped == \A e \in End : dropped[e] = {}

(***************************************************************************)
(* When the trunk is gone, every connection that was open is closed: no    *)
(* Read waits for a dead peer.                                             *)
(***************************************************************************)
LossIsNoticed ==
    \A e \in End :
       ~up /\ reader[e] # "blocked" /\ ~muxClosed[e] ~> \A c \in Conn : conn[e][c] # "open"

(***************************************************************************)
(* What is on the wire is taken off it even if nobody reads from the       *)
(* connection it is for: no connection holds up another.                   *)
(***************************************************************************)
NobodyHoldsUp ==
    \A e \in End : wire[e] # <<>> /\ reader[e] # "blocked" ~> wire[e] = <<>> \/ muxClosed[e]
=============================================================================
