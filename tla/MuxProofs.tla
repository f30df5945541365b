----------------------------- MODULE MuxProofs -----------------------------
(***************************************************************************)
(* Proofs about Mux: two multiplexers and a trunk implement one channel    *)
(* per connection and direction, and drop nothing that is sent before its  *)
(* connection is opened.                                                   *)
(***************************************************************************)
EXTENDS Mux, TLAPS

(***************************************************************************)
(* The inductive invariant.                                                *)
(***************************************************************************)
\* Frames are bounded.
InBounds ==
    \A e \in End, c \in Conn :
       writing[e][c] # "idle" => Len(sent[Peer(e)][c]) < MaxFrames[Peer(e)][c]

\* The lock is held by whoever is between a header and the end of its frames.
LockHeld ==
    \A e \in End, c \in Conn :
       writing[e][c] \in {"header", "payload"} => writeLock[e] = c

\* Until the multiplexer is closed its table holds the open connections.
TableOpen ==
    \A e \in End, c \in Conn : ~muxClosed[e] => (c \in table[e] <=> conn[e][c] = "open")

\* Nobody speaks out of turn, and a blocked reader has waited for all connections.
InTurn ==
    /\ \A e \in BlockedEnds : reader[e] # "blocked" => AllOpened(e)
    /\ \A e \in End :
         \/ wire[Peer(e)] # <<>>
         \/ reader[Peer(e)] = "payload"
         \/ \E c \in Conn : writing[e][c] # "idle" \/ sent[Peer(e)][c] # <<>>
         => Speaks(e)

\* Headers and payloads alternate, and each payload follows the header that names its
\* connection.
Alternate(w) ==
    \A i \in 1..Len(w) :
       i # 1 => IF w[i - 1].n = 0
                THEN w[i].n # 0 /\ w[i].id = w[i - 1].id
                ELSE w[i].n = 0

\* A header without its payload is that of the current writer.
Pending(e, c) ==
    IF wire[e] # <<>>
    THEN wire[e][Len(wire[e])].n = 0 /\ wire[e][Len(wire[e])].id = c
    ELSE reader[e] = "payload" /\ hdr[e] = c

Framed(e) ==
    /\ wire[e] # <<>> => IF reader[e] = "payload"
                         THEN wire[e][1].n # 0 /\ wire[e][1].id = hdr[e]
                         ELSE wire[e][1].n = 0
    /\ Alternate(wire[e])
    /\ up => \A c \in Conn : writing[Peer(e)][c] = "payload" <=> Pending(e, c)

\* What was sent over a connection, received and queued is numbered in order.
Numbered(e, c) ==
    /\ \A k \in 1..Len(sent[e][c]) : sent[e][c][k] = [id |-> c, n |-> k]
    /\ \A k \in 1..Len(received[e][c]) : received[e][c][k] = [id |-> c, n |-> k]
    /\ \A k \in 1..Len(readC[e][c]) :
          readC[e][c][k] = [id |-> c, n |-> Len(received[e][c]) + k]
    /\ Len(received[e][c]) + Len(readC[e][c]) <= Len(sent[e][c])

\* A wire carries the payloads after a up to b of a connection, in order.
On(w, c) == {i \in 1..Len(w) : w[i].id = c /\ w[i].n # 0}

Carries(w, c, a, b) ==
    /\ \A i \in On(w, c) : a < w[i].n /\ w[i].n <= b
    /\ \A i, j \in On(w, c) : i < j => w[i].n < w[j].n
    /\ \A k \in (a + 1)..b : \E i \in On(w, c) : w[i].n = k

\* Of a connection that is being read, what was sent and neither received nor queued
\* is on the wire.
Taken(e, c) == Len(received[e][c]) + Len(readC[e][c])
Underway(e, c) == Carries(wire[e], c, Taken(e, c), Len(sent[e][c]))

MuxInv ==
    /\ TypeOK /\ InBounds /\ LockHeld /\ TableOpen /\ InTurn /\ NothingDropped
    /\ \A e \in End :
         /\ reader[e] # "done" => Framed(e)
         /\ \A c \in Conn :
              /\ Numbered(e, c)
              /\ reader[e] # "done" /\ ~muxClosed[e] /\ conn[e][c] # "closed" => Underway(e, c)

-----------------------------------------------------------------------------
(***************************************************************************)
(* What a wire carries when something is put on it or taken off it.        *)
(***************************************************************************)
LEMMA AlternateTail ==
    ASSUME NEW S, NEW w \in Seq(S), w # <<>>, Alternate(w)
    PROVE  /\ Alternate(Tail(w))
           /\ Tail(w) # <<>> =>
                 /\ Tail(w)[Len(Tail(w))] = w[Len(w)]
                 /\ IF w[1].n = 0
                    THEN Tail(w)[1].n # 0 /\ Tail(w)[1].id = w[1].id
                    ELSE Tail(w)[1].n = 0
           /\ Tail(w) = <<>> => Len(w) = 1
<1> DEFINE v == Tail(w)
<1>1. /\ v \in Seq(S) /\ Len(v) = Len(w) - 1 /\ Len(v) \in Nat /\ Len(w) \in Nat
      /\ \A i \in 1..Len(v) : v[i] = w[i + 1]
  OBVIOUS
<1> HIDE DEF v
<1>2. v = <<>> => Len(w) = 1
  <2>1. v = <<>> => Len(v) = 0
    OBVIOUS
  <2>2. QED
    BY <1>1, <2>1
<1>3. v # <<>> => Len(w) >= 2
  <2>1. v # <<>> => Len(v) # 0
    BY <1>1
  <2>2. QED
    BY <1>1, <2>1
<1>4. Alternate(v)
  <2> SUFFICES ASSUME NEW i \in 1..Len(v), i # 1
               PROVE  IF v[i - 1].n = 0
                      THEN v[i].n # 0 /\ v[i].id = v[i - 1].id
                      ELSE v[i].n = 0
    BY DEF Alternate
  <2>1. i - 1 \in 1..Len(v) /\ (i - 1) + 1 = i /\ (i + 1) - 1 = i
        /\ i + 1 \in 1..Len(w) /\ i + 1 # 1
    BY <1>1
  <2>2. v[i] = w[i + 1] /\ v[i - 1] = w[i]
    BY <1>1, <2>1
  <2>3. QED
    BY <2>1, <2>2 DEF Alternate
<1>5. ASSUME v # <<>>
      PROVE  /\ v[Len(v)] = w[Len(w)]
             /\ IF w[1].n = 0
                THEN v[1].n # 0 /\ v[1].id = w[1].id
                ELSE v[1].n = 0
  <2>1. 2 \in 1..Len(w) /\ 2 - 1 = 1 /\ 1 \in 1..Len(v) /\ 1 + 1 = 2
        /\ Len(v) \in 1..Len(v) /\ Len(v) + 1 = Len(w)
    BY <1>1, <1>3, <1>5
  <2>2. v[1] = w[2] /\ v[Len(v)] = w[Len(w)]
    BY <1>1, <2>1
  <2>3. IF w[1].n = 0 THEN w[2].n # 0 /\ w[2].id = w[1].id ELSE w[2].n = 0
    BY <2>1 DEF Alternate
  <2>4. QED
    BY <2>2, <2>3
<1>6. QED
  BY <1>2, <1>4, <1>5 DEF v

LEMMA AlternateAppend ==
    ASSUME NEW S, NEW w \in Seq(S), NEW x \in S, Alternate(w),
           w # <<>> => IF w[Len(w)].n = 0
                       THEN x.n # 0 /\ x.id = w[Len(w)].id
                       ELSE x.n = 0
    PROVE  /\ Alternate(Append(w, x))
           /\ Append(w, x) # <<>>
           /\ Append(w, x)[Len(Append(w, x))] = x
           /\ Append(w, x)[1] = IF w = <<>> THEN x ELSE w[1]
<1> DEFINE v == Append(w, x)
<1>1. /\ v \in Seq(S) /\ Len(v) = Len(w) + 1 /\ Len(w) \in Nat
      /\ v[Len(v)] = x
      /\ \A i \in 1..Len(w) : v[i] = w[i]
  OBVIOUS
<1> HIDE DEF v
<1>2. v # <<>> /\ v[1] = IF w = <<>> THEN x ELSE w[1]
  <2>1. w # <<>> => 1 \in 1..Len(w)
    BY <1>1
  <2>2. w = <<>> => Len(v) = 1
    BY <1>1
  <2>3. v # <<>>
    BY <1>1
  <2>4. QED
    BY <1>1, <2>1, <2>2, <2>3
<1>3. Alternate(v)
  <2> SUFFICES ASSUME NEW i \in 1..Len(v), i # 1
               PROVE  IF v[i - 1].n = 0
                      THEN v[i].n # 0 /\ v[i].id = v[i - 1].id
                      ELSE v[i].n = 0
    BY DEF Alternate
  <2>1. i - 1 \in 1..Len(w)
    BY <1>1
  <2>2. v[i - 1] = w[i - 1]
    BY <1>1, <2>1
  <2>3. CASE i \in 1..Len(w)
    BY <1>1, <2>2, <2>3 DEF Alternate
  <2>4. CASE i \notin 1..Len(w)
    <3>1. i = Len(v) /\ i - 1 = Len(w) /\ w # <<>>
      BY <1>1, <2>1, <2>4
    <3>2. QED
      BY <1>1, <2>2, <3>1
  <2>5. QED
    BY <2>3, <2>4
<1>4. QED
  BY <1>1, <1>2, <1>3 DEF v

LEMMA CarriesTail ==
    ASSUME NEW S, \A x \in S : x.n \in Nat, NEW w \in Seq(S), w # <<>>,
           NEW c, NEW a \in Nat, NEW b \in Nat, Carries(w, c, a, b)
    PROVE  /\ w[1].id # c \/ w[1].n = 0 => Carries(Tail(w), c, a, b)
           /\ w[1].id = c /\ w[1].n # 0 => /\ w[1].n = a + 1 /\ a + 1 <= b
                                          /\ Carries(Tail(w), c, a + 1, b)
<1> DEFINE v == Tail(w)
<1>1. /\ v \in Seq(S) /\ Len(v) = Len(w) - 1 /\ Len(v) \in Nat /\ Len(w) \in Nat
      /\ \A i \in 1..Len(v) : v[i] = w[i + 1]
      /\ \A i \in 1..Len(w) : w[i].n \in Nat
      /\ 1 \in 1..Len(w)
  OBVIOUS
<1> HIDE DEF v
<1>2. \A i \in On(v, c) : i \in Nat /\ i + 1 \in On(w, c) /\ i + 1 # 1 /\ v[i] = w[i + 1]
  BY <1>1 DEF On
<1>3. \A i \in On(w, c) : i # 1 => i - 1 \in On(v, c) /\ v[i - 1] = w[i]
  <2> SUFFICES ASSUME NEW i \in On(w, c), i # 1
               PROVE  i - 1 \in On(v, c) /\ v[i - 1] = w[i]
    OBVIOUS
  <2>1. i - 1 \in 1..Len(v) /\ (i - 1) + 1 = i
    BY <1>1 DEF On
  <2>2. v[i - 1] = w[i]
    BY <1>1, <2>1
  <2>3. QED
    BY <2>1, <2>2 DEF On
<1>4. \A i, j \in On(v, c) : i < j => v[i].n < v[j].n
  <2> SUFFICES ASSUME NEW i \in On(v, c), NEW j \in On(v, c), i < j
               PROVE  v[i].n < v[j].n
    OBVIOUS
  <2>1. i + 1 < j + 1
    BY <1>2
  <2>2. QED
    BY <1>2, <2>1 DEF Carries
<1>5. \A i \in On(v, c) : a < v[i].n /\ v[i].n <= b
  BY <1>2 DEF Carries
<1>6. ASSUME w[1].id # c \/ w[1].n = 0
      PROVE  Carries(v, c, a, b)
  <2>1. 1 \notin On(w, c)
    BY <1>6 DEF On
  <2>2. \A k \in (a + 1)..b : \E i \in On(v, c) : v[i].n = k
    BY <1>3, <2>1 DEF Carries
  <2>3. QED
    BY <1>4, <1>5, <2>2 DEF Carries
<1>7. ASSUME w[1].id = c, w[1].n # 0
      PROVE  w[1].n = a + 1 /\ a + 1 <= b /\ Carries(v, c, a + 1, b)
  <2>1. 1 \in On(w, c)
    BY <1>1, <1>7 DEF On
  <2>2. a < w[1].n /\ w[1].n <= b /\ w[1].n \in Nat
    BY <1>1, <2>1 DEF Carries
  <2>3. a + 1 \in (a + 1)..b
    BY <2>2
  <2>4. PICK i \in On(w, c) : w[i].n = a + 1
    BY <2>3 DEF Carries
  <2>5. i = 1
    <3>1. i \in Nat /\ i >= 1
      BY DEF On
    <3>2. ~(1 < i)
      BY <2>1, <2>2, <2>4 DEF Carries
    <3>3. QED
      BY <3>1, <3>2
  <2>6. w[1].n = a + 1
    BY <2>4, <2>5
  <2>7. \A j \in On(v, c) : a + 1 < v[j].n /\ v[j].n <= b
    <3> SUFFICES ASSUME NEW j \in On(v, c)
                 PROVE  a + 1 < v[j].n
      BY <1>5
    <3>1. 1 < j + 1
      BY <1>2
    <3>2. w[1].n < w[j + 1].n
      BY <1>2, <2>1, <3>1 DEF Carries
    <3>3. QED
      BY <1>2, <2>6, <3>2
  <2>8. ASSUME NEW k \in ((a + 1) + 1)..b
        PROVE  \E j \in On(v, c) : v[j].n = k
    <3>1. k \in (a + 1)..b /\ k # a + 1
      OBVIOUS
    <3>2. PICK j \in On(w, c) : w[j].n = k
      BY <3>1 DEF Carries
    <3>3. QED
      BY <1>3, <2>6, <3>1, <3>2
  <2>9. QED
    BY <1>4, <2>2, <2>6, <2>7, <2>8 DEF Carries
<1>8. QED
  BY <1>6, <1>7 DEF v

LEMMA CarriesAppend ==
    ASSUME NEW S, \A x \in S : x.n \in Nat, NEW w \in Seq(S), NEW x \in S,
           NEW c, NEW a \in Nat, NEW b \in Nat, Carries(w, c, a, b)
    PROVE  /\ x.id # c \/ x.n = 0 => Carries(Append(w, x), c, a, b)
           /\ x.id = c /\ x.n = b + 1 /\ a <= b => Carries(Append(w, x), c, a, b + 1)
<1> DEFINE v == Append(w, x)
<1>1. /\ v \in Seq(S) /\ Len(v) = Len(w) + 1 /\ Len(w) \in Nat
      /\ v[Len(v)] = x
      /\ \A i \in 1..Len(w) : v[i] = w[i]
      /\ \A i \in 1..Len(w) : w[i].n \in Nat
  OBVIOUS
<1> HIDE DEF v
<1>2. On(w, c) \subseteq On(v, c) /\ \A i \in On(w, c) : v[i] = w[i]
  BY <1>1 DEF On
<1>3. \A i \in On(v, c) : i \in On(w, c) \/ i = Len(v)
  BY <1>1 DEF On
<1>4. ASSUME x.id # c \/ x.n = 0
      PROVE  Carries(v, c, a, b)
  <2>1. On(v, c) = On(w, c)
    BY <1>1, <1>2, <1>3, <1>4 DEF On
  <2>2. QED
    BY <1>2, <2>1 DEF Carries
<1>5. ASSUME x.id = c, x.n = b + 1, a <= b
      PROVE  Carries(v, c, a, b + 1)
  <2>1. Len(v) \in On(v, c)
    BY <1>1, <1>5 DEF On
  <2>2. \A i \in On(v, c) : a < v[i].n /\ v[i].n <= b + 1
    <3> TAKE i \in On(v, c)
    <3>1. CASE i \in On(w, c)
      <4>1. a < w[i].n /\ w[i].n <= b /\ w[i].n \in Nat
        BY <1>1, <3>1 DEF Carries, On
      <4>2. QED
        BY <1>2, <3>1, <4>1
    <3>2. CASE i = Len(v)
      BY <1>1, <1>5, <3>2
    <3>3. QED
      BY <1>3, <3>1, <3>2
  <2>3. ASSUME NEW i \in On(v, c), NEW j \in On(v, c), i < j
        PROVE  v[i].n < v[j].n
    <3>1. i \in On(w, c)
      <4>1. i # Len(v)
        BY <1>1, <2>3 DEF On
      <4>2. QED
        BY <1>3, <4>1
    <3>2. CASE j \in On(w, c)
      BY <1>2, <2>3, <3>1, <3>2 DEF Carries
    <3>3. CASE j = Len(v)
      <4>1. w[i].n <= b /\ w[i].n \in Nat
        BY <1>1, <3>1 DEF Carries, On
      <4>2. QED
        BY <1>1, <1>2, <1>5, <3>1, <3>3, <4>1
    <3>4. QED
      BY <1>3, <3>2, <3>3
  <2>4. ASSUME NEW k \in (a + 1)..(b + 1)
        PROVE  \E i \in On(v, c) : v[i].n = k
    <3>1. CASE k = b + 1
      BY <1>1, <1>5, <2>1, <3>1
    <3>2. CASE k # b + 1
      <4>1. k \in (a + 1)..b
        BY <3>2
      <4>2. QED
        BY <1>2, <4>1 DEF Carries
    <3>3. QED
      BY <3>1, <3>2
  <2>5. QED
    BY <2>2, <2>3, <2>4 DEF Carries
<1>6. QED
  BY <1>4, <1>5 DEF v

LEMMA Ends ==
    ASSUME NEW e \in End
    PROVE  /\ Peer(e) \in End /\ Peer(e) # e /\ Peer(Peer(e)) = e
           /\ \A f \in End : f # e => f = Peer(e)
<1>1. PICK a \in End, b \in End : a # b /\ End = {a, b}
  BY MuxAssumption
<1>2. \A f \in End : Peer(f) \in End /\ Peer(f) # f
  <2> TAKE f \in End
  <2>1. \E g \in End : g # f
    BY <1>1
  <2>2. QED
    BY <2>1 DEF Peer
<1>3. QED
  BY <1>1, <1>2

\* What mux.Close does, whether or not it was called before.
LEMMA ClosingMux ==
    ASSUME TypeOK, NEW e \in End, CloseMux(e)
    PROVE  /\ muxClosed' \in [End -> BOOLEAN] /\ muxClosed'[e]
           /\ \A f \in End : f # e => muxClosed'[f] = muxClosed[f] /\ conn'[f] = conn[f]
           /\ conn' \in [End -> [Conn -> {"none", "open", "closed"}]]
           /\ \A f \in End, c \in Conn :
                 /\ conn[f][c] # "none" => conn'[f][c] # "none"
                 /\ conn[f][c] = "closed" => conn'[f][c] = "closed"
           /\ up' \in BOOLEAN /\ (up' => up)
<1>1. CASE muxClosed[e]
  BY <1>1 DEF CloseMux, TypeOK
<1>2. CASE ~muxClosed[e]
  <2> DEFINE row == [c \in Conn |-> IF c \in table[e] THEN "closed" ELSE conn[e][c]]
  <2>1. row \in [Conn -> {"none", "open", "closed"}]
    BY DEF TypeOK
  <2>2. conn' = [conn EXCEPT ![e] = row]
    BY <1>2 DEF CloseMux
  <2>3. conn' \in [End -> [Conn -> {"none", "open", "closed"}]]
    BY <2>1, <2>2 DEF TypeOK
  <2>4. \A f \in End, c \in Conn :
           /\ conn[f][c] # "none" => conn'[f][c] # "none"
           /\ conn[f][c] = "closed" => conn'[f][c] = "closed"
    BY <2>2 DEF TypeOK
  <2>5. muxClosed' = [muxClosed EXCEPT ![e] = TRUE] /\ up' = FALSE
    BY <1>2 DEF CloseMux
  <2>6. /\ muxClosed' \in [End -> BOOLEAN] /\ muxClosed'[e]
        /\ \A f \in End : f # e => muxClosed'[f] = muxClosed[f]
    BY <2>5 DEF TypeOK
  <2>7. \A f \in End : f # e => conn'[f] = conn[f]
    BY <2>2 DEF TypeOK
  <2>8. QED
    BY <2>3, <2>4, <2>5, <2>6, <2>7
<1>3. QED
  BY <1>1, <1>2

LEMMA InPosition ==
    ASSUME NEW e \in End, NEW c \in Conn, NEW n \in 1..MaxFrames[e][c]
    PROVE  n \in Position
<1> DEFINE Sets == {1..MaxFrames[f][d] : f \in End, d \in Conn}
<1>1. 1..MaxFrames[e][c] \in Sets
  OBVIOUS
<1>2. Position = UNION Sets
  BY DEF Position
<1> HIDE DEF Sets
<1>3. QED
  BY <1>1, <1>2

LEMMA TypeNext ==
    ASSUME TypeOK, InBounds, [Next]_vars
    PROVE  TypeOK'
<1> USE DEF trunkVars, connVars, writerVars, readerVars, historyVars
<1>1. CASE UNCHANGED vars
  BY <1>1 DEF vars, TypeOK
<1>2. ASSUME NEW e \in End, Close(e)
      PROVE  TypeOK'
  BY <1>2, ClosingMux DEF Close, TypeOK
<1>3. ASSUME NEW e \in End, Unblock(e)
      PROVE  TypeOK'
  BY <1>3 DEF Unblock, TypeOK
<1>4. ASSUME NEW e \in End, ReaderStops(e)
      PROVE  TypeOK'
  BY <1>4 DEF ReaderStops, TypeOK
<1>5. ASSUME NEW e \in End, ReadHeader(e)
      PROVE  TypeOK'
  <2>1. wire' \in [End -> Seq(Chunk)] /\ Head(wire[e]) \in Chunk
    BY <1>5 DEF ReadHeader, TypeOK
  <2>2. Head(wire[e]).id \in Conn
    BY <2>1 DEF Chunk
  <2>3. QED
    BY <1>5, <2>1, <2>2 DEF ReadHeader, TypeOK
<1>6. ASSUME NEW e \in End, ReadsPayload(e)
      PROVE  wire' \in [End -> Seq(Chunk)] /\ Head(wire[e]) \in Chunk /\ hdr[e] \in Conn
  BY <1>6 DEF ReadsPayload, TypeOK
<1>7. ASSUME NEW e \in End, Queue(e)
      PROVE  TypeOK'
  <2>1. wire' \in [End -> Seq(Chunk)] /\ Head(wire[e]) \in Chunk /\ hdr[e] \in Conn
    BY <1>6, <1>7 DEF Queue
  <2>2. readC' = [readC EXCEPT ![e][hdr[e]] = Append(@, Head(wire[e]))]
        /\ Len(readC[e][hdr[e]]) < QueueLength
    BY <1>7 DEF Queue
  <2>3. readC' \in [End -> [Conn -> Seq(Chunk)]]
    BY <2>1, <2>2 DEF TypeOK
  <2>4. Len(Append(readC[e][hdr[e]], Head(wire[e]))) <= QueueLength
    <3>1. readC[e][hdr[e]] \in Seq(Chunk) /\ QueueLength \in Nat
      BY <2>1, MuxAssumption DEF TypeOK
    <3>2. QED
      BY <2>1, <2>2, <3>1
  <2>5. \A f \in End, c \in Conn : Len(readC'[f][c]) <= QueueLength
    BY <2>1, <2>2, <2>4 DEF TypeOK
  <2>6. QED
    BY <1>7, <2>1, <2>3, <2>5 DEF Queue, TypeOK
<1>8. ASSUME NEW e \in End, Drop(e)
      PROVE  TypeOK'
  <2>1. wire' \in [End -> Seq(Chunk)] /\ hdr[e] \in Conn
    BY <1>6, <1>8 DEF Drop
  <2>2. QED
    BY <1>8, <2>1 DEF Drop, TypeOK
<1>9. ASSUME NEW e \in End, Overflow(e)
      PROVE  TypeOK'
  <2>1. wire' \in [End -> Seq(Chunk)]
    BY <1>6, <1>9 DEF Overflow
  <2>2. QED
    BY <1>9, <2>1, ClosingMux DEF Overflow, TypeOK
<1>10. ASSUME NEW e \in End, TrunkEnds(e)
       PROVE  TypeOK'
  BY <1>10, ClosingMux DEF TrunkEnds, TypeOK
<1>11. ASSUME NEW e \in End, NEW c \in Conn, Open(e, c)
       PROVE  TypeOK'
  BY <1>11 DEF Open, TypeOK
<1>12. ASSUME NEW e \in End, NEW c \in Conn, CloseConn(e, c)
       PROVE  TypeOK'
  BY <1>12 DEF CloseConn, TypeOK
<1>13. ASSUME NEW e \in End, NEW c \in Conn, Write(e, c)
       PROVE  TypeOK'
  BY <1>13 DEF Write, TypeOK
<1>14. ASSUME NEW e \in End, NEW c \in Conn, WriteHeader(e, c)
       PROVE  TypeOK'
  <2>1. [id |-> c, n |-> 0] \in Chunk /\ Peer(e) \in End
    BY Ends DEF Chunk
  <2>2. wire' \in [End -> Seq(Chunk)]
    BY <1>14, <2>1 DEF WriteHeader, TypeOK
  <2>3. QED
    BY <1>14, <2>2 DEF WriteHeader, TypeOK
<1>15. ASSUME NEW e \in End, NEW c \in Conn, WritePayload(e, c)
       PROVE  TypeOK'
  <2> DEFINE f == Peer(e)
             m == [id |-> c, n |-> Len(sent[f][c]) + 1]
  <2>1. f \in End /\ sent[f][c] \in Seq(Payload)
    BY Ends DEF TypeOK
  <2>2. /\ writing[e][c] # "idle" /\ wire' = [wire EXCEPT ![f] = Append(@, m)]
        /\ sent' = [sent EXCEPT ![f][c] = Append(@, m)]
    BY <1>15 DEF WritePayload
  <2>3. Len(sent[f][c]) + 1 \in 1..MaxFrames[f][c]
    <3>1. MaxFrames[f][c] \in Nat /\ Len(sent[f][c]) \in Nat
      BY <2>1, MuxAssumption
    <3>2. Len(sent[f][c]) < MaxFrames[f][c]
      BY <2>2 DEF InBounds
    <3>3. QED
      BY <3>1, <3>2
  <2>4. Len(sent[f][c]) + 1 \in Position
    BY <2>1, <2>3, InPosition
  <2>5. m \in Payload /\ m \in Chunk
    BY <2>4 DEF Payload, Chunk
  <2> HIDE DEF m
  <2>6. wire' \in [End -> Seq(Chunk)] /\ sent' \in [End -> [Conn -> Seq(Payload)]]
    <3>1. Append(wire[f], m) \in Seq(Chunk) /\ Append(sent[f][c], m) \in Seq(Payload)
      BY <2>1, <2>5 DEF TypeOK
    <3>2. QED
      BY <2>1, <2>2, <3>1 DEF TypeOK
  <2>7. /\ writing' \in [End -> [Conn -> {"idle", "waiting", "header", "payload"}]]
        /\ writeLock' \in [End -> Conn \cup {None}]
    <3>1. \/ writing' = [writing EXCEPT ![e][c] = "header"] /\ UNCHANGED writeLock
          \/ /\ writing' = [writing EXCEPT ![e][c] = "idle"]
             /\ writeLock' = [writeLock EXCEPT ![e] = None]
      BY <1>15 DEF WritePayload
    <3>2. /\ writing \in [End -> [Conn -> {"idle", "waiting", "header", "payload"}]]
          /\ writeLock \in [End -> Conn \cup {None}]
      BY DEF TypeOK
    <3>3. QED
      BY <3>1, <3>2
  <2>8. UNCHANGED <<up, connVars, muxClosed, readerVars, received, dropped>>
    BY <1>15 DEF WritePayload
  <2>9. QED
    BY <2>6, <2>7, <2>8 DEF TypeOK
<1>16. ASSUME NEW e \in End, NEW c \in Conn, WriteFails(e, c)
       PROVE  TypeOK'
  <2>1. CASE CloseMux(e)
    BY <1>16, <2>1, ClosingMux DEF WriteFails, TypeOK
  <2>2. CASE UNCHANGED <<muxClosed, conn, up>>
    BY <1>16, <2>2 DEF WriteFails, TypeOK
  <2>3. QED
    BY <1>16, <2>1, <2>2 DEF WriteFails
<1>17. ASSUME NEW e \in End, NEW c \in Conn, Read(e, c)
       PROVE  TypeOK'
  <2>1. /\ readC[e][c] \in Seq(Chunk) /\ readC[e][c] # <<>>
        /\ received' = [received EXCEPT ![e][c] = Append(@, Head(readC[e][c]))]
        /\ readC' = [readC EXCEPT ![e][c] = Tail(@)]
    BY <1>17 DEF Read, TypeOK
  <2>2. /\ Head(readC[e][c]) \in Chunk /\ Tail(readC[e][c]) \in Seq(Chunk)
        /\ Len(Tail(readC[e][c])) <= Len(readC[e][c])
    BY <2>1
  <2>3. received' \in [End -> [Conn -> Seq(Chunk)]]
    BY <2>1, <2>2 DEF TypeOK
  <2>4. readC' \in [End -> [Conn -> Seq(Chunk)]]
    BY <2>1, <2>2 DEF TypeOK
  <2>5. Len(Tail(readC[e][c])) <= QueueLength
    BY <2>1, <2>2, MuxAssumption DEF TypeOK
  <2>6. \A f \in End, d \in Conn : Len(readC'[f][d]) <= QueueLength
    BY <2>1, <2>5 DEF TypeOK
  <2>7. QED
    BY <1>17, <2>3, <2>4, <2>6 DEF Read, TypeOK
<1>18. QED
  BY <1>1, <1>2, <1>3, <1>4, <1>5, <1>7, <1>8, <1>9, <1>10, <1>11, <1>12, <1>13, <1>14,
     <1>15, <1>16, <1>17 DEF Next, Reader

(***************************************************************************)
(* What a step leaves alone.                                               *)
(***************************************************************************)
LEMMA WritersKept ==
    ASSUME [Next]_vars,
           \A e \in End, c \in Conn : /\ ~Write(e, c) /\ ~WriteHeader(e, c)
                                      /\ ~WritePayload(e, c) /\ ~WriteFails(e, c)
    PROVE  UNCHANGED <<writing, writeLock, sent>>
BY DEF Next, vars, Close, Unblock, Reader, ReadHeader, Queue, Drop, Overflow, TrunkEnds,
       ReaderStops, Open, CloseConn, Read, trunkVars, connVars, writerVars, readerVars,
       historyVars

LEMMA ConnsKept ==
    ASSUME [Next]_vars,
           \A e \in End : ~(CloseMux(e) /\ UNCHANGED table),
           \A e \in End, c \in Conn : ~Open(e, c) /\ ~CloseConn(e, c)
    PROVE  UNCHANGED <<table, conn, muxClosed>>
<1> USE DEF trunkVars, connVars, writerVars, readerVars, historyVars
<1>1. CASE UNCHANGED vars
  BY <1>1 DEF vars
<1>2. ASSUME NEW e \in End, Close(e) \/ Unblock(e) \/ Reader(e)
      PROVE  UNCHANGED <<table, conn, muxClosed>>
  BY <1>2 DEF Close, Unblock, Reader, ReadHeader, Queue, Drop, Overflow, TrunkEnds,
          ReaderStops
<1>3. ASSUME NEW e \in End, NEW c \in Conn,
             \/ Write(e, c) \/ WriteHeader(e, c) \/ WritePayload(e, c) \/ WriteFails(e, c)
             \/ Read(e, c)
      PROVE  UNCHANGED <<table, conn, muxClosed>>
  BY <1>3 DEF Write, WriteHeader, WritePayload, WriteFails, Read
<1>4. QED
  BY <1>1, <1>2, <1>3 DEF Next

(***************************************************************************)
(* The writers.                                                            *)
(***************************************************************************)
LEMMA InBoundsNext ==
    ASSUME TypeOK, InBounds, [Next]_vars
    PROVE  InBounds'
<1> SUFFICES ASSUME NEW e \in End, NEW c \in Conn, writing'[e][c] # "idle"
             PROVE  Len(sent'[Peer(e)][c]) < MaxFrames[Peer(e)][c]
  BY DEF InBounds
<1> USE DEF trunkVars, connVars, writerVars, readerVars, historyVars
<1>1. Peer(e) \in End
  BY Ends
<1>2. ASSUME NEW f \in End, NEW d \in Conn, WritePayload(f, d)
      PROVE  Len(sent'[Peer(e)][c]) < MaxFrames[Peer(e)][c]
  <2>1. CASE f = e /\ d = c
    BY <1>1, <1>2, <2>1 DEF WritePayload, TypeOK
  <2>2. CASE f # e \/ d # c
    <3>1. writing'[e][c] = writing[e][c]
      BY <1>2, <2>2 DEF WritePayload, TypeOK
    <3>2. Peer(f) # Peer(e) \/ d # c
      BY <2>2, Ends
    <3>3. sent'[Peer(e)][c] = sent[Peer(e)][c]
      BY <1>1, <1>2, <3>2 DEF WritePayload, TypeOK
    <3>4. QED
      BY <3>1, <3>3 DEF InBounds
  <2>3. QED
    BY <2>1, <2>2
<1>3. ASSUME NEW f \in End, NEW d \in Conn, Write(f, d)
      PROVE  Len(sent'[Peer(e)][c]) < MaxFrames[Peer(e)][c]
  <2>1. writing[e][c] # "idle" \/ (e = f /\ c = d)
    BY <1>3 DEF Write, TypeOK
  <2>2. sent' = sent /\ Len(sent[Peer(f)][d]) < MaxFrames[Peer(f)][d]
    BY <1>3 DEF Write
  <2>3. QED
    BY <2>1, <2>2 DEF InBounds
<1>4. ASSUME NEW f \in End, NEW d \in Conn, WriteHeader(f, d) \/ WriteFails(f, d)
      PROVE  Len(sent'[Peer(e)][c]) < MaxFrames[Peer(e)][c]
  <2>1. writing[e][c] # "idle"
    <3>1. writing[f][d] # "idle"
      BY <1>4 DEF WriteHeader, WriteFails
    <3>2. writing' = [writing EXCEPT ![f][d] = "payload"]
          \/ writing' = [writing EXCEPT ![f][d] = "idle"]
      BY <1>4 DEF WriteHeader, WriteFails
    <3>3. writing \in [End -> [Conn -> {"idle", "waiting", "header", "payload"}]]
      BY DEF TypeOK
    <3>4. QED
      BY <3>1, <3>2, <3>3
  <2>2. sent' = sent
    BY <1>4 DEF WriteHeader, WriteFails
  <2>3. QED
    BY <2>1, <2>2 DEF InBounds
<1>5. CASE \A f \in End, d \in Conn : /\ ~Write(f, d) /\ ~WriteHeader(f, d)
                                      /\ ~WritePayload(f, d) /\ ~WriteFails(f, d)
  BY <1>5, WritersKept DEF InBounds
<1>6. QED
  BY <1>2, <1>3, <1>4, <1>5

LEMMA LockHeldNext ==
    ASSUME TypeOK, LockHeld, [Next]_vars
    PROVE  LockHeld'
<1> USE DEF LockHeld, trunkVars, connVars, writerVars, readerVars, historyVars
<1>1. ASSUME NEW f \in End, NEW d \in Conn, Write(f, d)
      PROVE  LockHeld'
  BY <1>1 DEF Write, TypeOK
<1>2. ASSUME NEW f \in End, NEW d \in Conn, WriteHeader(f, d)
      PROVE  LockHeld'
  BY <1>2, MuxAssumption DEF WriteHeader, TypeOK
<1>3. ASSUME NEW f \in End, NEW d \in Conn, WritePayload(f, d)
      PROVE  LockHeld'
  <2>1. writing[f][d] = "payload" /\ writeLock[f] = d
    BY <1>3 DEF WritePayload
  <2>2. \/ writing' = [writing EXCEPT ![f][d] = "header"] /\ UNCHANGED writeLock
        \/ /\ writing' = [writing EXCEPT ![f][d] = "idle"]
           /\ writeLock' = [writeLock EXCEPT ![f] = None]
    BY <1>3 DEF WritePayload
  <2>3. /\ writing \in [End -> [Conn -> {"idle", "waiting", "header", "payload"}]]
        /\ writeLock \in [End -> Conn \cup {None}]
    BY DEF TypeOK
  <2>4. QED
    BY <2>1, <2>2, <2>3
<1>4. ASSUME NEW f \in End, NEW d \in Conn, WriteFails(f, d)
      PROVE  LockHeld'
  BY <1>4, MuxAssumption DEF WriteFails, TypeOK
<1>5. CASE \A f \in End, d \in Conn : /\ ~Write(f, d) /\ ~WriteHeader(f, d)
                                      /\ ~WritePayload(f, d) /\ ~WriteFails(f, d)
  BY <1>5, WritersKept
<1>6. QED
  BY <1>1, <1>2, <1>3, <1>4, <1>5

(***************************************************************************)
(* The connections.                                                        *)
(***************************************************************************)
LEMMA TableOpenNext ==
    ASSUME TypeOK, TableOpen, [Next]_vars
    PROVE  TableOpen'
<1> USE DEF TableOpen, trunkVars, connVars, writerVars, readerVars, historyVars
<1>1. ASSUME NEW e \in End, CloseMux(e), UNCHANGED table
      PROVE  TableOpen'
  BY <1>1, ClosingMux
<1>2. ASSUME NEW e \in End, NEW c \in Conn, Open(e, c)
      PROVE  TableOpen'
  BY <1>2 DEF Open, TypeOK
<1>3. ASSUME NEW e \in End, NEW c \in Conn, CloseConn(e, c)
      PROVE  TableOpen'
  BY <1>3 DEF CloseConn, TypeOK
<1>4. CASE /\ \A e \in End : ~(CloseMux(e) /\ UNCHANGED table)
           /\ \A e \in End, c \in Conn : ~Open(e, c) /\ ~CloseConn(e, c)
  BY <1>4, ConnsKept
<1>5. QED
  BY <1>1, <1>2, <1>3, <1>4

LEMMA ConnStays ==
    ASSUME TypeOK, [Next]_vars, NEW e \in End, NEW c \in Conn
    PROVE  /\ conn[e][c] # "none" => conn'[e][c] # "none"
           /\ conn[e][c] = "closed" => conn'[e][c] = "closed"
<1>1. ASSUME NEW f \in End, CloseMux(f)
      PROVE  /\ conn[e][c] # "none" => conn'[e][c] # "none"
             /\ conn[e][c] = "closed" => conn'[e][c] = "closed"
  BY <1>1, ClosingMux
<1>2. ASSUME NEW f \in End, NEW d \in Conn, Open(f, d)
      PROVE  /\ conn[e][c] # "none" => conn'[e][c] # "none"
             /\ conn[e][c] = "closed" => conn'[e][c] = "closed"
  BY <1>2 DEF Open, TypeOK
<1>3. ASSUME NEW f \in End, NEW d \in Conn, CloseConn(f, d)
      PROVE  /\ conn[e][c] # "none" => conn'[e][c] # "none"
             /\ conn[e][c] = "closed" => conn'[e][c] = "closed"
  BY <1>3 DEF CloseConn, TypeOK
<1>4. QED
  BY <1>1, <1>2, <1>3, ConnsKept

LEMMA ReceivedKept ==
    ASSUME [Next]_vars, \A e \in End, c \in Conn : ~Read(e, c)
    PROVE  UNCHANGED received
<1> USE DEF trunkVars, connVars, writerVars, readerVars, historyVars
<1>1. CASE UNCHANGED vars
  BY <1>1 DEF vars
<1>2. ASSUME NEW e \in End, Close(e) \/ Unblock(e) \/ Reader(e)
      PROVE  UNCHANGED received
  BY <1>2 DEF Close, Unblock, Reader, ReadHeader, Queue, Drop, Overflow, TrunkEnds,
          ReaderStops
<1>3. ASSUME NEW e \in End, NEW c \in Conn,
             \/ Open(e, c) \/ CloseConn(e, c)
             \/ Write(e, c) \/ WriteHeader(e, c) \/ WritePayload(e, c) \/ WriteFails(e, c)
      PROVE  UNCHANGED received
  BY <1>3 DEF Open, CloseConn, Write, WriteHeader, WritePayload, WriteFails
<1>4. QED
  BY <1>1, <1>2, <1>3 DEF Next

LEMMA ReceivedStays ==
    ASSUME TypeOK, [Next]_vars, NEW e \in End, NEW c \in Conn, received[e][c] # <<>>
    PROVE  received'[e][c] # <<>>
<1>1. ASSUME NEW f \in End, NEW d \in Conn, Read(f, d)
      PROVE  received'[e][c] # <<>>
  <2>1. received' = [received EXCEPT ![f][d] = Append(@, Head(readC[f][d]))]
    BY <1>1 DEF Read
  <2>2. received[f][d] \in Seq(Chunk) /\ Head(readC[f][d]) \in Chunk
    BY <1>1 DEF Read, TypeOK
  <2>3. Append(received[f][d], Head(readC[f][d])) # <<>>
    BY <2>2
  <2>4. QED
    BY <2>1, <2>3 DEF TypeOK
<1>2. CASE \A f \in End, d \in Conn : ~Read(f, d)
  BY <1>2, ReceivedKept
<1>3. QED
  BY <1>1, <1>2

(***************************************************************************)
(* Nobody speaks out of turn.                                              *)
(***************************************************************************)
LEMMA ReaderKept ==
    ASSUME TypeOK, [Next]_vars, NEW e \in End, ~Unblock(e), ~Reader(e)
    PROVE  /\ reader'[e] = reader[e] /\ hdr'[e] = hdr[e]
           /\ wire'[e] = wire[e] \/ \E c \in Conn : WriteHeader(Peer(e), c) \/ WritePayload(Peer(e), c)
<1> USE DEF trunkVars, connVars, writerVars, readerVars, historyVars
<1>1. CASE UNCHANGED vars
  BY <1>1 DEF vars
<1>2. ASSUME NEW f \in End, f # e, Unblock(f) \/ ReaderStops(f) \/ TrunkEnds(f)
      PROVE  reader'[e] = reader[e] /\ hdr'[e] = hdr[e] /\ wire'[e] = wire[e]
  BY <1>2 DEF Unblock, ReaderStops, TrunkEnds, TypeOK
<1>3. ASSUME NEW f \in End, f # e, ReadHeader(f)
      PROVE  reader'[e] = reader[e] /\ hdr'[e] = hdr[e] /\ wire'[e] = wire[e]
  BY <1>3 DEF ReadHeader, TypeOK
<1>4. ASSUME NEW f \in End, f # e, Queue(f) \/ Drop(f) \/ Overflow(f)
      PROVE  reader'[e] = reader[e] /\ hdr'[e] = hdr[e] /\ wire'[e] = wire[e]
  BY <1>4 DEF Queue, Drop, Overflow, ReadsPayload, TypeOK
<1>5. ASSUME NEW f \in End, Close(f)
      PROVE  reader'[e] = reader[e] /\ hdr'[e] = hdr[e] /\ wire'[e] = wire[e]
  BY <1>5 DEF Close
<1>6. ASSUME NEW f \in End, NEW c \in Conn,
             Open(f, c) \/ CloseConn(f, c) \/ Write(f, c) \/ WriteFails(f, c) \/ Read(f, c)
      PROVE  reader'[e] = reader[e] /\ hdr'[e] = hdr[e] /\ wire'[e] = wire[e]
  BY <1>6 DEF Open, CloseConn, Write, WriteFails, Read
<1>7. ASSUME NEW f \in End, NEW c \in Conn, WriteHeader(f, c) \/ WritePayload(f, c)
      PROVE  /\ reader'[e] = reader[e] /\ hdr'[e] = hdr[e]
             /\ wire'[e] = wire[e] \/ f = Peer(e)
  <2>1. reader' = reader /\ hdr' = hdr
    BY <1>7 DEF WriteHeader, WritePayload
  <2>2. f = e => wire'[e] = wire[e]
    BY <1>7, Ends DEF WriteHeader, WritePayload, TypeOK
  <2>3. QED
    BY <2>1, <2>2, Ends
<1>8. QED
  BY <1>1, <1>2, <1>3, <1>4, <1>5, <1>6, <1>7 DEF Next, Reader

LEMMA SpeaksStays ==
    ASSUME TypeOK, [Next]_vars, NEW e \in End, Speaks(e)
    PROVE  Speaks(e)'
BY ConnStays, ReceivedStays DEF Speaks, AllOpened

LEMMA InTurnNext ==
    ASSUME TypeOK, InTurn, [Next]_vars
    PROVE  InTurn'
<1>1. ASSUME NEW e \in BlockedEnds, reader'[e] # "blocked"
      PROVE  AllOpened(e)'
  <2>1. e \in End
    BY MuxAssumption
  <2>2. AllOpened(e)
    <3>1. CASE Unblock(e)
      BY <3>1 DEF Unblock
    <3>2. CASE ~Unblock(e)
      <4>1. reader[e] # "blocked"
        BY <1>1, <2>1, <3>2, ReaderKept DEF Reader, ReadHeader, Queue, Drop, Overflow,
           ReadsPayload, TrunkEnds, ReaderStops
      <4>2. QED
        BY <4>1 DEF InTurn
    <3>3. QED
      BY <3>1, <3>2
  <2>3. QED
    BY <2>1, <2>2, ConnStays DEF AllOpened
<1>2. ASSUME NEW e \in End, NEW c \in Conn,
             writing'[e][c] # "idle" \/ sent'[Peer(e)][c] # <<>>
      PROVE  Speaks(e)
  <2>1. CASE writing[e][c] # "idle" \/ sent[Peer(e)][c] # <<>>
    BY <2>1 DEF InTurn
  <2>2. CASE writing[e][c] = "idle" /\ sent[Peer(e)][c] = <<>>
    <3>1. PICK f \in End, d \in Conn : Write(f, d) \/ WriteHeader(f, d) \/ WritePayload(f, d)
                                       \/ WriteFails(f, d)
      BY <1>2, <2>2, WritersKept
    <3>2. CASE Write(f, d)
      <4>1. writing' = [writing EXCEPT ![f][d] = "waiting"] /\ sent' = sent /\ Speaks(f)
        BY <3>2 DEF Write, historyVars
      <4>2. f = e
        BY <1>2, <2>2, <4>1 DEF TypeOK
      <4>3. QED
        BY <4>1, <4>2
    <3>3. CASE WriteHeader(f, d) \/ WriteFails(f, d)
      <4>1. writing[f][d] # "idle" /\ sent' = sent
        BY <3>3 DEF WriteHeader, WriteFails, historyVars
      <4>2. writing' = [writing EXCEPT ![f][d] = "payload"]
            \/ writing' = [writing EXCEPT ![f][d] = "idle"]
        BY <3>3 DEF WriteHeader, WriteFails
      <4>3. f = e
        BY <1>2, <2>2, <4>1, <4>2 DEF TypeOK
      <4>4. QED
        BY <4>1, <4>3 DEF InTurn
    <3>4. CASE WritePayload(f, d)
      <4>1. /\ writing[f][d] = "payload"
            /\ writing' = [writing EXCEPT ![f][d] = "header"]
               \/ writing' = [writing EXCEPT ![f][d] = "idle"]
        BY <3>4 DEF WritePayload
      <4>2. PICK m : sent' = [sent EXCEPT ![Peer(f)][d] = Append(@, m)]
        BY <3>4 DEF WritePayload
      <4>3. f = e
        <5>1. CASE writing'[e][c] # "idle"
          BY <2>2, <4>1, <5>1 DEF TypeOK
        <5>2. CASE sent'[Peer(e)][c] # <<>>
          <6>1. Peer(f) = Peer(e)
            BY <2>2, <4>2, <5>2, Ends DEF TypeOK
          <6>2. QED
            BY <6>1, Ends
        <5>3. QED
          BY <1>2, <5>1, <5>2
      <4>4. QED
        BY <4>1, <4>3 DEF InTurn
    <3>5. QED
      BY <3>1, <3>2, <3>3, <3>4
  <2>3. QED
    BY <2>1, <2>2
<1>3. ASSUME NEW e \in End, wire'[Peer(e)] # <<>> \/ reader'[Peer(e)] = "payload"
      PROVE  Speaks(e)
  <2> DEFINE f == Peer(e)
  <2>1. f \in End /\ Peer(f) = e
    BY Ends
  <2>2. CASE wire[f] # <<>> \/ reader[f] = "payload"
    BY <2>2 DEF InTurn
  <2>3. CASE wire[f] = <<>> /\ reader[f] # "payload"
    <3>1. CASE Unblock(f) \/ Reader(f)
      BY <1>3, <2>1, <2>3, <3>1 DEF Unblock, Reader, ReadHeader, Queue, Drop, Overflow,
         ReadsPayload, TrunkEnds, ReaderStops, trunkVars, TypeOK
    <3>2. CASE ~Unblock(f) /\ ~Reader(f)
      <4>1. PICK c \in Conn : WriteHeader(e, c) \/ WritePayload(e, c)
        BY <1>3, <2>1, <2>3, <3>2, ReaderKept
      <4>2. writing[e][c] # "idle"
        BY <4>1 DEF WriteHeader, WritePayload
      <4>3. QED
        BY <4>2 DEF InTurn
    <3>3. QED
      BY <3>1, <3>2
  <2>4. QED
    BY <2>2, <2>3
<1>4. QED
  BY <1>1, <1>2, <1>3, SpeaksStays DEF InTurn

(***************************************************************************)
(* Whoever reads has opened all its connections.                           *)
(***************************************************************************)
LEMMA ReaderIsReady ==
    ASSUME TypeOK, InTurn, NEW e \in End, reader[e] = "payload",
           \A f \in End, c \in Conn : Len(received[f][c]) <= Len(sent[f][c])
    PROVE  AllOpened(e)
<1> DEFINE f == Peer(e)
<1>1. f \in End /\ Peer(f) = e /\ f # e /\ \A g \in End : g \in {e, f}
  BY Ends
<1>2. CASE e \in BlockedEnds
  BY <1>2 DEF InTurn
<1>3. CASE e \notin BlockedEnds
  <2>1. f \in BlockedEnds
    <3>1. PICK g \in BlockedEnds : g \in End
      BY MuxAssumption
    <3>2. QED
      BY <1>1, <1>3, <3>1
  <2>2. Speaks(f)
    BY <1>1 DEF InTurn
  <2>3. PICK c \in Conn : received[f][c] # <<>>
    BY <2>1, <2>2 DEF Speaks
  <2>4. received[f][c] \in Seq(Chunk) /\ sent[f][c] \in Seq(Payload)
    BY <1>1 DEF TypeOK
  <2>5. sent[f][c] # <<>>
    BY <1>1, <2>3, <2>4
  <2>6. Speaks(e)
    BY <1>1, <2>5 DEF InTurn
  <2>7. QED
    BY <2>6 DEF Speaks
<1>4. QED
  BY <1>2, <1>3

LEMMA NothingDroppedNext ==
    ASSUME TypeOK, InTurn, NothingDropped, [Next]_vars,
           \A f \in End, c \in Conn : Len(received[f][c]) <= Len(sent[f][c])
    PROVE  NothingDropped'
<1> USE DEF trunkVars, connVars, writerVars, readerVars, historyVars
<1>1. ASSUME NEW e \in End, Drop(e)
      PROVE  UNCHANGED dropped
  <2>1. reader[e] = "payload" /\ hdr[e] \in Conn
    BY <1>1 DEF Drop, ReadsPayload, TypeOK
  <2>2. conn[e][hdr[e]] # "none"
    BY <2>1, ReaderIsReady DEF AllOpened
  <2>3. dropped' = [dropped EXCEPT ![e] = @]
    BY <1>1, <2>2 DEF Drop
  <2>4. QED
    BY <2>3 DEF TypeOK
<1>2. ASSUME \A e \in End : ~Drop(e)
      PROVE  UNCHANGED dropped
  <2>1. CASE UNCHANGED vars
    BY <2>1 DEF vars
  <2>2. ASSUME NEW e \in End, Close(e) \/ Unblock(e) \/ Reader(e)
        PROVE  UNCHANGED dropped
    BY <1>2, <2>2 DEF Close, Unblock, Reader, ReadHeader, Queue, Overflow, TrunkEnds,
            ReaderStops
  <2>3. ASSUME NEW e \in End, NEW c \in Conn,
               \/ Open(e, c) \/ CloseConn(e, c) \/ Read(e, c)
               \/ Write(e, c) \/ WriteHeader(e, c) \/ WritePayload(e, c) \/ WriteFails(e, c)
        PROVE  UNCHANGED dropped
    BY <2>3 DEF Open, CloseConn, Read, Write, WriteHeader, WritePayload, WriteFails
  <2>4. QED
    BY <2>1, <2>2, <2>3 DEF Next
<1>3. UNCHANGED dropped
  BY <1>1, <1>2
<1>4. QED
  BY <1>3 DEF NothingDropped

(***************************************************************************)
(* Headers and payloads alternate.                                         *)
(***************************************************************************)
\* Who is between a header and its payload changes only when one is written, as
\* long as the trunk is open.
LEMMA PayloadsKept ==
    ASSUME TypeOK, [Next]_vars, up', NEW e \in End,
           \A c \in Conn : ~WriteHeader(e, c) /\ ~WritePayload(e, c)
    PROVE  /\ up
           /\ \A c \in Conn : writing'[e][c] = "payload" <=> writing[e][c] = "payload"
<1> USE DEF trunkVars, connVars, writerVars, readerVars, historyVars
<1>1. up
  <2>1. ASSUME NEW f \in End, CloseMux(f)
        PROVE  up
    BY <2>1, ClosingMux
  <2>2. CASE UNCHANGED vars
    BY <2>2 DEF vars
  <2>3. ASSUME NEW f \in End, Close(f) \/ Unblock(f) \/ Reader(f)
        PROVE  up
    BY <2>1, <2>3 DEF Close, Unblock, Reader, ReadHeader, Queue, Drop, Overflow,
       ReadsPayload, TrunkEnds, ReaderStops
  <2>4. ASSUME NEW f \in End, NEW c \in Conn,
               \/ Open(f, c) \/ CloseConn(f, c) \/ Read(f, c)
               \/ Write(f, c) \/ WriteHeader(f, c) \/ WritePayload(f, c) \/ WriteFails(f, c)
        PROVE  up
    BY <2>1, <2>4 DEF Open, CloseConn, Read, Write, WriteHeader, WritePayload, WriteFails
  <2>5. QED
    BY <2>2, <2>3, <2>4 DEF Next
<1>2. writing \in [End -> [Conn -> {"idle", "waiting", "header", "payload"}]]
  BY DEF TypeOK
<1>3. ASSUME NEW f \in End, NEW d \in Conn, NEW s, s # "payload", writing[f][d] # "payload",
             writing' = [writing EXCEPT ![f][d] = s]
      PROVE  \A c \in Conn : writing'[e][c] = "payload" <=> writing[e][c] = "payload"
  BY <1>2, <1>3
<1>4. ASSUME NEW f \in End, NEW d \in Conn, NEW s, f # e,
             writing' = [writing EXCEPT ![f][d] = s]
      PROVE  \A c \in Conn : writing'[e][c] = "payload" <=> writing[e][c] = "payload"
  BY <1>2, <1>4
<1>5. ASSUME NEW f \in End, NEW d \in Conn, Write(f, d)
      PROVE  \A c \in Conn : writing'[e][c] = "payload" <=> writing[e][c] = "payload"
  BY <1>3, <1>5 DEF Write
<1>6. ASSUME NEW f \in End, NEW d \in Conn, WriteHeader(f, d) \/ WritePayload(f, d)
      PROVE  \A c \in Conn : writing'[e][c] = "payload" <=> writing[e][c] = "payload"
  <2>1. f # e
    BY <1>6
  <2>2. CASE WriteHeader(f, d)
    <3>1. writing' = [writing EXCEPT ![f][d] = "payload"]
      BY <2>2 DEF WriteHeader
    <3>2. QED
      BY <1>4, <2>1, <3>1
  <2>3. CASE WritePayload(f, d)
    <3>1. \/ writing' = [writing EXCEPT ![f][d] = "header"]
          \/ writing' = [writing EXCEPT ![f][d] = "idle"]
      BY <2>3 DEF WritePayload
    <3>2. QED
      BY <1>4, <2>1, <3>1
  <2>4. QED
    BY <1>6, <2>2, <2>3
<1>7. \A f \in End, d \in Conn : ~WriteFails(f, d)
  BY <1>1 DEF WriteFails
<1>8. QED
  BY <1>1, <1>5, <1>6, <1>7, WritersKept

LEMMA StillReading ==
    ASSUME TypeOK, [Next]_vars, NEW e \in End, reader'[e] # "done"
    PROVE  reader[e] # "done"
<1>1. CASE Unblock(e)
  BY <1>1 DEF Unblock
<1>2. CASE Reader(e)
  BY <1>2 DEF Reader, ReadHeader, Queue, Drop, Overflow, ReadsPayload, TrunkEnds,
     ReaderStops
<1>3. CASE ~Unblock(e) /\ ~Reader(e)
  BY <1>3, ReaderKept
<1>4. QED
  BY <1>1, <1>2, <1>3

\* What the reader takes off the wire, and what it leaves.
LEMMA Taking ==
    ASSUME TypeOK, NEW e \in End, Framed(e), wire[e] # <<>>,
           reader[e] \in {"header", "payload"}, wire' = [wire EXCEPT ![e] = Tail(@)]
    PROVE  /\ wire[e] \in Seq(Chunk) /\ Head(wire[e]) = wire[e][1] /\ wire[e][1] \in Chunk
           /\ wire'[e] = Tail(wire[e])
           /\ Alternate(wire'[e])
           /\ reader[e] = "header" =>
                 /\ wire[e][1].n = 0
                 /\ wire'[e] # <<>> => wire'[e][1].n # 0 /\ wire'[e][1].id = wire[e][1].id
           /\ reader[e] = "payload" =>
                 /\ wire[e][1].n # 0 /\ wire[e][1].id = hdr[e]
                 /\ wire'[e] # <<>> => wire'[e][1].n = 0
           /\ wire'[e] # <<>> => wire'[e][Len(wire'[e])] = wire[e][Len(wire[e])]
           /\ wire'[e] = <<>> => wire[e][Len(wire[e])] = wire[e][1]
<1>1. wire[e] \in Seq(Chunk)
  BY DEF TypeOK
<1>2. Head(wire[e]) = wire[e][1] /\ wire[e][1] \in Chunk
  BY <1>1
<1>3. wire'[e] = Tail(wire[e])
  BY DEF TypeOK
<1>4. Alternate(wire[e])
  BY DEF Framed
<1>5. /\ reader[e] = "header" => wire[e][1].n = 0
      /\ reader[e] = "payload" => wire[e][1].n # 0 /\ wire[e][1].id = hdr[e]
  BY DEF Framed
<1>6. /\ Alternate(Tail(wire[e]))
      /\ Tail(wire[e]) # <<>> =>
            /\ Tail(wire[e])[Len(Tail(wire[e]))] = wire[e][Len(wire[e])]
            /\ IF wire[e][1].n = 0
               THEN Tail(wire[e])[1].n # 0 /\ Tail(wire[e])[1].id = wire[e][1].id
               ELSE Tail(wire[e])[1].n = 0
      /\ Tail(wire[e]) = <<>> => Len(wire[e]) = 1
  BY <1>1, <1>4, AlternateTail
<1>7. QED
  BY <1>1, <1>2, <1>3, <1>5, <1>6

\* What a writer finds on the wire, and what it leaves.
LEMMA Putting ==
    ASSUME TypeOK, NEW e \in End, Framed(e), NEW x \in Chunk,
           wire[e] # <<>> => IF wire[e][Len(wire[e])].n = 0
                             THEN x.n # 0 /\ x.id = wire[e][Len(wire[e])].id
                             ELSE x.n = 0,
           wire' = [wire EXCEPT ![e] = Append(@, x)]
    PROVE  /\ Alternate(wire'[e]) /\ wire'[e] # <<>>
           /\ wire'[e][Len(wire'[e])] = x
           /\ wire'[e][1] = IF wire[e] = <<>> THEN x ELSE wire[e][1]
<1>1. wire[e] \in Seq(Chunk)
  BY DEF TypeOK
<1>2. wire'[e] = Append(wire[e], x)
  BY DEF TypeOK
<1>3. Alternate(wire[e])
  BY DEF Framed
<1>4. QED
  BY <1>1, <1>2, <1>3, AlternateAppend

LEMMA FramedByReader ==
    ASSUME TypeOK, NEW e \in End, Framed(e), ReadHeader(e) \/ Queue(e) \/ Drop(e)
    PROVE  Framed(e)'
<1>1. /\ reader[e] \in {"header", "payload"} /\ wire[e] # <<>>
      /\ wire' = [wire EXCEPT ![e] = Tail(@)]
  BY DEF ReadHeader, Queue, Drop, ReadsPayload
<1>2. up' = up /\ writing' = writing
  BY DEF ReadHeader, Queue, Drop, writerVars
<1>3. /\ up => \A c \in Conn : writing[Peer(e)][c] = "payload" <=> Pending(e, c)
      /\ wire[e] # <<>>
  BY <1>1 DEF Framed
<1>4. CASE ReadHeader(e)
  <2>1. reader[e] = "header" /\ reader'[e] = "payload" /\ hdr'[e] = wire[e][1].id
    BY <1>1, <1>4, Taking DEF ReadHeader, TypeOK
  <2>2. \A c \in Conn : Pending(e, c)' <=> Pending(e, c)
    BY <1>1, <2>1, Taking DEF Pending
  <2>3. QED
    BY <1>1, <1>2, <1>3, <2>1, <2>2, Taking DEF Framed
<1>5. CASE Queue(e) \/ Drop(e)
  <2>1. reader[e] = "payload" /\ reader'[e] = "header"
    BY <1>5 DEF Queue, Drop, ReadsPayload, TypeOK
  <2>2. \A c \in Conn : Pending(e, c)' <=> Pending(e, c)
    BY <1>1, <2>1, Taking DEF Pending
  <2>3. QED
    BY <1>1, <1>2, <1>3, <2>1, <2>2, Taking DEF Framed
<1>6. QED
  BY <1>4, <1>5

LEMMA FramedByHeader ==
    ASSUME TypeOK, LockHeld, NEW e \in End, Framed(e), NEW c \in Conn, WriteHeader(Peer(e), c)
    PROVE  Framed(e)'
<1> DEFINE f == Peer(e)
           x == [id |-> c, n |-> 0]
<1>1. f \in End /\ Peer(f) = e
  BY Ends
<1>2. x \in Chunk /\ x.n = 0 /\ x.id = c
  BY DEF Chunk
<1>3. /\ up /\ wire' = [wire EXCEPT ![e] = Append(@, x)]
      /\ writing' = [writing EXCEPT ![f][c] = "payload"]
      /\ UNCHANGED <<up, reader, hdr>>
  BY <1>1 DEF WriteHeader, readerVars
<1>4. \A d \in Conn : writing[f][d] # "payload"
  <2>1. CASE writing[f][c] = "waiting" /\ writeLock[f] = None
    BY <1>1, <2>1, MuxAssumption DEF LockHeld
  <2>2. CASE writing[f][c] = "header"
    <3>1. writeLock[f] = c
      BY <1>1, <2>2 DEF LockHeld
    <3>2. QED
      BY <1>1, <2>2, <3>1 DEF LockHeld
  <2>3. QED
    BY <2>1, <2>2 DEF WriteHeader
<1>5. \A d \in Conn : ~Pending(e, d)
  BY <1>3, <1>4 DEF Framed
<1> HIDE DEF x
<1>6. wire[e] # <<>> => wire[e][Len(wire[e])].n # 0
  <2> SUFFICES ASSUME wire[e] # <<>> PROVE wire[e][Len(wire[e])].n # 0
    OBVIOUS
  <2>1. wire[e] \in Seq(Chunk)
    BY DEF TypeOK
  <2>2. wire[e][Len(wire[e])] \in Chunk
    BY <2>1
  <2>3. wire[e][Len(wire[e])].id \in Conn
    BY <2>2 DEF Chunk
  <2>4. QED
    BY <1>5, <2>3 DEF Pending
<1>7. wire[e] = <<>> => reader[e] # "payload"
  <2> SUFFICES ASSUME wire[e] = <<>>, reader[e] = "payload" PROVE FALSE
    OBVIOUS
  <2>1. hdr[e] \in Conn
    BY DEF TypeOK
  <2>2. QED
    BY <1>5, <2>1 DEF Pending
<1>8. /\ Alternate(wire'[e]) /\ wire'[e] # <<>>
      /\ wire'[e][Len(wire'[e])] = x
      /\ wire'[e][1] = IF wire[e] = <<>> THEN x ELSE wire[e][1]
  BY <1>2, <1>3, <1>6, Putting
<1>9. \A d \in Conn : writing'[f][d] = "payload" <=> d = c
  BY <1>1, <1>3, <1>4 DEF TypeOK
<1>10. \A d \in Conn : Pending(e, d)' <=> d = c
  BY <1>2, <1>8 DEF Pending
<1>11. IF reader'[e] = "payload"
       THEN wire'[e][1].n # 0 /\ wire'[e][1].id = hdr'[e]
       ELSE wire'[e][1].n = 0
  BY <1>2, <1>3, <1>7, <1>8 DEF Framed
<1>12. QED
  BY <1>8, <1>9, <1>10, <1>11 DEF Framed

LEMMA FramedByPayload ==
    ASSUME TypeOK, TypeOK', LockHeld, NEW e \in End, Framed(e), NEW c \in Conn,
           WritePayload(Peer(e), c)
    PROVE  Framed(e)'
<1> DEFINE f == Peer(e)
           x == [id |-> c, n |-> Len(sent[e][c]) + 1]
<1>1. f \in End /\ Peer(f) = e
  BY Ends
<1>2. /\ up /\ wire' = [wire EXCEPT ![e] = Append(@, x)]
      /\ writing[f][c] = "payload"
      /\ sent' = [sent EXCEPT ![e][c] = Append(@, x)]
      /\ UNCHANGED <<up, reader, hdr>>
  BY <1>1 DEF WritePayload, readerVars
<1>3. Len(sent[e][c]) \in Nat
  BY DEF TypeOK
<1>4. x.n # 0 /\ x.id = c
  BY <1>3
<1>5. x \in Chunk
  <2>1. sent'[e][c] \in Seq(Payload) /\ sent[e][c] \in Seq(Payload)
    BY DEF TypeOK
  <2>2. sent'[e][c] = Append(sent[e][c], x)
    BY <1>2 DEF TypeOK
  <2> HIDE DEF x
  <2>3. x \in Payload
    <3>1. Len(sent'[e][c]) = Len(sent[e][c]) + 1 /\ sent'[e][c][Len(sent[e][c]) + 1] = x
      BY <2>1, <2>2
    <3>2. QED
      BY <1>3, <2>1, <3>1
  <2>4. QED
    BY <2>3 DEF Payload, Chunk
<1> HIDE DEF x
<1>6. Pending(e, c)
  BY <1>2 DEF Framed
<1>7. wire[e] # <<>> => wire[e][Len(wire[e])].n = 0 /\ wire[e][Len(wire[e])].id = c
  BY <1>6 DEF Pending
<1>8. wire[e] = <<>> => reader[e] = "payload" /\ hdr[e] = c
  BY <1>6 DEF Pending
<1>9. /\ Alternate(wire'[e]) /\ wire'[e] # <<>>
      /\ wire'[e][Len(wire'[e])] = x
      /\ wire'[e][1] = IF wire[e] = <<>> THEN x ELSE wire[e][1]
  BY <1>2, <1>4, <1>5, <1>7, Putting
<1>10. \A d \in Conn : writing'[f][d] # "payload"
  <2>1. \/ writing' = [writing EXCEPT ![f][c] = "header"]
        \/ writing' = [writing EXCEPT ![f][c] = "idle"]
    BY DEF WritePayload
  <2>2. \A d \in Conn : writing[f][d] = "payload" => d = c
    BY <1>1, <1>2 DEF LockHeld
  <2>3. writing \in [End -> [Conn -> {"idle", "waiting", "header", "payload"}]]
    BY DEF TypeOK
  <2>4. QED
    BY <1>1, <2>1, <2>2, <2>3
<1>11. \A d \in Conn : ~Pending(e, d)'
  BY <1>4, <1>9 DEF Pending
<1>12. IF reader'[e] = "payload"
       THEN wire'[e][1].n # 0 /\ wire'[e][1].id = hdr'[e]
       ELSE wire'[e][1].n = 0
  BY <1>2, <1>4, <1>8, <1>9 DEF Framed
<1>13. QED
  BY <1>9, <1>10, <1>11, <1>12 DEF Framed

LEMMA FramedNext ==
    ASSUME TypeOK, TypeOK', LockHeld, [Next]_vars, NEW e \in End, Framed(e),
           reader'[e] # "done"
    PROVE  Framed(e)'
<1>1. CASE ReadHeader(e) \/ Queue(e) \/ Drop(e)
  BY <1>1, FramedByReader
<1>2. CASE Overflow(e) \/ TrunkEnds(e) \/ ReaderStops(e)
  BY <1>2 DEF Overflow, TrunkEnds, ReaderStops, TypeOK
<1>3. CASE Unblock(e)
  <2>1. /\ reader[e] = "blocked" /\ reader'[e] = "header"
        /\ UNCHANGED <<up, wire, writing, hdr>>
    BY <1>3 DEF Unblock, trunkVars, writerVars, TypeOK
  <2>2. \A c \in Conn : Pending(e, c)' <=> Pending(e, c)
    BY <2>1 DEF Pending
  <2>3. QED
    BY <2>1, <2>2 DEF Framed
<1>4. ASSUME NEW c \in Conn, WriteHeader(Peer(e), c)
      PROVE  Framed(e)'
  BY <1>4, FramedByHeader
<1>5. ASSUME NEW c \in Conn, WritePayload(Peer(e), c)
      PROVE  Framed(e)'
  BY <1>5, FramedByPayload
<1>6. CASE /\ ~Reader(e) /\ ~Unblock(e)
           /\ \A c \in Conn : ~WriteHeader(Peer(e), c) /\ ~WritePayload(Peer(e), c)
  <2>1. reader'[e] = reader[e] /\ hdr'[e] = hdr[e] /\ wire'[e] = wire[e]
    BY <1>6, ReaderKept
  <2>2. up' => /\ up
               /\ \A c \in Conn : writing'[Peer(e)][c] = "payload"
                                     <=> writing[Peer(e)][c] = "payload"
    BY <1>6, PayloadsKept, Ends
  <2>3. \A c \in Conn : Pending(e, c)' <=> Pending(e, c)
    BY <2>1 DEF Pending
  <2>4. QED
    BY <2>1, <2>2, <2>3 DEF Framed
<1>7. QED
  BY <1>1, <1>2, <1>3, <1>4, <1>5, <1>6 DEF Reader

(***************************************************************************)
(* What was sent over a connection is received, queued, or underway.       *)
(***************************************************************************)
LEMMA MessagesKept ==
    ASSUME TypeOK, [Next]_vars, NEW e \in End, NEW c \in Conn,
           ~WritePayload(Peer(e), c), ~(Queue(e) /\ hdr[e] = c), ~Read(e, c)
    PROVE  /\ sent'[e][c] = sent[e][c] /\ received'[e][c] = received[e][c]
           /\ readC'[e][c] = readC[e][c]
<1> USE DEF trunkVars, connVars, writerVars, readerVars, historyVars
<1> DEFINE Kept == /\ sent'[e][c] = sent[e][c] /\ received'[e][c] = received[e][c]
                   /\ readC'[e][c] = readC[e][c]
<1>1. CASE UNCHANGED vars
  BY <1>1 DEF vars
<1>2. ASSUME NEW f \in End, Close(f) \/ Unblock(f)
      PROVE  Kept
  BY <1>2 DEF Close, Unblock
<1>3. ASSUME NEW f \in End, ReadHeader(f) \/ Drop(f) \/ Overflow(f) \/ TrunkEnds(f)
                            \/ ReaderStops(f)
      PROVE  Kept
  BY <1>3 DEF ReadHeader, Drop, Overflow, TrunkEnds, ReaderStops
<1>4. ASSUME NEW f \in End, Queue(f)
      PROVE  Kept
  <2>1. f # e \/ hdr[f] # c
    BY <1>4
  <2>2. UNCHANGED <<sent, received>>
        /\ readC' = [readC EXCEPT ![f][hdr[f]] = Append(@, Head(wire[f]))]
    BY <1>4 DEF Queue
  <2>3. readC'[e][c] = readC[e][c]
    BY <2>1, <2>2 DEF TypeOK
  <2>4. QED
    BY <2>2, <2>3
<1>5. ASSUME NEW f \in End, NEW d \in Conn,
             Open(f, d) \/ CloseConn(f, d) \/ Write(f, d) \/ WriteHeader(f, d) \/ WriteFails(f, d)
      PROVE  Kept
  BY <1>5 DEF Open, CloseConn, Write, WriteHeader, WriteFails
<1>6. ASSUME NEW f \in End, NEW d \in Conn, WritePayload(f, d)
      PROVE  Kept
  <2>1. Peer(f) # e \/ d # c
    BY <1>6, Ends
  <2>2. PICK m : sent' = [sent EXCEPT ![Peer(f)][d] = Append(@, m)]
    BY <1>6 DEF WritePayload
  <2>3. UNCHANGED <<received, readC>>
    BY <1>6 DEF WritePayload
  <2>4. sent'[e][c] = sent[e][c]
    BY <2>1, <2>2, Ends DEF TypeOK
  <2>5. QED
    BY <2>3, <2>4
<1>7. ASSUME NEW f \in End, NEW d \in Conn, Read(f, d)
      PROVE  Kept
  <2>1. f # e \/ d # c
    BY <1>7
  <2>2. /\ sent' = sent
        /\ received' = [received EXCEPT ![f][d] = Append(@, Head(readC[f][d]))]
        /\ readC' = [readC EXCEPT ![f][d] = Tail(@)]
    BY <1>7 DEF Read
  <2>3. received'[e][c] = received[e][c] /\ readC'[e][c] = readC[e][c]
    BY <2>1, <2>2 DEF TypeOK
  <2>4. QED
    BY <2>2, <2>3
<1>8. QED
  BY <1>1, <1>2, <1>3, <1>4, <1>5, <1>6, <1>7 DEF Next, Reader

\* The lengths and members of the three sequences of a connection.
LEMMA Messages ==
    ASSUME TypeOK, NEW e \in End, NEW c \in Conn
    PROVE  /\ sent[e][c] \in Seq(Payload) /\ Len(sent[e][c]) \in Nat
           /\ received[e][c] \in Seq(Chunk) /\ Len(received[e][c]) \in Nat
           /\ readC[e][c] \in Seq(Chunk) /\ Len(readC[e][c]) \in Nat
           /\ Taken(e, c) \in Nat
<1>1. /\ sent[e][c] \in Seq(Payload) /\ received[e][c] \in Seq(Chunk)
      /\ readC[e][c] \in Seq(Chunk)
  BY DEF TypeOK
<1>2. Len(sent[e][c]) \in Nat /\ Len(received[e][c]) \in Nat /\ Len(readC[e][c]) \in Nat
  BY <1>1
<1>3. \A a, b \in Nat : a + b \in Nat
  OBVIOUS
<1>4. Taken(e, c) \in Nat
  BY <1>2, <1>3 DEF Taken
<1>5. QED
  BY <1>1, <1>2, <1>4

LEMMA ChunkNumbers ==
    ASSUME NEW x \in Chunk
    PROVE  x.n \in Nat
<1>1. x.n = 0 \/ x.n \in Position
  BY DEF Chunk
<1>2. ASSUME x.n \in Position
      PROVE  x.n \in Nat
  <2> DEFINE Sets == {1..MaxFrames[f][d] : f \in End, d \in Conn}
  <2>1. Position = UNION Sets
    BY DEF Position
  <2>2. \A s \in Sets : s \subseteq Nat
    <3>1. \A f \in End, d \in Conn : MaxFrames[f][d] \in Nat
      BY MuxAssumption
    <3>2. QED
      BY <3>1
  <2> HIDE DEF Sets
  <2>3. QED
    BY <1>2, <2>1, <2>2
<1>3. QED
  BY <1>1, <1>2

\* A payload that goes out.
LEMMA Outgoing ==
    ASSUME TypeOK, NEW e \in End, NEW c \in Conn, WritePayload(Peer(e), c)
    PROVE  LET m == [id |-> c, n |-> Len(sent[e][c]) + 1] IN
           /\ sent'[e][c] = Append(sent[e][c], m)
           /\ sent' = [sent EXCEPT ![e][c] = Append(@, m)]
           /\ wire'[e] = Append(wire[e], m)
           /\ UNCHANGED <<received, readC, reader, hdr, conn, muxClosed>>
<1> DEFINE m == [id |-> c, n |-> Len(sent[e][c]) + 1]
<1>1. Peer(Peer(e)) = e
  BY Ends
<1>2. /\ sent' = [sent EXCEPT ![e][c] = Append(@, m)]
      /\ wire' = [wire EXCEPT ![e] = Append(@, m)]
      /\ UNCHANGED <<received, readC, reader, hdr, conn, muxClosed>>
  BY <1>1 DEF WritePayload, connVars, readerVars
<1> HIDE DEF m
<1>3. sent'[e][c] = Append(sent[e][c], m) /\ wire'[e] = Append(wire[e], m)
  BY <1>2 DEF TypeOK
<1>4. QED
  BY <1>2, <1>3 DEF m

\* A payload that arrives is the next one.
LEMMA Incoming ==
    ASSUME TypeOK, TableOpen, NEW e \in End, Framed(e), Queue(e),
           \A c \in Conn :
              reader[e] # "done" /\ ~muxClosed[e] /\ conn[e][c] # "closed" => Underway(e, c)
    PROVE  LET c == hdr[e] IN
           /\ c \in Conn
           /\ Taken(e, c) + 1 <= Len(sent[e][c])
           /\ readC'[e][c] = Append(readC[e][c], [id |-> c, n |-> Taken(e, c) + 1])
           /\ UNCHANGED <<sent, received>>
           /\ Carries(Tail(wire[e]), c, Taken(e, c) + 1, Len(sent[e][c]))
           /\ wire[e] \in Seq(Chunk) /\ wire[e] # <<>> /\ wire[e][1].id = c
           /\ wire'[e] = Tail(wire[e])
<1> DEFINE c == hdr[e]
<1>1. /\ reader[e] = "payload" /\ ~muxClosed[e] /\ wire[e] # <<>> /\ c \in table[e]
      /\ wire' = [wire EXCEPT ![e] = Tail(@)]
      /\ UNCHANGED <<sent, received>>
      /\ readC' = [readC EXCEPT ![e][c] = Append(@, Head(wire[e]))]
  BY DEF Queue, ReadsPayload, historyVars
<1>2. c \in Conn
  BY <1>1 DEF TypeOK
<1> HIDE DEF c
<1>3. /\ wire[e] \in Seq(Chunk) /\ Head(wire[e]) = wire[e][1] /\ wire[e][1] \in Chunk
      /\ wire'[e] = Tail(wire[e])
      /\ wire[e][1].n # 0 /\ wire[e][1].id = c
  BY <1>1, Taking DEF c
<1>4. Carries(wire[e], c, Taken(e, c), Len(sent[e][c]))
  BY <1>1, <1>2 DEF TableOpen, Underway
<1>5. /\ wire[e][1].n = Taken(e, c) + 1
      /\ Taken(e, c) + 1 <= Len(sent[e][c])
      /\ Carries(Tail(wire[e]), c, Taken(e, c) + 1, Len(sent[e][c]))
  <2>1. Taken(e, c) \in Nat /\ Len(sent[e][c]) \in Nat
    BY <1>2, Messages
  <2>2. \A x \in Chunk : x.n \in Nat
    BY ChunkNumbers
  <2>3. QED
    BY <1>1, <1>3, <1>4, <2>1, <2>2, CarriesTail
<1>6. wire[e][1] = [id |-> c, n |-> Taken(e, c) + 1]
  BY <1>3, <1>5 DEF Chunk
<1>7. readC'[e][c] = Append(readC[e][c], wire[e][1])
  BY <1>1, <1>2, <1>3 DEF TypeOK
<1>8. QED
  BY <1>1, <1>2, <1>3, <1>5, <1>6, <1>7 DEF c

\* Read moves a message from the queue.
LEMMA Reading ==
    ASSUME TypeOK, NEW e \in End, NEW c \in Conn, Numbered(e, c), Read(e, c)
    PROVE  LET m == [id |-> c, n |-> Len(received[e][c]) + 1] IN
           /\ readC[e][c] # <<>>
           /\ received' = [received EXCEPT ![e][c] = Append(@, m)]
           /\ received'[e][c] = Append(received[e][c], m)
           /\ readC'[e][c] = Tail(readC[e][c])
           /\ UNCHANGED <<sent, wire, reader, hdr, conn, muxClosed>>
<1>1. /\ readC[e][c] # <<>>
      /\ received' = [received EXCEPT ![e][c] = Append(@, Head(readC[e][c]))]
      /\ readC' = [readC EXCEPT ![e][c] = Tail(@)]
      /\ UNCHANGED <<sent, wire, reader, hdr, conn, muxClosed>>
  BY DEF Read, trunkVars, readerVars
<1>2. Head(readC[e][c]) = readC[e][c][1] /\ 1 \in 1..Len(readC[e][c])
  BY <1>1, Messages
<1>3. Head(readC[e][c]) = [id |-> c, n |-> Len(received[e][c]) + 1]
  BY <1>2 DEF Numbered
<1>4. /\ received'[e][c] = Append(received[e][c], Head(readC[e][c]))
      /\ readC'[e][c] = Tail(readC[e][c])
  BY <1>1 DEF TypeOK
<1>5. QED
  BY <1>1, <1>3, <1>4

LEMMA NumberedNext ==
    ASSUME TypeOK, TypeOK', TableOpen, [Next]_vars, NEW e \in End, NEW c \in Conn,
           reader[e] # "done" => Framed(e),
           Numbered(e, c),
           \A d \in Conn :
              reader[e] # "done" /\ ~muxClosed[e] /\ conn[e][d] # "closed" => Underway(e, d)
    PROVE  Numbered(e, c)'
<1> DEFINE S == sent[e][c]
           R == received[e][c]
           Q == readC[e][c]
<1>1. /\ S \in Seq(Payload) /\ Len(S) \in Nat /\ R \in Seq(Chunk) /\ Len(R) \in Nat
      /\ Q \in Seq(Chunk) /\ Len(Q) \in Nat
  BY Messages
<1>2. /\ \A k \in 1..Len(S) : S[k] = [id |-> c, n |-> k]
      /\ \A k \in 1..Len(R) : R[k] = [id |-> c, n |-> k]
      /\ \A k \in 1..Len(Q) : Q[k] = [id |-> c, n |-> Len(R) + k]
      /\ Len(R) + Len(Q) <= Len(S)
  BY DEF Numbered
<1>3. CASE WritePayload(Peer(e), c)
  <2> DEFINE m == [id |-> c, n |-> Len(S) + 1]
  <2>1. sent'[e][c] = Append(S, m) /\ UNCHANGED <<received, readC>>
    BY <1>3, Outgoing
  <2>2. sent'[e][c] \in Seq(Payload)
    BY DEF TypeOK
  <2> HIDE DEF m, S
  <2>3. /\ Len(sent'[e][c]) = Len(S) + 1
        /\ \A k \in 1..Len(S) : sent'[e][c][k] = S[k]
        /\ sent'[e][c][Len(S) + 1] = m
    BY <1>1, <2>1
  <2>4. \A k \in 1..Len(sent'[e][c]) : sent'[e][c][k] = [id |-> c, n |-> k]
    <3> TAKE k \in 1..Len(sent'[e][c])
    <3>1. CASE k \in 1..Len(S)
      BY <1>2, <2>3, <3>1
    <3>2. CASE k = Len(S) + 1
      BY <2>3, <3>2 DEF m
    <3>3. QED
      BY <1>1, <2>3, <3>1, <3>2
  <2>5. Len(R) + Len(Q) <= Len(sent'[e][c])
    <3>1. \A i, j, k \in Nat : i + j <= k => i + j <= k + 1
      OBVIOUS
    <3>2. QED
      BY <1>1, <1>2, <2>3, <3>1
  <2>6. QED
    BY <1>2, <2>1, <2>4, <2>5 DEF Numbered
<1>4. CASE Queue(e) /\ hdr[e] = c
  <2> DEFINE m == [id |-> c, n |-> Taken(e, c) + 1]
  <2>1. reader[e] # "done"
    BY <1>4 DEF Queue, ReadsPayload
  <2>2. /\ Taken(e, c) + 1 <= Len(S) /\ readC'[e][c] = Append(Q, m)
        /\ UNCHANGED <<sent, received>>
    BY <1>4, <2>1, Incoming
  <2>3. Taken(e, c) + 1 = Len(R) + (Len(Q) + 1)
    <3>1. \A i, j \in Nat : (i + j) + 1 = i + (j + 1)
      OBVIOUS
    <3>2. QED
      BY <1>1, <3>1 DEF Taken
  <2>4. Len(R) + (Len(Q) + 1) <= Len(S)
    BY <2>2, <2>3
  <2> HIDE DEF m, Q, R, S
  <2>5. /\ Len(Append(Q, m)) = Len(Q) + 1
        /\ \A k \in 1..Len(Q) : Append(Q, m)[k] = Q[k]
        /\ Append(Q, m)[Len(Q) + 1] = m
    BY <1>1
  <2>6. \A k \in 1..(Len(Q) + 1) : Append(Q, m)[k] = [id |-> c, n |-> Len(R) + k]
    <3> TAKE k \in 1..(Len(Q) + 1)
    <3>1. CASE k \in 1..Len(Q)
      BY <1>2, <2>5, <3>1
    <3>2. CASE k = Len(Q) + 1
      BY <2>3, <2>5, <3>2 DEF m
    <3>3. QED
      BY <1>1, <3>1, <3>2
  <2>7. QED
    BY <1>2, <2>2, <2>4, <2>5, <2>6 DEF Numbered, R, S
<1>5. CASE Read(e, c)
  <2> DEFINE m == [id |-> c, n |-> Len(R) + 1]
  <2>1. /\ Q # <<>> /\ received'[e][c] = Append(R, m) /\ readC'[e][c] = Tail(Q)
        /\ sent' = sent
    BY <1>5, Reading
  <2> HIDE DEF m, Q, R, S
  <2>2. /\ Len(Append(R, m)) = Len(R) + 1
        /\ \A k \in 1..Len(R) : Append(R, m)[k] = R[k]
        /\ Append(R, m)[Len(R) + 1] = m
    BY <1>1
  <2>3. /\ Len(Tail(Q)) = Len(Q) - 1 /\ Len(Q) >= 1
        /\ \A k \in 1..(Len(Q) - 1) : Tail(Q)[k] = Q[k + 1]
    BY <1>1, <2>1
  <2>4. \A k \in 1..(Len(R) + 1) : Append(R, m)[k] = [id |-> c, n |-> k]
    <3> TAKE k \in 1..(Len(R) + 1)
    <3>1. CASE k \in 1..Len(R)
      BY <1>2, <2>2, <3>1
    <3>2. CASE k = Len(R) + 1
      BY <2>2, <3>2 DEF m
    <3>3. QED
      BY <1>1, <3>1, <3>2
  <2>5. \A k \in 1..(Len(Q) - 1) : Tail(Q)[k] = [id |-> c, n |-> (Len(R) + 1) + k]
    <3> TAKE k \in 1..(Len(Q) - 1)
    <3>1. k + 1 \in 1..Len(Q) /\ Len(R) + (k + 1) = (Len(R) + 1) + k
      BY <1>1
    <3>2. Tail(Q)[k] = Q[k + 1]
      BY <2>3
    <3>3. QED
      BY <1>2, <3>1, <3>2
  <2>6. (Len(R) + 1) + (Len(Q) - 1) <= Len(S)
    BY <1>1, <1>2
  <2>7. QED
    BY <1>2, <2>1, <2>2, <2>3, <2>4, <2>5, <2>6 DEF Numbered, S
<1>6. CASE ~WritePayload(Peer(e), c) /\ ~(Queue(e) /\ hdr[e] = c) /\ ~Read(e, c)
  BY <1>6, MessagesKept DEF Numbered
<1>7. QED
  BY <1>3, <1>4, <1>5, <1>6

LEMMA StillOpen ==
    ASSUME TypeOK, [Next]_vars, NEW e \in End, ~muxClosed'[e]
    PROVE  ~muxClosed[e]
<1> USE DEF trunkVars, connVars, writerVars, readerVars, historyVars
<1>1. ASSUME NEW f \in End, CloseMux(f)
      PROVE  ~muxClosed[e]
  BY <1>1, ClosingMux
<1>2. ASSUME NEW f \in End, NEW c \in Conn, Open(f, c) \/ CloseConn(f, c)
      PROVE  ~muxClosed[e]
  BY <1>2 DEF Open, CloseConn
<1>3. QED
  BY <1>1, <1>2, ConnsKept

LEMMA UnderwayNext ==
    ASSUME TypeOK, TypeOK', LockHeld, TableOpen, InTurn, [Next]_vars,
           NEW e \in End, NEW c \in Conn,
           reader[e] # "done" => Framed(e),
           \A d \in Conn :
              reader[e] # "done" /\ ~muxClosed[e] /\ conn[e][d] # "closed" => Underway(e, d),
           \A f \in End, d \in Conn : Numbered(f, d),
           reader'[e] # "done", ~muxClosed'[e], conn'[e][c] # "closed"
    PROVE  Underway(e, c)'
<1>1. /\ reader[e] # "done" /\ ~muxClosed[e] /\ conn[e][c] # "closed"
      /\ Framed(e)
      /\ Carries(wire[e], c, Taken(e, c), Len(sent[e][c]))
  BY StillReading, StillOpen, ConnStays DEF Underway
<1>2. /\ Taken(e, c) \in Nat /\ Len(sent[e][c]) \in Nat
      /\ wire[e] \in Seq(Chunk) /\ \A x \in Chunk : x.n \in Nat
      /\ Taken(e, c) <= Len(sent[e][c])
  <2>1. Taken(e, c) <= Len(sent[e][c])
    BY DEF Taken, Numbered
  <2>2. wire[e] \in Seq(Chunk)
    BY DEF TypeOK
  <2>3. QED
    BY <2>1, <2>2, Messages, ChunkNumbers
\* A payload of c goes out.
<1>3. CASE WritePayload(Peer(e), c)
  <2> DEFINE m == [id |-> c, n |-> Len(sent[e][c]) + 1]
  <2>1. /\ sent'[e][c] = Append(sent[e][c], m) /\ wire'[e] = Append(wire[e], m)
        /\ UNCHANGED <<received, readC>>
    BY <1>3, Outgoing
  <2>2. m.id = c /\ m.n = Len(sent[e][c]) + 1 /\ m \in Payload /\ m \in Chunk
    <3>1. sent'[e][c] \in Seq(Payload) /\ sent[e][c] \in Seq(Payload)
      BY DEF TypeOK
    <3>2. m.id = c /\ m.n = Len(sent[e][c]) + 1
      OBVIOUS
    <3> HIDE DEF m
    <3>3. /\ Len(sent'[e][c]) = Len(sent[e][c]) + 1
          /\ sent'[e][c][Len(sent[e][c]) + 1] = m
      BY <2>1, <3>1
    <3>4. m \in Payload
      BY <1>2, <3>1, <3>3
    <3>5. QED
      BY <3>2, <3>4 DEF Payload, Chunk
  <2> HIDE DEF m
  <2>3. Carries(wire'[e], c, Taken(e, c), Len(sent[e][c]) + 1)
    BY <1>1, <1>2, <2>1, <2>2, CarriesAppend
  <2>4. Len(sent'[e][c]) = Len(sent[e][c]) + 1
    BY <2>1, <2>2, Messages
  <2>5. Taken(e, c)' = Taken(e, c)
    BY <2>1 DEF Taken
  <2>6. QED
    BY <2>3, <2>4, <2>5 DEF Underway
\* One is taken off the wire for c.
<1>4. CASE Queue(e) /\ hdr[e] = c
  <2> DEFINE m == [id |-> c, n |-> Taken(e, c) + 1]
  <2>1. /\ readC'[e][c] = Append(readC[e][c], m) /\ UNCHANGED <<sent, received>>
        /\ Carries(wire'[e], c, Taken(e, c) + 1, Len(sent[e][c]))
    BY <1>1, <1>4, Incoming
  <2> HIDE DEF m
  <2>2. Len(readC'[e][c]) = Len(readC[e][c]) + 1
    BY <2>1, Messages
  <2>3. Taken(e, c)' = Taken(e, c) + 1
    <3>1. \A i, j \in Nat : (i + j) + 1 = i + (j + 1)
      OBVIOUS
    <3>2. QED
      BY <2>1, <2>2, <3>1, Messages DEF Taken
  <2>4. QED
    BY <2>1, <2>3 DEF Underway
\* What has been queued is received.
<1>5. CASE Read(e, c)
  <2> DEFINE m == [id |-> c, n |-> Len(received[e][c]) + 1]
  <2>1. /\ readC[e][c] # <<>> /\ received'[e][c] = Append(received[e][c], m)
        /\ readC'[e][c] = Tail(readC[e][c])
        /\ UNCHANGED <<sent, wire>>
    BY <1>5, Reading
  <2> HIDE DEF m
  <2>2. /\ Len(received'[e][c]) = Len(received[e][c]) + 1
        /\ Len(readC'[e][c]) = Len(readC[e][c]) - 1
        /\ Len(readC[e][c]) >= 1
    BY <2>1, Messages
  <2>3. Taken(e, c)' = Taken(e, c)
    <3>1. \A i, j \in Nat : j >= 1 => (i + 1) + (j - 1) = i + j
      OBVIOUS
    <3>2. QED
      BY <2>2, <3>1, Messages DEF Taken
  <2>4. QED
    BY <1>1, <2>1, <2>3 DEF Underway
\* Nothing happens to c but that something else is put on the wire or taken off it.
<1>6. CASE ~WritePayload(Peer(e), c) /\ ~(Queue(e) /\ hdr[e] = c) /\ ~Read(e, c)
  <2>1. Taken(e, c)' = Taken(e, c) /\ sent'[e][c] = sent[e][c]
    BY <1>6, MessagesKept DEF Taken
  <2>2. ASSUME ReadHeader(e) \/ Queue(e) \/ Drop(e)
        PROVE  Carries(wire'[e], c, Taken(e, c), Len(sent[e][c]))
    <3>1. /\ reader[e] \in {"header", "payload"} /\ wire[e] # <<>>
          /\ wire' = [wire EXCEPT ![e] = Tail(@)]
      BY <2>2 DEF ReadHeader, Queue, Drop, ReadsPayload
    <3>2. wire[e][1].id # c \/ wire[e][1].n = 0
      <4>1. CASE ReadHeader(e)
        BY <1>1, <3>1, <4>1, Taking DEF ReadHeader
      <4>2. CASE Queue(e)
        BY <1>1, <1>6, <3>1, <4>2, Taking DEF Queue, ReadsPayload
      <4>3. CASE Drop(e)
        <5>1. reader[e] = "payload" /\ hdr[e] \notin table[e]
          BY <4>3 DEF Drop, ReadsPayload
        <5>2. \A f \in End, d \in Conn : Len(received[f][d]) <= Len(sent[f][d])
          <6>1. \A i, j, k \in Nat : i + j <= k => i <= k
            OBVIOUS
          <6>2. QED
            BY <6>1, Messages DEF Numbered
        <5>3. AllOpened(e)
          BY <5>1, <5>2, ReaderIsReady
        <5>4. conn[e][c] = "open"
          BY <1>1, <5>3 DEF AllOpened, TypeOK
        <5>5. hdr[e] # c
          BY <1>1, <5>1, <5>4 DEF TableOpen
        <5>6. QED
          BY <1>1, <3>1, <5>1, <5>5, Taking
      <4>4. QED
        BY <2>2, <4>1, <4>2, <4>3
    <3>3. wire'[e] = Tail(wire[e])
      BY <1>1, <3>1, Taking
    <3>4. QED
      BY <1>1, <1>2, <3>1, <3>2, <3>3, CarriesTail
  <2>3. ASSUME NEW x \in Chunk, x.id # c \/ x.n = 0, wire'[e] = Append(wire[e], x)
        PROVE  Carries(wire'[e], c, Taken(e, c), Len(sent[e][c]))
    BY <1>1, <1>2, <2>3, CarriesAppend
  <2>4. ASSUME NEW d \in Conn, WriteHeader(Peer(e), d)
        PROVE  Carries(wire'[e], c, Taken(e, c), Len(sent[e][c]))
    <3> DEFINE x == [id |-> d, n |-> 0]
    <3>1. x \in Chunk /\ x.n = 0
      BY DEF Chunk
    <3>2. wire' = [wire EXCEPT ![e] = Append(@, x)]
      BY <2>4, Ends DEF WriteHeader
    <3> HIDE DEF x
    <3>3. wire'[e] = Append(wire[e], x)
      BY <3>2 DEF TypeOK
    <3>4. QED
      BY <2>3, <3>1, <3>3
  <2>5. ASSUME NEW d \in Conn, WritePayload(Peer(e), d)
        PROVE  Carries(wire'[e], c, Taken(e, c), Len(sent[e][c]))
    <3> DEFINE x == [id |-> d, n |-> Len(sent[e][d]) + 1]
    <3>1. wire'[e] = Append(wire[e], x)
      BY <2>5, Outgoing
    <3>2. x.id # c
      BY <1>6, <2>5
    <3> HIDE DEF x
    <3>3. x \in Chunk
      <4>1. wire'[e] \in Seq(Chunk)
        BY DEF TypeOK
      <4>2. Len(wire'[e]) = Len(wire[e]) + 1 /\ wire'[e][Len(wire[e]) + 1] = x
        BY <1>2, <3>1
      <4>3. Len(wire[e]) + 1 \in 1..Len(wire'[e])
        BY <1>2, <4>2
      <4>4. QED
        BY <4>1, <4>2, <4>3
    <3>4. QED
      BY <2>3, <3>1, <3>2, <3>3
  <2>6. CASE wire'[e] = wire[e]
    BY <1>1, <2>1, <2>6 DEF Underway
  <2>7. wire'[e] # wire[e] => \/ ReadHeader(e) \/ Queue(e) \/ Drop(e)
                              \/ \E d \in Conn : WriteHeader(Peer(e), d) \/ WritePayload(Peer(e), d)
    <3>1. CASE Unblock(e)
      BY <3>1 DEF Unblock, trunkVars
    <3>2. CASE Overflow(e) \/ TrunkEnds(e) \/ ReaderStops(e)
      BY <3>2 DEF Overflow, TrunkEnds, ReaderStops, TypeOK
    <3>3. CASE ~Unblock(e) /\ ~Reader(e)
      BY <3>3, ReaderKept
    <3>4. QED
      BY <3>1, <3>2, <3>3 DEF Reader
  <2>8. QED
    BY <2>1, <2>2, <2>4, <2>5, <2>6, <2>7 DEF Underway
<1>7. QED
  BY <1>3, <1>4, <1>5, <1>6
-----------------------------------------------------------------------------
LEMMA MuxInit == Init => MuxInv
<1> SUFFICES ASSUME Init PROVE MuxInv
  OBVIOUS
<1>1. TypeOK
  BY MuxAssumption DEF Init, TypeOK, PerConn
<1>2. InBounds /\ LockHeld /\ TableOpen /\ NothingDropped
  <2>1. \A e \in End : Peer(e) \in End
    BY Ends
  <2>2. QED
    BY <2>1 DEF Init, InBounds, LockHeld, TableOpen, NothingDropped, PerConn
<1>3. InTurn
  BY Ends, MuxAssumption DEF Init, InTurn, PerConn
<1>4. ASSUME NEW e \in End
      PROVE  Framed(e)
  BY <1>4, Ends DEF Init, Framed, Alternate, Pending, PerConn
<1>5. ASSUME NEW e \in End, NEW c \in Conn
      PROVE  Numbered(e, c) /\ Underway(e, c)
  <2>1. /\ sent[e][c] = <<>> /\ received[e][c] = <<>> /\ readC[e][c] = <<>>
        /\ wire[e] = <<>>
    BY DEF Init, PerConn
  <2>2. Len(<<>>) = 0 /\ 1..0 = {} /\ (0 + 1)..0 = {} /\ 0 + 0 = 0
    OBVIOUS
  <2>3. Numbered(e, c)
    BY <2>1, <2>2 DEF Numbered
  <2>4. Taken(e, c) = 0 /\ On(wire[e], c) = {}
    BY <2>1, <2>2 DEF Taken, On
  <2>5. QED
    BY <2>1, <2>2, <2>3, <2>4 DEF Underway, Carries
<1>6. QED
  BY <1>1, <1>2, <1>3, <1>4, <1>5 DEF MuxInv

LEMMA MuxNext == MuxInv /\ [Next]_vars => MuxInv'
<1> SUFFICES ASSUME MuxInv, [Next]_vars PROVE MuxInv'
  OBVIOUS
<1>1. /\ TypeOK /\ InBounds /\ LockHeld /\ TableOpen /\ InTurn /\ NothingDropped
      /\ \A e \in End : reader[e] # "done" => Framed(e)
      /\ \A e \in End, c \in Conn :
            /\ Numbered(e, c)
            /\ reader[e] # "done" /\ ~muxClosed[e] /\ conn[e][c] # "closed" => Underway(e, c)
  BY DEF MuxInv
<1>2. TypeOK'
  BY <1>1, TypeNext
<1>3. \A e \in End, c \in Conn : Len(received[e][c]) <= Len(sent[e][c])
  <2>1. \A i, j, k \in Nat : i + j <= k => i <= k
    OBVIOUS
  <2>2. QED
    BY <1>1, <2>1, Messages DEF Numbered
<1>4. InBounds' /\ LockHeld' /\ TableOpen' /\ InTurn' /\ NothingDropped'
  BY <1>1, <1>3, InBoundsNext, LockHeldNext, TableOpenNext, InTurnNext, NothingDroppedNext
<1>5. \A e \in End : reader'[e] # "done" => Framed(e)'
  BY <1>1, <1>2, StillReading, FramedNext
<1>6. \A e \in End, c \in Conn : Numbered(e, c)'
  BY <1>1, <1>2, NumberedNext
<1>7. \A e \in End, c \in Conn :
         reader'[e] # "done" /\ ~muxClosed'[e] /\ conn'[e][c] # "closed" => Underway(e, c)'
  BY <1>1, <1>2, UnderwayNext
<1>8. QED
  BY <1>2, <1>4, <1>5, <1>6, <1>7 DEF MuxInv

(***************************************************************************)
(* The invariant of the two multiplexers and their trunk holds in every    *)
(* reachable state: what is on the wire is well framed and is what was     *)
(* sent and has not been taken yet (mux.reader, mux.write, conn.Read).     *)
(***************************************************************************)
THEOREM MuxInvariant == Spec => []MuxInv
BY MuxInit, MuxNext, PTL DEF Spec

(***************************************************************************)
(* No frame arrives before its connection is opened, for any connections:  *)
(* the runtime's reader is unblocked when all are open (mux.Unblock after  *)
(* plugin.connect), and it is silent until the plugin has spoken, which    *)
(* opens all of its own before it does (stub.Start).                       *)
(***************************************************************************)
THEOREM NoFrameIsTooEarly == Spec => []NothingDropped
<1>1. MuxInv => NothingDropped
  BY DEF MuxInv
<1>2. QED
  BY <1>1, MuxInvariant, PTL

(***************************************************************************)
(* A step of the multiplexers is one of the channels or changes nothing of *)
(* them: WritePayload (mux.write) sends, Read (conn.Read) receives.        *)
(***************************************************************************)
LEMMA StepOfChannels ==
    MuxInv /\ [Next]_vars => [Wires!Next]_<<AsChannel(sent), AsChannel(received)>>
<1> SUFFICES ASSUME MuxInv, [Next]_vars
             PROVE  [Wires!Next]_<<AsChannel(sent), AsChannel(received)>>
  OBVIOUS
<1>1. TypeOK /\ TypeOK' /\ \A e \in End, c \in Conn : Numbered(e, c)
  BY MuxNext DEF MuxInv
<1>2. ASSUME NEW f \in End, NEW c \in Conn, WritePayload(f, c)
      PROVE  Wires!Next
  <2> DEFINE e == Peer(f)
             m == [id |-> c, n |-> Len(sent[e][c]) + 1]
  <2>1. e \in End /\ Peer(e) = f
    BY Ends
  <2>2. /\ sent' = [sent EXCEPT ![e][c] = Append(@, m)]
        /\ sent'[e][c] = Append(sent[e][c], m)
        /\ received' = received
    BY <1>1, <1>2, <2>1, Outgoing
  <2>3. m \in Payload
    <3>1. sent'[e][c] \in Seq(Payload) /\ sent[e][c] \in Seq(Payload)
      BY <1>1, <2>1 DEF TypeOK
    <3> HIDE DEF m
    <3>2. /\ Len(sent'[e][c]) = Len(sent[e][c]) + 1
          /\ sent'[e][c][Len(sent[e][c]) + 1] = m
          /\ Len(sent[e][c]) + 1 \in 1..Len(sent'[e][c])
      BY <2>2, <3>1
    <3>3. QED
      BY <3>1, <3>2
  <2> HIDE DEF m, e
  <2>4. AsChannel(sent)' = [AsChannel(sent) EXCEPT ![<<e, c>>] = Append(sent[e][c], m)]
    <3> DEFINE y == Append(sent[e][c], m)
    <3>1. sent \in [End -> [Conn -> Seq(Payload)]]
      BY <1>1 DEF TypeOK
    <3>2. sent' = [sent EXCEPT ![e][c] = y]
      BY <2>2
    <3> HIDE DEF y
    <3>3. \A ec \in End \X Conn : sent'[ec[1]][ec[2]] =
                                  IF ec = <<e, c>> THEN y ELSE sent[ec[1]][ec[2]]
      BY <2>1, <3>1, <3>2
    <3>4. QED
      BY <3>3 DEF AsChannel, y
  <2>5. AsChannel(received)' = AsChannel(received)
    BY <2>2 DEF AsChannel
  <2>6. <<e, c>> \in End \X Conn /\ AsChannel(sent)[<<e, c>>] = sent[e][c]
    BY <2>1 DEF AsChannel
  <2>7. Wires!Send(<<e, c>>, m)
    BY <2>4, <2>5, <2>6 DEF Wires!Send
  <2>8. QED
    BY <2>3, <2>6, <2>7 DEF Wires!Next
<1>3. ASSUME NEW e \in End, NEW c \in Conn, Read(e, c)
      PROVE  Wires!Next
  <2> DEFINE m == [id |-> c, n |-> Len(received[e][c]) + 1]
             i == Len(received[e][c]) + 1
  <2>1. /\ readC[e][c] # <<>> /\ sent' = sent
        /\ received' = [received EXCEPT ![e][c] = Append(@, m)]
    BY <1>1, <1>3, Reading
  <2>2. i \in 1..Len(sent[e][c])
    <3>1. Len(readC[e][c]) >= 1
      BY <1>1, <2>1, Messages
    <3>2. Len(received[e][c]) + Len(readC[e][c]) <= Len(sent[e][c])
      BY <1>1 DEF Numbered
    <3>3. \A j, k, l \in Nat : j >= 1 /\ k + j <= l => k + 1 \in 1..l
      OBVIOUS
    <3>4. QED
      BY <1>1, <3>1, <3>2, <3>3, Messages
  <2>3. m = sent[e][c][i]
    BY <1>1, <2>2 DEF Numbered
  <2> HIDE DEF m
  <2>4. AsChannel(received)' =
           [AsChannel(received) EXCEPT ![<<e, c>>] = Append(received[e][c], sent[e][c][i])]
    <3> DEFINE y == Append(received[e][c], m)
    <3>1. received \in [End -> [Conn -> Seq(Chunk)]]
      BY <1>1 DEF TypeOK
    <3>2. received' = [received EXCEPT ![e][c] = y]
      BY <2>1
    <3> HIDE DEF y
    <3>3. \A ec \in End \X Conn : received'[ec[1]][ec[2]] =
                                  IF ec = <<e, c>> THEN y ELSE received[ec[1]][ec[2]]
      BY <3>1, <3>2
    <3>4. QED
      BY <2>3, <3>3 DEF AsChannel, y
  <2>5. AsChannel(sent)' = AsChannel(sent)
    BY <2>1 DEF AsChannel
  <2>6. /\ AsChannel(sent)[<<e, c>>] = sent[e][c]
        /\ AsChannel(received)[<<e, c>>] = received[e][c]
        /\ <<e, c>> \in End \X Conn
    BY DEF AsChannel
  <2>7. Wires!Receive(<<e, c>>)
    BY <2>2, <2>4, <2>5, <2>6 DEF Wires!Receive
  <2>8. QED
    BY <2>6, <2>7 DEF Wires!Next
<1>4. CASE \A e \in End, c \in Conn : ~WritePayload(e, c) /\ ~Read(e, c)
  <2>1. received' = received
    BY <1>4, ReceivedKept
  <2>2. sent' = sent
    <3>1. ASSUME NEW f \in End, NEW c \in Conn,
                 Write(f, c) \/ WriteHeader(f, c) \/ WriteFails(f, c)
          PROVE  sent' = sent
      BY <3>1 DEF Write, WriteHeader, WriteFails, historyVars
    <3>2. QED
      BY <1>4, <3>1, WritersKept
  <2>3. QED
    BY <2>1, <2>2 DEF AsChannel
<1>5. QED
  BY <1>2, <1>3, <1>4

(***************************************************************************)
(* Two multiplexers and their trunk are one channel per connection and     *)
(* direction, for any connections, bounds and queue lengths, whatever the  *)
(* writers interleave and whichever end closes or loses the trunk.         *)
(***************************************************************************)
THEOREM MuxImplementsChannels == Spec => ImplementsChannels
<1>1. Init => Wires!Init
  BY DEF Init, PerConn, AsChannel, Wires!Init
<1>2. QED
  BY <1>1, MuxInvariant, StepOfChannels, PTL DEF Spec, ImplementsChannels, Wires!Spec
=============================================================================
