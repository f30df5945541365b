---------------------------- MODULE ProtocolProofs ----------------------------
(***************************************************************************)
(* What goes over the wire arrives as it was meant.  For all loads and     *)
(* budgets, the state that reaches a plugin is whole, and what is          *)
(* collected is what was sent.  For all numbers and strings, what is       *)
(* written is what is read.                                                *)
(***************************************************************************)
EXTENDS SyncSplit, Wire, WellFoundedInduction, SequenceTheorems, TLAPS

(***************************************************************************)
(* A slice is a sequence of positions.                                     *)
(***************************************************************************)
LEMMA SliceType ==
    ASSUME NEW k \in Nat, NEW n \in Nat
    PROVE  /\ Slice(k, n) \in Seq(Nat)
           /\ Len(Slice(k, n)) = n
           /\ \A i \in 1..n : Slice(k, n)[i] = k + i
BY DEF Slice

(***************************************************************************)
(* Two adjacent slices join to one: no position is lost or repeated where  *)
(* one message ends and the next begins.                                   *)
(***************************************************************************)
LEMMA SlicesJoin ==
    ASSUME NEW k \in Nat, NEW n \in Nat, NEW m \in Nat, k + n = m
    PROVE  Slice(0, k) \o Slice(k, n) = Slice(0, m)
<1> DEFINE s == Slice(0, k)  t == Slice(k, n)  u == Slice(0, m)
<1>1. /\ s \in Seq(Nat) /\ Len(s) = k /\ \A i \in 1..k : s[i] = i
      /\ t \in Seq(Nat) /\ Len(t) = n /\ \A i \in 1..n : t[i] = k + i
      /\ u \in Seq(Nat) /\ Len(u) = m /\ \A i \in 1..m : u[i] = i
  <2>1. s \in Seq(Nat) /\ Len(s) = k /\ \A i \in 1..k : s[i] = i
    BY DEF Slice
  <2>2. t \in Seq(Nat) /\ Len(t) = n /\ \A i \in 1..n : t[i] = k + i
    BY DEF Slice
  <2>3. u \in Seq(Nat) /\ Len(u) = m /\ \A i \in 1..m : u[i] = i
    BY DEF Slice
  <2>4. QED
    BY <2>1, <2>2, <2>3
<1> HIDE DEF s, t, u
<1>2. s \o t \in Seq(Nat) /\ Len(s \o t) = m
  BY <1>1
<1>3. ASSUME NEW i \in 1..m PROVE (s \o t)[i] = u[i]
  <2>1. CASE i <= k
    BY <1>1, <1>3, <2>1
  <2>2. CASE i > k
    <3>1. i - k \in 1..n
      BY <1>3, <2>2
    <3>2. (s \o t)[i] = t[i - k]
      BY <1>1, <1>3, <2>2
    <3>3. t[i - k] = i
      BY <1>1, <3>1
    <3>4. QED
      BY <1>1, <3>2, <3>3
  <2>3. i <= k \/ i > k
    BY <1>3
  <2>4. QED
    BY <2>1, <2>2, <2>3
<1>4. s \o t = u
  BY <1>1, <1>2, <1>3, SeqEqual
<1>5. QED
  BY <1>4 DEF s, t, u

(***************************************************************************)
(* Rounding down keeps counts natural numbers.                             *)
(***************************************************************************)
LEMMA QuotientType ==
    ASSUME NEW a \in Nat, NEW b \in Nat \ {0}
    PROVE  a \div b \in Nat
OBVIOUS

LEMMA ProductType ==
    ASSUME NEW a \in Nat, NEW b \in Nat
    PROVE  a * b \in Nat
OBVIOUS

(***************************************************************************)
(* A fraction of a count is less than the count.                           *)
(***************************************************************************)
LEMMA ProductMonotone ==
    ASSUME NEW a \in Nat, NEW b \in Nat, NEW c \in Nat, a <= b
    PROVE  a * c <= b * c
<1>1. PICK d \in Nat : b = a + d
  <2>1. b - a \in Nat /\ b = a + (b - a)
    OBVIOUS
  <2>2. QED
    BY <2>1
<1>2. b * c = a * c + d * c
  BY <1>1
<1>3. d * c \in Nat /\ a * c \in Nat
  BY <1>1, ProductType
<1>4. QED
  BY <1>2, <1>3

LEMMA QuotientBelow ==
    ASSUME NEW n \in Nat \ {0}, NEW a \in Nat, NEW b \in Nat \ {0}, a < b
    PROVE  (n * a) \div b < n
<1> DEFINE q == (n * a) \div b
<1>1. n * a \in Nat /\ n * b \in Nat
  BY ProductType
<1>2. n * a < n * b
  <2>1. (a + 1) * n <= b * n
    BY ProductMonotone
  <2>2. (a + 1) * n = n * a + n /\ b * n = n * b
    OBVIOUS
  <2>3. QED
    BY <1>1, <2>1, <2>2
<1>3. q \in Nat /\ q * b <= n * a
  BY <1>1
<1> HIDE DEF q
<1>4. ASSUME n <= q PROVE FALSE
  <2>1. n * b <= q * b
    BY <1>3, <1>4, ProductMonotone
  <2>2. q * b \in Nat
    BY <1>3, ProductType
  <2>3. QED
    BY <1>1, <1>2, <1>3, <2>1, <2>2
<1>5. q < n
  BY <1>3, <1>4
<1>6. QED
  BY <1>5 DEF q

(***************************************************************************)
(* The size of a run of objects is a natural number, since totals ascend.  *)
(***************************************************************************)
LEMMA SizeType ==
    ASSUME NEW sizes \in Seq(Nat), Ascending(sizes),
           NEW k \in Nat, NEW n \in Nat, k + n <= Len(sizes)
    PROVE  SizeOf(sizes, k, n) \in Nat
<1>1. CASE k = 0
  BY <1>1 DEF SizeOf, Total
<1>2. CASE k # 0
  <2>1. k \in DOMAIN sizes /\ k + n \in DOMAIN sizes /\ k <= k + n
    BY <1>2
  <2>2. sizes[k] \in Nat /\ sizes[k + n] \in Nat /\ sizes[k] <= sizes[k + n]
    BY <2>1 DEF Ascending
  <2>3. QED
    BY <1>2, <2>2 DEF SizeOf, Total
<1>3. QED
  BY <1>1, <1>2

-----------------------------------------------------------------------------
(***************************************************************************)
(* The inductive invariant: what was sent stays within the load; what the  *)
(* stub collected is that and a part that is yet to be acknowledged; and   *)
(* the handler was called when the last message was dealt with.  Only a    *)
(* part ever asks for more than is left, so that the last one is complete. *)
(***************************************************************************)
SentWithin == sent.pods <= Len(load.pods) /\ sent.ctrs <= Len(load.ctrs)

OverrunIsPart == InBounds \/ More

Collection ==
    status # "synced" =>
      collected = IF flight # "reply" THEN Acknowledged
                  ELSE IF More /\ load.split THEN Joined(Acknowledged, Message) ELSE Nothing

Handed ==
    delivered = IF status = "synced" THEN FullState
                ELSE IF flight = "reply" /\ ~(More /\ load.split)
                THEN Joined(Acknowledged, Message) ELSE Nothing

IInv == /\ TypeOK /\ SentWithin /\ OverrunIsPart /\ Collection /\ Handed
        /\ status = "synced" => flight = "none"

LEMMA InitIInv == Init => IInv
<1> SUFFICES ASSUME Init PROVE IInv
  OBVIOUS
<1>1. load \in Load /\ Ascending(load.pods) /\ Ascending(load.ctrs)
  BY LoadsAssumption DEF Init
<1>2. TypeOK
  BY <1>1, LoadsAssumption DEF Init, TypeOK, Load, Counts, Positions, Sized, Nothing
<1>3. Slice(0, 0) = << >>
  BY DEF Slice
<1>4. SentWithin /\ OverrunIsPart
  BY <1>1 DEF Init, SentWithin, OverrunIsPart, InBounds, Left, Sized, Load
<1>5. Collection /\ Handed
  BY <1>3 DEF Init, Collection, Handed, Acknowledged, Sized, Nothing
<1>6. QED
  BY <1>2, <1>4, <1>5 DEF Init, IInv

(***************************************************************************)
(* The last message, if it is within bounds, completes the state.          *)
(***************************************************************************)
LEMMA LastCompletes ==
    ASSUME TypeOK, InBounds, ~More
    PROVE  Joined(Acknowledged, Message) = FullState
<1>1. /\ sent.pods \in Nat /\ sent.ctrs \in Nat
      /\ perMsg.pods \in Nat /\ perMsg.ctrs \in Nat
      /\ Len(load.pods) \in Nat /\ Len(load.ctrs) \in Nat
      /\ Left.pods = Len(load.pods) - sent.pods
      /\ Left.ctrs = Len(load.ctrs) - sent.ctrs
  BY DEF TypeOK, Counts, Load, Sized, Left
<1>2. /\ sent.pods + perMsg.pods = Len(load.pods)
      /\ sent.ctrs + perMsg.ctrs = Len(load.ctrs)
  BY <1>1 DEF InBounds, More
<1>3. Slice(0, sent.pods) \o Slice(sent.pods, perMsg.pods) = Slice(0, Len(load.pods))
  <2>1. /\ sent.pods \in Nat /\ perMsg.pods \in Nat /\ Len(load.pods) \in Nat
        /\ sent.pods + perMsg.pods = Len(load.pods)
    BY <1>1, <1>2
  <2>2. QED
    BY <2>1, SlicesJoin
<1>4. Slice(0, sent.ctrs) \o Slice(sent.ctrs, perMsg.ctrs) = Slice(0, Len(load.ctrs))
  <2>1. /\ sent.ctrs \in Nat /\ perMsg.ctrs \in Nat /\ Len(load.ctrs) \in Nat
        /\ sent.ctrs + perMsg.ctrs = Len(load.ctrs)
    BY <1>1, <1>2
  <2>2. QED
    BY <2>1, SlicesJoin
<1>5. QED
  BY <1>3, <1>4 DEF Joined, Acknowledged, Message, Sized, FullState

(***************************************************************************)
(* What is collected and delivered are positions.                          *)
(***************************************************************************)
LEMMA JoinedType ==
    ASSUME TypeOK
    PROVE  Joined(collected, Message) \in Positions
<1>1. /\ collected.pods \in Seq(Nat) /\ collected.ctrs \in Seq(Nat)
      /\ sent.pods \in Nat /\ sent.ctrs \in Nat
      /\ perMsg.pods \in Nat /\ perMsg.ctrs \in Nat
  BY DEF TypeOK, Positions, Counts
<1>2. Slice(sent.pods, perMsg.pods) \in Seq(Nat) /\ Slice(sent.ctrs, perMsg.ctrs) \in Seq(Nat)
  BY <1>1, SliceType
<1>3. QED
  BY <1>1, <1>2 DEF Joined, Message, Sized, Positions

(***************************************************************************)
(* The length of a message within bounds.                                  *)
(***************************************************************************)
LEMMA LengthType ==
    ASSUME TypeOK, SentWithin, InBounds
    PROVE  MessageLength \in Nat
<1>1. /\ sent.pods \in Nat /\ sent.ctrs \in Nat
      /\ perMsg.pods \in Nat /\ perMsg.ctrs \in Nat
      /\ load.pods \in Seq(Nat) /\ load.ctrs \in Seq(Nat)
      /\ Ascending(load.pods) /\ Ascending(load.ctrs)
  BY DEF TypeOK, Counts, Load
<1>2. sent.pods + perMsg.pods <= Len(load.pods) /\ sent.ctrs + perMsg.ctrs <= Len(load.ctrs)
  BY <1>1 DEF SentWithin, InBounds, Left, Sized
<1>3. SizeOf(load.pods, sent.pods, perMsg.pods) \in Nat
  BY <1>1, <1>2, SizeType
<1>4. SizeOf(load.ctrs, sent.ctrs, perMsg.ctrs) \in Nat
  BY <1>1, <1>2, SizeType
<1>5. QED
  BY <1>3, <1>4 DEF MessageLength

(***************************************************************************)
(* Scaling down never makes a count larger, and makes it smaller unless it *)
(* is zero already.                                                        *)
(***************************************************************************)
LEMMA ScaleBelow ==
    ASSUME TypeOK, SentWithin, InBounds, MessageLength > load.max, NEW n \in Nat
    PROVE  Scale(n) \in Nat /\ Scale(n) <= n /\ (n > 0 => Scale(n) < n)
<1> DEFINE L == MessageLength
<1>1. load.max \in Nat \ {0}
  BY DEF TypeOK, Load
<1>2. L \in Nat \ {0} /\ L > load.max
  BY <1>1, LengthType
<1> HIDE DEF L
<1>3. CASE 10 * load.max > 9 * L
  <2>1. Scale(n) = (9 * n) \div 10
    BY <1>3 DEF Scale, L
  <2>2. QED
    BY <2>1
<1>4. CASE ~(10 * load.max > 9 * L)
  <2>1. Scale(n) = (n * load.max) \div L
    BY <1>4 DEF Scale, L
  <2>2. Scale(n) \in Nat
    BY <1>1, <1>2, <2>1, ProductType, QuotientType
  <2>3. n = 0 => Scale(n) = 0
    <3>1. 0 * load.max = 0 /\ 0 \div L = 0
      BY <1>1, <1>2
    <3>2. QED
      BY <2>1, <3>1
  <2>4. n > 0 => Scale(n) < n
    <3>1. load.max \in Nat /\ load.max < L
      BY <1>1, <1>2
    <3>2. n > 0 => n \in Nat \ {0}
      OBVIOUS
    <3>3. QED
      BY <1>2, <2>1, <3>1, <3>2, QuotientBelow
  <2>5. QED
    BY <2>2, <2>3, <2>4
<1>5. QED
  BY <1>3, <1>4

(***************************************************************************)
(* What is tried after a rejection: the floor, or no more of either kind.  *)
(***************************************************************************)
Floor == Sized(minObjsPerMsg \div 2, minObjsPerMsg \div 2)

LEMMA RecalcBelow ==
    ASSUME TypeOK, SentWithin, InBounds, MessageLength > load.max
    PROVE  /\ Recalc \in Counts
           /\ \/ Recalc = Floor
              \/ Recalc.pods <= perMsg.pods /\ Recalc.ctrs <= perMsg.ctrs
<1> DEFINE p == Scale(perMsg.pods)  c == Scale(perMsg.ctrs)
<1>1. perMsg.pods \in Nat /\ perMsg.ctrs \in Nat
  BY DEF TypeOK, Counts
<1>2. p \in Nat /\ c \in Nat /\ p <= perMsg.pods /\ c <= perMsg.ctrs
  BY <1>1, ScaleBelow
<1>3. minObjsPerMsg \div 2 \in Nat
  BY DEF minObjsPerMsg
<1>4. Recalc = Floor \/ Recalc = Sized(p, c)
  BY DEF Recalc, Floor
<1> HIDE DEF p, c
<1>5. Floor \in Counts /\ Sized(p, c) \in Counts
  BY <1>2, <1>3 DEF Floor, Sized, Counts
<1>6. Sized(p, c).pods <= perMsg.pods /\ Sized(p, c).ctrs <= perMsg.ctrs
  BY <1>2 DEF Sized
<1>7. QED
  BY <1>4, <1>5, <1>6

(***************************************************************************)
(* Scaling down leaves fewer objects per message, if there were more than  *)
(* the floor before.                                                       *)
(***************************************************************************)
LEMMA RecalcShrinks ==
    ASSUME TypeOK, SentWithin, InBounds, MessageLength > load.max,
           perMsg.pods + perMsg.ctrs > minObjsPerMsg
    PROVE  Recalc.pods + Recalc.ctrs < perMsg.pods + perMsg.ctrs
<1> DEFINE P == perMsg.pods  C == perMsg.ctrs  p == Scale(P)  c == Scale(C)
<1>1. P \in Nat /\ C \in Nat /\ P + C > 8
  BY DEF TypeOK, Counts, minObjsPerMsg
<1>2. p \in Nat /\ c \in Nat /\ p + c < P + C
  <2>1. /\ p \in Nat /\ p <= P /\ (P > 0 => p < P)
        /\ c \in Nat /\ c <= C /\ (C > 0 => c < C)
    BY <1>1, ScaleBelow
  <2> HIDE DEF p, c, P, C
  <2>2. QED
    BY <1>1, <2>1
<1>3. minObjsPerMsg = 8 /\ minObjsPerMsg \div 2 = 4
  BY DEF minObjsPerMsg
<1>4. CASE p + c < minObjsPerMsg
  <2>1. Recalc = Sized(4, 4)
    BY <1>3, <1>4 DEF Recalc
  <2>2. Recalc.pods = 4 /\ Recalc.ctrs = 4
    BY <2>1 DEF Sized
  <2>3. QED
    BY <1>1, <2>2
<1>5. CASE ~(p + c < minObjsPerMsg)
  <2>1. Recalc = Sized(p, c)
    BY <1>5 DEF Recalc
  <2>2. Recalc.pods = p /\ Recalc.ctrs = c
    BY <2>1 DEF Sized
  <2>3. QED
    BY <1>2, <2>2
<1>6. QED
  BY <1>4, <1>5

LEMMA NextIInv == IInv /\ [Next]_vars => IInv'
<1> SUFFICES ASSUME IInv, [Next]_vars PROVE IInv'
  OBVIOUS
<1>1. /\ TypeOK /\ SentWithin /\ OverrunIsPart /\ Collection /\ Handed
      /\ status = "synced" => flight = "none"
  BY DEF IInv
<1>2. /\ sent.pods \in Nat /\ sent.ctrs \in Nat
      /\ perMsg.pods \in Nat /\ perMsg.ctrs \in Nat
      /\ Len(load.pods) \in Nat /\ Len(load.ctrs) \in Nat
      /\ rounds \in 0..Budget /\ Budget \in Nat
      /\ Left.pods = Len(load.pods) - sent.pods
      /\ Left.ctrs = Len(load.ctrs) - sent.ctrs
  BY <1>1, LoadsAssumption DEF TypeOK, Counts, Load, Sized, Left
<1>3. CASE Oversized
  <2>1. /\ perMsg' \in Counts
        /\ \/ perMsg' = Floor
           \/ perMsg'.pods <= perMsg.pods /\ perMsg'.ctrs <= perMsg.ctrs
    <3>1. InBounds /\ MessageLength > load.max /\ perMsg' = Recalc
      BY <1>3 DEF Oversized, Ready
    <3>2. /\ Recalc \in Counts
          /\ \/ Recalc = Floor
             \/ Recalc.pods <= perMsg.pods /\ Recalc.ctrs <= perMsg.ctrs
      BY <1>1, <3>1, RecalcBelow
    <3>3. QED
      BY <3>1, <3>2
  <2>2. perMsg'.pods \in Nat /\ perMsg'.ctrs \in Nat
    BY <2>1 DEF Counts
  <2>3. TypeOK'
    BY <1>1, <1>2, <1>3, <2>1 DEF TypeOK, Oversized, Ready
  <2>4. OverrunIsPart'
    <3>1. /\ perMsg.pods <= Left.pods /\ perMsg.ctrs <= Left.ctrs
          /\ perMsg.pods + perMsg.ctrs > 8
          /\ Left' = Left
      BY <1>3 DEF Oversized, Ready, InBounds, minObjsPerMsg, Left
    <3>2. CASE perMsg' = Floor
      <4>1. perMsg'.pods = 4 /\ perMsg'.ctrs = 4
        BY <3>2 DEF Floor, minObjsPerMsg, Sized
      <4>2. Left.pods > 4 \/ Left.ctrs > 4
        BY <1>2, <3>1
      <4>3. QED
        BY <3>1, <4>1, <4>2 DEF OverrunIsPart, More
    <3>3. CASE perMsg'.pods <= perMsg.pods /\ perMsg'.ctrs <= perMsg.ctrs
      BY <1>2, <2>2, <3>1, <3>3 DEF OverrunIsPart, InBounds
    <3>4. QED
      BY <2>1, <3>2, <3>3
  <2>5. SentWithin' /\ Collection' /\ Handed' /\ flight' = flight /\ status' = status
    BY <1>1, <1>3
       DEF Oversized, Ready, SentWithin, Collection, Handed, Acknowledged, FullState
  <2>6. QED
    BY <1>1, <2>3, <2>4, <2>5 DEF IInv
<1>4. CASE GiveUp \/ PartNotSupported \/ RequestFails \/ DeadlineExceeded
  <2>1. /\ UNCHANGED <<load, sent, perMsg, flight, collected, delivered>>
        /\ status = "sending" /\ status' \in {"refused", "unsupported", "failed", "timedout"}
        /\ rounds' \in 0..Budget
    BY <1>2, <1>4 DEF GiveUp, PartNotSupported, RequestFails, DeadlineExceeded, Ready, Answered
  <2>2. TypeOK'
    BY <1>1, <2>1 DEF TypeOK
  <2>3. SentWithin' /\ OverrunIsPart' /\ Collection' /\ Handed'
    BY <1>1, <2>1 DEF SentWithin, OverrunIsPart, Collection, Handed, InBounds, More, Left,
                      Acknowledged, Message, FullState
  <2>4. QED
    BY <2>1, <2>2, <2>3 DEF IInv
<1>5. CASE SendMessage
  <2>1. /\ UNCHANGED <<load, sent, perMsg, collected, delivered, status>>
        /\ status = "sending" /\ flight = "none" /\ flight' = "request"
        /\ rounds' \in 0..Budget
    BY <1>2, <1>5 DEF SendMessage, Ready
  <2>2. TypeOK'
    BY <1>1, <2>1 DEF TypeOK
  <2>3. SentWithin' /\ OverrunIsPart' /\ Collection' /\ Handed'
    BY <1>1, <2>1 DEF SentWithin, OverrunIsPart, Collection, Handed, InBounds, More, Left,
                      Acknowledged, FullState
  <2>4. QED
    BY <2>1, <2>2, <2>3 DEF IInv
<1>6. CASE Synchronize
  <2>1. /\ UNCHANGED <<load, sent, perMsg, rounds, status>>
        /\ flight = "request" /\ flight' = "reply" /\ status # "synced"
    BY <1>1, <1>6 DEF Synchronize
  <2>2. collected = Acknowledged /\ delivered = Nothing
    BY <1>1, <2>1 DEF Collection, Handed
  <2>3. More' = More /\ Message' = Message /\ Acknowledged' = Acknowledged
    BY <2>1 DEF More, Message, Left, Acknowledged
  <2>4. Nothing \in Positions
    BY DEF Nothing, Sized, Positions
  <2>5. TypeOK'
    BY <1>1, <1>6, <2>1, <2>4, JoinedType DEF TypeOK, Synchronize
  <2>6. Collection' /\ Handed'
    BY <1>6, <2>1, <2>2, <2>3 DEF Collection, Handed, Synchronize
  <2>7. SentWithin' /\ OverrunIsPart'
    BY <1>1, <2>1 DEF SentWithin, OverrunIsPart, InBounds, More, Left
  <2>8. QED
    BY <2>1, <2>5, <2>6, <2>7 DEF IInv
<1>7. CASE PartAcknowledged
  <2>1. /\ sent.pods + perMsg.pods <= Len(load.pods)
        /\ sent.ctrs + perMsg.ctrs <= Len(load.ctrs)
    BY <1>2, <1>7 DEF PartAcknowledged, Answered, InBounds
  <2>2. /\ sent'.pods = sent.pods + perMsg.pods
        /\ sent'.ctrs = sent.ctrs + perMsg.ctrs
        /\ sent' \in Counts
    BY <1>2, <1>7 DEF PartAcknowledged, Sized, Counts
  <2>3. /\ Left.pods - perMsg.pods \in Nat /\ Left.ctrs - perMsg.ctrs \in Nat
        /\ Left'.pods = Left.pods - perMsg.pods /\ Left'.ctrs = Left.ctrs - perMsg.ctrs
    <3>1. load' = load
      BY <1>7 DEF PartAcknowledged
    <3>2. Left'.pods = Len(load.pods) - sent'.pods /\ Left'.ctrs = Len(load.ctrs) - sent'.ctrs
      BY <3>1 DEF Left, Sized
    <3>3. QED
      BY <1>2, <2>1, <2>2, <3>2
  <2>4. /\ perMsg'.pods = AtMost(perMsg.pods, Left.pods - perMsg.pods)
        /\ perMsg'.ctrs = AtMost(perMsg.ctrs, Left.ctrs - perMsg.ctrs)
        /\ perMsg' \in Counts
    BY <1>2, <1>7, <2>3 DEF PartAcknowledged, Sized, Counts, AtMost
  <2>5. collected = Joined(Acknowledged, Message) /\ delivered = Nothing
    BY <1>1, <1>7 DEF Collection, Handed, PartAcknowledged, Answered
  <2>6. Joined(Acknowledged, Message) = Acknowledged'
    <3>1. Slice(0, sent.pods) \o Slice(sent.pods, perMsg.pods) = Slice(0, sent'.pods)
      <4>1. /\ sent.pods \in Nat /\ perMsg.pods \in Nat /\ sent'.pods \in Nat
            /\ sent.pods + perMsg.pods = sent'.pods
        BY <1>2, <2>2 DEF Counts
      <4>2. QED
        BY <4>1, SlicesJoin
    <3>2. Slice(0, sent.ctrs) \o Slice(sent.ctrs, perMsg.ctrs) = Slice(0, sent'.ctrs)
      <4>1. /\ sent.ctrs \in Nat /\ perMsg.ctrs \in Nat /\ sent'.ctrs \in Nat
            /\ sent.ctrs + perMsg.ctrs = sent'.ctrs
        BY <1>2, <2>2 DEF Counts
      <4>2. QED
        BY <4>1, SlicesJoin
    <3>3. QED
      BY <3>1, <3>2 DEF Joined, Acknowledged, Message, Sized
  <2>7. TypeOK'
    BY <1>1, <1>7, <2>2, <2>4 DEF TypeOK, PartAcknowledged
  <2>8. SentWithin'
    BY <1>7, <2>1, <2>2 DEF SentWithin, PartAcknowledged
  <2>9. OverrunIsPart'
    BY <1>2, <2>3, <2>4 DEF OverrunIsPart, InBounds, AtMost
  <2>10. Collection' /\ Handed'
    BY <1>7, <2>5, <2>6 DEF Collection, Handed, PartAcknowledged, Answered
  <2>11. QED
    BY <1>7, <2>7, <2>8, <2>9, <2>10 DEF IInv, PartAcknowledged, Answered
<1>8. CASE LastAcknowledged
  <2>1. delivered = FullState
    <3>1. delivered = Joined(Acknowledged, Message)
      BY <1>1, <1>8 DEF Handed, LastAcknowledged, Answered
    <3>2. QED
      BY <1>1, <1>8, <3>1, LastCompletes DEF LastAcknowledged, Answered
  <2>2. TypeOK'
    BY <1>1, <1>8 DEF TypeOK, LastAcknowledged
  <2>3. SentWithin' /\ OverrunIsPart' /\ Collection' /\ Handed'
    BY <1>1, <1>8, <2>1 DEF SentWithin, OverrunIsPart, Collection, Handed, InBounds, More,
                            Left, FullState, LastAcknowledged
  <2>4. QED
    BY <1>8, <2>2, <2>3 DEF IInv, LastAcknowledged
<1>9. CASE SliceOutOfRange
  <2>1. /\ UNCHANGED <<load, sent, perMsg, rounds, collected, delivered>>
        /\ status = "sending" /\ status' \in {"sending", "panic", "refused", "unsupported"}
        /\ flight' = flight \/ (flight = "none" /\ flight' = "request")
    BY <1>9 DEF SliceOutOfRange
  <2>2. TypeOK'
    BY <1>1, <2>1 DEF TypeOK
  <2>3. SentWithin' /\ OverrunIsPart' /\ Collection' /\ Handed'
    BY <1>1, <2>1 DEF SentWithin, OverrunIsPart, Collection, Handed, InBounds, More, Left,
                      Acknowledged, Message, FullState
  <2>4. QED
    BY <2>1, <2>2, <2>3 DEF IInv
<1>10. CASE UNCHANGED vars
  <2>1. TypeOK'
    BY <1>1, <1>10 DEF vars, TypeOK
  <2>2. QED
    BY <1>1, <1>10, <2>1
       DEF IInv, vars, SentWithin, OverrunIsPart, Collection, Handed, InBounds, More, Left,
           Acknowledged, Message, FullState
<1>11. QED
  BY <1>3, <1>4, <1>5, <1>6, <1>7, <1>8, <1>9, <1>10 DEF Next

(***************************************************************************)
(* The invariants of SyncSplit hold of every load: variables have their    *)
(* types, the stub has collected what was sent, and the plugin sees the    *)
(* whole state or none of it.                                              *)
(***************************************************************************)
THEOREM SyncInvariant == Spec => []IInv
BY InitIInv, NextIInv, PTL DEF Spec

(***************************************************************************)
(* Every variable keeps its type, whatever there is to synchronize: in     *)
(* particular no message is tried after the request timeout, and scaling   *)
(* down (recalcObjsPerSyncMsg) never makes a count negative.               *)
(***************************************************************************)
THEOREM SyncTypeCorrect == Spec => []TypeOK
<1>1. IInv => TypeOK
  BY DEF IInv
<1>2. QED
  BY <1>1, SyncInvariant, PTL

(***************************************************************************)
(* README: NRI sends the full set of pods and containers.  Whatever the    *)
(* sizes and however often messages are rejected and split anew, the       *)
(* plugin's handler sees each object once and in order, or is not called.  *)
(***************************************************************************)
THEOREM SyncWholeOrNothing == Spec => []WholeOrNothing
<1>1. IInv => WholeOrNothing
  <2> SUFFICES ASSUME IInv PROVE WholeOrNothing
    OBVIOUS
  <2>1. TypeOK /\ OverrunIsPart /\ Handed
    BY DEF IInv
  <2>2. ~More => Joined(Acknowledged, Message) = FullState
    BY <2>1, LastCompletes DEF OverrunIsPart
  <2>3. QED
    BY <2>1, <2>2 DEF Handed, WholeOrNothing
<1>2. QED
  BY <1>1, SyncInvariant, PTL

(***************************************************************************)
(* The stub's collection and the runtime's notion of what it has sent      *)
(* never drift apart.                                                      *)
(***************************************************************************)
THEOREM SyncPartsMatch == Spec => []PartsMatch
<1>1. IInv => PartsMatch
  <2> SUFFICES ASSUME IInv, status # "synced", delivered = Nothing
               PROVE  \/ collected = Acknowledged
                      \/ flight = "reply" /\ collected = Joined(Acknowledged, Message)
    BY DEF PartsMatch
  <2>1. Collection /\ Handed
    BY DEF IInv
  <2>2. QED
    BY <2>1 DEF Collection, Handed
<1>2. QED
  BY <1>1, SyncInvariant, PTL

(***************************************************************************)
(* A message that is rejected is followed by one of fewer objects, and     *)
(* nothing else lets messages grow: recalcObjsPerSyncMsg cannot make the   *)
(* loop of synchronize retry one and the same split for ever.              *)
(***************************************************************************)
THEOREM SyncRetriesShrink == Spec => RetriesShrink
<1>1. ASSUME IInv, [Next]_vars, perMsg' # perMsg
      PROVE  perMsg'.pods + perMsg'.ctrs < perMsg.pods + perMsg.ctrs
  <2>1. TypeOK /\ SentWithin /\ perMsg \in Counts
    BY <1>1 DEF IInv, TypeOK
  <2>2. CASE Oversized
    BY <2>1, <2>2, RecalcShrinks DEF Oversized, Ready
  <2>3. CASE PartAcknowledged
    <3> DEFINE leftPods == Left.pods - perMsg.pods
               leftCtrs == Left.ctrs - perMsg.ctrs
    <3>1. Left.pods \in Int /\ Left.ctrs \in Int /\ perMsg.pods \in Nat /\ perMsg.ctrs \in Nat
      BY <2>1 DEF TypeOK, Counts, Load, Left, Sized
    <3>2. perMsg' = Sized(AtMost(perMsg.pods, leftPods), AtMost(perMsg.ctrs, leftCtrs))
      BY <2>3 DEF PartAcknowledged
    <3>3. perMsg'.pods = AtMost(perMsg.pods, leftPods) /\ perMsg'.ctrs = AtMost(perMsg.ctrs, leftCtrs)
      BY <3>2 DEF Sized
    <3>4. /\ perMsg'.pods \in Int /\ perMsg'.pods <= perMsg.pods
          /\ perMsg'.ctrs \in Int /\ perMsg'.ctrs <= perMsg.ctrs
      BY <3>1, <3>3 DEF AtMost
    <3>5. perMsg' = Sized(perMsg'.pods, perMsg'.ctrs) /\ perMsg = Sized(perMsg.pods, perMsg.ctrs)
      BY <2>1, <3>2, <3>3 DEF Counts, Sized
    <3>6. perMsg'.pods # perMsg.pods \/ perMsg'.ctrs # perMsg.ctrs
      BY <1>1, <3>5
    <3>7. QED
      BY <3>1, <3>4, <3>6
  <2>4. QED
    BY <1>1, <2>2, <2>3
       DEF Next, GiveUp, SendMessage, Synchronize, PartNotSupported, LastAcknowledged,
           RequestFails, DeadlineExceeded, SliceOutOfRange, vars
<1>2. IInv /\ [Next]_vars
      => [perMsg' # perMsg => perMsg'.pods + perMsg'.ctrs < perMsg.pods + perMsg.ctrs]_vars
  BY <1>1
<1>3. QED
  BY <1>2, SyncInvariant, PTL DEF Spec, RetriesShrink

(***************************************************************************)
(* The floor is all that makes synchronize slice beyond what is left       *)
(* (plugin.go:592): whatever the sizes of objects, a split that was scaled *)
(* down and not raised to the floor stays within the two slices.           *)
(***************************************************************************)
THEOREM SyncOverrunsAtFloor == Spec => []OnlyFloorOverruns
<1>1. Init => OnlyFloorOverruns
  <2> SUFFICES ASSUME Init PROVE InBounds
    BY DEF OnlyFloorOverruns
  <2>1. Len(load.pods) \in Nat /\ Len(load.ctrs) \in Nat
    BY LoadsAssumption DEF Init, Load
  <2>2. QED
    BY <2>1 DEF Init, InBounds, Left, Sized
<1>2. IInv /\ OnlyFloorOverruns /\ [Next]_vars => OnlyFloorOverruns'
  <2> SUFFICES ASSUME IInv, OnlyFloorOverruns, [Next]_vars
               PROVE  InBounds' \/ perMsg' = Floor
    BY DEF OnlyFloorOverruns, Floor
  <2>1. TypeOK /\ SentWithin /\ (InBounds \/ perMsg = Floor)
    BY DEF IInv, OnlyFloorOverruns, Floor
  <2>2. /\ Left.pods \in Int /\ Left.ctrs \in Int
        /\ perMsg.pods \in Nat /\ perMsg.ctrs \in Nat
    BY <2>1 DEF TypeOK, Counts, Load, Left, Sized
  <2>3. CASE Oversized
    <3>1. InBounds /\ MessageLength > load.max /\ perMsg' = Recalc /\ Left' = Left
      BY <2>3 DEF Oversized, Ready, Left
    <3>2. /\ Recalc \in Counts
          /\ \/ Recalc = Floor
             \/ Recalc.pods <= perMsg.pods /\ Recalc.ctrs <= perMsg.ctrs
      BY <2>1, <3>1, RecalcBelow
    <3>3. Recalc.pods \in Nat /\ Recalc.ctrs \in Nat
      BY <3>2 DEF Counts
    <3>4. QED
      BY <2>2, <3>1, <3>2, <3>3 DEF InBounds
  <2>4. CASE PartAcknowledged
    <3> DEFINE leftPods == Left.pods - perMsg.pods
               leftCtrs == Left.ctrs - perMsg.ctrs
    <3>1. Left'.pods = leftPods /\ Left'.ctrs = leftCtrs
      BY <2>1, <2>2, <2>4 DEF PartAcknowledged, Left, Sized, TypeOK, Counts, Load
    <3>2. /\ perMsg'.pods = AtMost(perMsg.pods, leftPods)
          /\ perMsg'.ctrs = AtMost(perMsg.ctrs, leftCtrs)
      BY <2>4 DEF PartAcknowledged, Sized
    <3>3. QED
      BY <2>2, <3>1, <3>2 DEF InBounds, AtMost
  <2>5. CASE GiveUp \/ SendMessage \/ Synchronize \/ PartNotSupported \/ LastAcknowledged
             \/ RequestFails \/ DeadlineExceeded \/ SliceOutOfRange \/ UNCHANGED vars
    <3>1. UNCHANGED <<load, sent, perMsg>>
      BY <2>5 DEF GiveUp, SendMessage, Synchronize, PartNotSupported, LastAcknowledged,
                  RequestFails, DeadlineExceeded, SliceOutOfRange, vars
    <3>2. QED
      BY <2>1, <3>1 DEF InBounds, Left
  <2>6. QED
    BY <2>3, <2>4, <2>5 DEF Next
<1>3. QED
  BY <1>1, <1>2, SyncInvariant, PTL DEF Spec

(***************************************************************************)
(* Refinement: whatever becomes of single messages, a synchronization is   *)
(* at most one call of the plugin's handler, with the whole state unless   *)
(* the plugin cannot take parts, and succeeds only after it.  A failure    *)
(* may come before or after the call, as the handler's own error does.     *)
(***************************************************************************)
THEOREM SyncImplementsDelivery == Spec => ImplementsDelivery
<1>1. Init => Promise!Init
  BY DEF Init, Promise!Init
<1>2. IInv /\ IInv' /\ [Next]_vars
        => [Promise!Next]_<<FullState, load.split, delivered, status>>
  <2> SUFFICES ASSUME IInv, IInv', [Next]_vars
               PROVE  Promise!Next \/ UNCHANGED <<FullState, load.split, delivered, status>>
    OBVIOUS
  <2>1. load' = load
    BY DEF Next, vars, Oversized, GiveUp, SendMessage, Synchronize, PartAcknowledged,
           PartNotSupported, LastAcknowledged, RequestFails, DeadlineExceeded, SliceOutOfRange
  <2>2. FullState' = FullState
    BY <2>1 DEF FullState
  <2>3. /\ TypeOK /\ OverrunIsPart /\ Collection /\ Handed
        /\ status = "synced" => flight = "none"
    BY DEF IInv
  <2>4. CASE Oversized \/ SendMessage \/ PartAcknowledged \/ UNCHANGED vars
    BY <2>1, <2>2, <2>4 DEF Oversized, SendMessage, PartAcknowledged, vars
  <2>5. CASE GiveUp \/ PartNotSupported \/ RequestFails \/ DeadlineExceeded \/ SliceOutOfRange
    BY <2>1, <2>2, <2>5
       DEF GiveUp, PartNotSupported, RequestFails, DeadlineExceeded, SliceOutOfRange, Ready,
           Answered, Promise!Next, Promise!Fail
  <2>6. CASE Synchronize
    <3>1. /\ flight = "request" /\ status' = status /\ status # "synced"
          /\ collected = Acknowledged /\ delivered = Nothing
      BY <2>3, <2>6 DEF Synchronize, Collection, Handed
    <3>2. CASE More /\ load.split
      BY <2>1, <2>2, <2>6, <3>1, <3>2 DEF Synchronize
    <3>3. CASE ~(More /\ load.split)
      <4>1. delivered' = Joined(Acknowledged, Message)
        BY <2>6, <3>1, <3>3 DEF Synchronize
      <4>2. load.split => delivered' = FullState
        BY <2>3, <3>3, <4>1, LastCompletes DEF OverrunIsPart
      <4>3. QED
        BY <2>1, <2>2, <3>1, <4>2 DEF Promise!Next, Promise!Deliver
    <3>4. QED
      BY <3>2, <3>3
  <2>7. CASE LastAcknowledged
    <3>1. delivered = FullState
      BY <2>3, <2>7, LastCompletes DEF Handed, LastAcknowledged, Answered
    <3>2. QED
      BY <2>1, <2>2, <2>7, <3>1
         DEF LastAcknowledged, Answered, Promise!Next, Promise!Succeed
  <2>8. QED
    BY <2>4, <2>5, <2>6, <2>7 DEF Next
<1>3. QED
  BY <1>1, <1>2, SyncInvariant, PTL DEF Spec, ImplementsDelivery, Promise!Spec

-----------------------------------------------------------------------------
(***************************************************************************)
(* Numbers and strings on the wire.  No theorem of a library speaks of a   *)
(* maximum or minimum, so that of a set of numbers comes first; then what  *)
(* the groups of a number are before, while and after they are on the      *)
(* wire.  Varint is opaque to most steps: a number is what VarintHas says. *)
(***************************************************************************)
\* The bytes s stand at position i of b.
Stands(b, i, s) == /\ i + Len(s) <= Len(b) + 1
                   /\ \A k \in 1..Len(s) : b[i + k - 1] = s[k]

Byte == 0..255
Group == 0..127
Varint == {g \in Seq(Group) : Len(g) <= 10 /\ (g # <<>> => g[Len(g)] # 0)}

\* The numbers of each width.
Fits(width, g) ==
    /\ g \in Varint
    /\ CASE width = "bool" -> g \in {<<>>, <<1>>}
         [] width = "uint32" -> Len(g) <= 5 /\ (Len(g) = 5 => g[5] < 16)
         [] width = "int32" ->
              \/ Len(g) <= 5 /\ (Len(g) = 5 => g[5] < 8)
              \/ Len(g) = 10 /\ g[10] = 1 /\ g[5] >= 120 /\ \A i \in 6..9 : g[i] = 127
         [] OTHER -> Len(g) = 10 => g[10] = 1

\* What reading a number finds.
AsRead(g) == IF g = <<>> THEN <<0>> ELSE g

\* A set of numbers that is not empty has a least one.
LEMMA HasLeast ==
    ASSUME NEW T, T \subseteq Nat, T # {}
    PROVE  \E x \in T : \A y \in T : x <= y
<1> DEFINE less == {ss \in Nat \X Nat : ss[1] < ss[2]}
<1>1. IsWellFoundedOn(less, Nat)
  BY NatLessThanWellFounded DEF OpToRel
<1>2. PICK x \in T : \A y \in T : ~(<<y, x>> \in less)
  <2> HIDE DEF less
  <2> QED  BY <1>1, WFMin
<1>3. \A y \in T : ~(y < x)
  BY <1>2
<1> QED  BY <1>3

\* It is what Min says.
LEMMA IsLeast ==
    ASSUME NEW T, T \subseteq Nat, NEW x \in T, \A y \in T : x <= y
    PROVE  Min(T) = x
<1>1. Min(T) \in T /\ \A y \in T : Min(T) <= y
  BY DEF Min
<1>2. PICK m : m = Min(T)
  OBVIOUS
<1>3. m \in Nat /\ x \in Nat /\ m <= x /\ x <= m
  BY <1>1, <1>2
<1> QED  BY <1>2, <1>3

\* A greatest one is what Max says.
LEMMA IsGreatest ==
    ASSUME NEW T, T \subseteq Nat, NEW x \in T, \A y \in T : x >= y
    PROVE  Max(T) = x
<1>1. Max(T) \in T /\ \A y \in T : Max(T) >= y
  BY DEF Max
<1>2. PICK m : m = Max(T)
  OBVIOUS
<1>3. m \in Nat /\ x \in Nat /\ m <= x /\ x <= m
  BY <1>1, <1>2
<1> QED  BY <1>2, <1>3

\* A set of numbers that is not empty and has a bound has a greatest one.
LEMMA HasGreatest ==
    ASSUME NEW T, T \subseteq Nat, T # {}, NEW n \in Nat, \A x \in T : x <= n
    PROVE  \E x \in T : \A y \in T : x >= y
<1> DEFINE away == {n - x : x \in T}
<1>1. away \subseteq Nat /\ away # {}
  <2>1. PICK x : x \in T
    OBVIOUS
  <2>2. n - x \in away
    BY <2>1
  <2>3. \A y \in T : n - y \in Nat
    OBVIOUS
  <2> QED  BY <2>2, <2>3
<1>2. PICK a \in away : \A d \in away : a <= d
  <2> HIDE DEF away
  <2> QED  BY <1>1, HasLeast
<1>3. PICK x \in T : a = n - x
  OBVIOUS
<1>4. \A y \in T : n - x <= n - y
  BY <1>2, <1>3
<1> QED  BY <1>4

\* What is known of a number.
LEMMA VarintHas ==
    ASSUME NEW g \in Varint
    PROVE  /\ Len(g) \in 0..10 /\ g = [k \in 1..Len(g) |-> g[k]]
           /\ \A k \in 1..Len(g) : g[k] \in 0..127
           /\ g = <<>> <=> Len(g) = 0
           /\ g # <<>> => g[Len(g)] # 0
<1>1. g \in Seq(Group) /\ Len(g) <= 10 /\ (g # <<>> => g[Len(g)] # 0)
  BY DEF Varint
<1>2. \A k \in 1..Len(g) : g[k] \in Group
  BY <1>1
<1>3. Len(g) \in Nat /\ g \in [1..Len(g) -> Group]
  BY <1>1, LenProperties
<1>4. g = [k \in 1..Len(g) |-> g[k]]
  BY <1>3
<1>5. Len(g) \in 0..10
  <2>1. PICK n \in Nat : n = Len(g)
    BY <1>3
  <2>2. n <= 10
    BY <1>1, <2>1
  <2>3. n \in 0..10
    BY <2>2
  <2> QED  BY <2>1, <2>3
<1>6. g = <<>> <=> Len(g) = 0
  BY <1>1, EmptySeq
<1> QED  BY <1>1, <1>2, <1>4, <1>5, <1>6 DEF Group

\* Groups that do not end in zero are a number.
LEMMA IsVarint ==
    ASSUME NEW g, NEW n \in 0..10, g = [k \in 1..n |-> g[k]],
           \A k \in 1..n : g[k] \in 0..127, n # 0 => g[n] # 0
    PROVE  g \in Varint /\ Len(g) = n
<1>1. \A k \in 1..n : g[k] \in Group
  BY DEF Group
<1>2. g \in [1..n -> Group] /\ n \in Nat
  BY <1>1
<1>3. g \in Seq(Group)
  BY <1>2, SeqDef
<1>4. Len(g) = n
  <2>1. DOMAIN g = 1..n /\ DOMAIN g = 1..Len(g) /\ Len(g) \in Nat
    BY <1>2, <1>3, LenProperties
  <2> QED  BY <2>1
<1>5. g # <<>> => n # 0
  BY <1>3, <1>4, EmptySeq
<1> QED  BY <1>3, <1>4, <1>5 DEF Varint

\* Trim cuts off the zeros at the end, and nothing else.
LEMMA TrimDrops ==
    ASSUME NEW m \in Nat, NEW g \in [1..m -> Int]
    PROVE  \A n \in 0..m :
              (n = 0 \/ g[n] # 0) /\ (\A i \in (n + 1)..m : g[i] = 0)
              => Trim(g) = [k \in 1..n |-> g[k]]
<1> SUFFICES ASSUME NEW n \in 0..m, n = 0 \/ g[n] # 0, \A i \in (n + 1)..m : g[i] = 0
             PROVE  Trim(g) = [k \in 1..n |-> g[k]]
  OBVIOUS
<1> DEFINE significant == {i \in DOMAIN g : g[i] # 0}
<1>0. DOMAIN g = 1..m /\ \A i \in 1..m : i <= n \/ i \in (n + 1)..m
  OBVIOUS
<1>1. \A i \in significant : i \in 1..m /\ i <= n
  BY <1>0
<1>2. CASE n = 0
  <2>1. significant = {}
    BY <1>1, <1>2
  <2> QED  BY <1>2, <2>1 DEF Trim
<1>3. CASE n # 0
  <2>1. n \in significant
    BY <1>0, <1>3
  <2>2. Max(significant) = n
    <3>1. significant \subseteq Nat /\ \A y \in significant : n >= y
      BY <1>1
    <3> HIDE DEF significant
    <3> QED  BY <2>1, <3>1, IsGreatest
  <2>3. SubSeq(g, 1, n) = [k \in 1..n |-> g[k]]
    OBVIOUS
  <2> QED  BY <2>1, <2>2, <2>3 DEF Trim
<1> QED  BY <1>2, <1>3

\* The number of a sequence of groups without its zeros at the end.
LEMMA TrimIsVarint ==
    ASSUME NEW m \in 0..10, NEW g \in [1..m -> 0..127]
    PROVE  /\ Trim(g) \in Varint /\ Len(Trim(g)) <= m
           /\ \A i \in 1..Len(Trim(g)) : Trim(g)[i] = g[i]
           /\ \A i \in 1..m : i > Len(Trim(g)) => g[i] = 0
<1>0. g = [k \in 1..m |-> g[k]] /\ \A k \in 1..m : g[k] \in 0..127
  OBVIOUS
<1>1. PICK n \in 0..m : (n = 0 \/ g[n] # 0) /\ \A i \in (n + 1)..m : g[i] = 0
  <2> DEFINE significant == {i \in 1..m : g[i] # 0}
  <2>1. CASE significant = {}
    <3>1. \A i \in 1..m : g[i] = 0
      BY <2>1
    <3>2. \A i \in (0 + 1)..m : i \in 1..m
      OBVIOUS
    <3>3. 0 \in 0..m
      OBVIOUS
    <3> QED  BY <3>1, <3>2, <3>3
  <2>2. CASE significant # {}
    <3>1. significant \subseteq Nat /\ \A i \in significant : i <= m
      OBVIOUS
    <3>2. PICK n \in significant : \A i \in significant : n >= i
      <4>1. m \in Nat
        OBVIOUS
      <4> HIDE DEF significant
      <4> QED  BY <2>2, <3>1, <4>1, HasGreatest
    <3>3. \A i \in (n + 1)..m : i \in 1..m /\ ~(n >= i)
      OBVIOUS
    <3> QED  BY <3>2, <3>3
  <2> QED  BY <2>1, <2>2
<1>2. PICK t : t = [k \in 1..n |-> g[k]]
  OBVIOUS
<1>3. Trim(g) = t
  <2>1. m \in Nat
    OBVIOUS
  <2>2. n = 0 \/ g[n] # 0
    BY <1>1
  <2>3. \A i \in (n + 1)..m : g[i] = 0
    BY <1>1
  <2>4. g \in [1..m -> Int]
    <3>1. \A k \in 1..m : g[k] \in Int
      <4>1. \A k \in 1..m : g[k] \in 0..127
        OBVIOUS
      <4>2. \A x \in 0..127 : x \in Int
        OBVIOUS
      <4> QED  BY <4>1, <4>2
    <3>2. g = [k \in 1..m |-> g[k]]
      BY <1>0
    <3> QED  BY <3>1, <3>2
  <2>5. Trim(g) = [k \in 1..n |-> g[k]]
    BY <2>1, <2>2, <2>3, <2>4, TrimDrops
  <2> QED  BY <1>2, <2>5
<1>4. n \in 0..10 /\ (\A k \in 1..n : t[k] = g[k] /\ k \in 1..m) /\ t = [k \in 1..n |-> t[k]]
  BY <1>2
<1>5. n # 0 => t[n] # 0
  BY <1>1, <1>4
<1>6. \A k \in 1..n : t[k] \in 0..127
  BY <1>4
<1>7. t \in Varint /\ Len(t) = n
  BY <1>4, <1>5, <1>6, IsVarint
<1>8. \A i \in 1..m : i > n => i \in (n + 1)..m
  OBVIOUS
<1>9. n <= m /\ \A i \in 1..m : i > n => g[i] = 0
  BY <1>1, <1>8
<1>10. t \in Varint /\ Len(t) <= m /\ (\A i \in 1..Len(t) : t[i] = g[i])
       /\ \A i \in 1..m : i > Len(t) => g[i] = 0
  BY <1>4, <1>7, <1>9
<1> QED  BY <1>3, <1>10

\* What encodeVarint writes: sov(g) bytes, of which all but the last have the
\* bit that says that there are more.
LEMMA EncodedHas ==
    ASSUME NEW g \in Varint
    PROVE  /\ encodeVarint(g) \in Seq(Byte) /\ Len(encodeVarint(g)) = sov(g)
           /\ sov(g) \in 1..10 /\ AsRead(g) = [k \in 1..sov(g) |-> AsRead(g)[k]]
           /\ \A k \in 1..sov(g) : /\ encodeVarint(g)[k] \in 0..255
                                   /\ encodeVarint(g)[k] % 128 = AsRead(g)[k]
                                   /\ encodeVarint(g)[k] < 128 <=> k = sov(g)
<1>1. CASE g = <<>>
  <2>1. Len(g) = 0 /\ DOMAIN g = {}
    BY <1>1, EmptySeq
  <2>2. sov(g) = 1 /\ AsRead(g) = <<0>> /\ encodeVarint(g) = [k \in 1..1 |-> 0]
    BY <1>1, <2>1 DEF encodeVarint, sov, AsRead, Digit
  <2> QED  BY <2>2 DEF Byte
<1>2. CASE g # <<>>
  <2>1. /\ Len(g) \in 1..10 /\ DOMAIN g = 1..Len(g) /\ g = [k \in 1..Len(g) |-> g[k]]
        /\ \A k \in 1..Len(g) : g[k] \in 0..127
    BY <1>2, VarintHas
  <2>2. encodeVarint(g) = [k \in 1..Len(g) |-> IF k < Len(g) THEN g[k] + 128 ELSE g[k]]
    BY <1>2, <2>1 DEF encodeVarint, sov, Digit
  <2>3. \A x \in 0..127 : (x + 128) % 128 = x /\ x % 128 = x
    OBVIOUS
  <2>4. sov(g) = Len(g) /\ AsRead(g) = g
    BY <1>2 DEF sov, AsRead
  <2>5. ASSUME NEW k \in 1..Len(g)
        PROVE  /\ encodeVarint(g)[k] \in 0..255
               /\ encodeVarint(g)[k] % 128 = g[k]
               /\ encodeVarint(g)[k] < 128 <=> k = Len(g)
    <3>1. encodeVarint(g)[k] = IF k < Len(g) THEN g[k] + 128 ELSE g[k]
      BY <2>2
    <3>2. PICK x \in 0..127 : x = g[k]
      BY <2>1
    <3>3. PICK n \in 1..10 : n = Len(g)
      BY <2>1
    <3>4. k \in 1..n
      BY <3>3
    <3>5. PICK e : e = encodeVarint(g)[k] /\ e = IF k < n THEN x + 128 ELSE x
      BY <3>1, <3>2, <3>3
    <3>6. e \in 0..255 /\ e % 128 = x /\ (e < 128 <=> k = n)
      BY <3>4, <3>5
    <3> QED  BY <3>2, <3>3, <3>5, <3>6
  <2>6. encodeVarint(g) \in Seq(Byte) /\ Len(encodeVarint(g)) = Len(g)
    <3>1. PICK n \in 1..10 : n = Len(g)
      BY <2>1
    <3>2. \A k \in 1..n : encodeVarint(g)[k] \in Byte
      BY <2>5, <3>1 DEF Byte
    <3>3. encodeVarint(g) \in [1..n -> Byte] /\ n \in Nat
      BY <2>2, <3>1, <3>2
    <3>4. encodeVarint(g) \in Seq(Byte)
      BY <3>3, SeqDef
    <3>5. 1..n = 1..Len(encodeVarint(g)) /\ Len(encodeVarint(g)) \in Nat
      BY <3>3, <3>4, LenProperties
    <3> QED  BY <3>1, <3>4, <3>5
  <2>7. PICK n \in 1..10 : n = Len(g)
    BY <2>1
  <2> DEFINE e == encodeVarint(g)
  <2>8. /\ e \in Seq(Byte) /\ Len(e) = n /\ sov(g) = n /\ AsRead(g) = [k \in 1..n |-> AsRead(g)[k]]
        /\ \A k \in 1..n : e[k] \in 0..255 /\ e[k] % 128 = AsRead(g)[k] /\ (e[k] < 128 <=> k = n)
    BY <2>1, <2>4, <2>5, <2>6, <2>7
  <2> HIDE DEF e
  <2>9. /\ Len(e) = sov(g) /\ sov(g) \in 1..10
        /\ \A k \in 1..sov(g) : /\ e[k] \in 0..255 /\ e[k] % 128 = AsRead(g)[k]
                                /\ e[k] < 128 <=> k = sov(g)
    BY <2>8
  <2>10. e \in Seq(Byte) /\ AsRead(g) = [k \in 1..sov(g) |-> AsRead(g)[k]]
    BY <2>8
  <2> QED  BY <2>9, <2>10 DEF e
<1> QED  BY <1>1, <1>2

\* A number is read where it stands.
LEMMA VarintIsRead ==
    ASSUME NEW b \in Seq(Byte), NEW i \in Nat \ {0}, NEW g \in Varint,
           Stands(b, i, encodeVarint(g))
    PROVE  ReadVarint(b, i) = Got(AsRead(g), i + sov(g))
<1>1. PICK n \in 1..10 : n = sov(g)
  BY EncodedHas
<1>0. Len(b) \in Nat
  BY LenProperties
<1>2. /\ i + n <= Len(b) + 1 /\ AsRead(g) = [k \in 1..n |-> AsRead(g)[k]]
      /\ \A k \in 1..n : b[i + k - 1] % 128 = AsRead(g)[k] /\ (b[i + k - 1] < 128 <=> k = n)
  BY <1>1, EncodedHas DEF Stands
<1>3. PICK last \in Nat : last = i + n - 1
  OBVIOUS
<1>4. PICK ends : ends = {j \in i..(i + 9) : j <= Len(b) /\ b[j] < 128}
  OBVIOUS
<1>5. last \in ends
  <2>1. PICK k \in 1..n : k = n
    OBVIOUS
  <2>2. b[i + k - 1] < 128 /\ i + k - 1 = last
    BY <1>2, <1>3, <2>1
  <2>3. last \in i..(i + 9) /\ last <= Len(b)
    <3>1. PICK l \in Nat : l = Len(b)
      BY <1>0
    <3>2. i + n <= l + 1
      BY <1>2, <3>1
    <3>3. last \in i..(i + 9) /\ last <= l
      BY <1>3, <3>2
    <3> QED  BY <3>1, <3>3
  <2> QED  BY <1>4, <2>2, <2>3
<1>6. ASSUME NEW j \in ends
      PROVE  last <= j
  <2>1. j \in i..(i + 9) /\ b[j] < 128
    BY <1>4
  <2>2. SUFFICES ASSUME j < last PROVE FALSE
    BY <1>3, <2>1
  <2>3. PICK k \in 1..n : k = j - i + 1
    BY <1>3, <2>1, <2>2
  <2>4. i + k - 1 = j /\ k # n
    BY <1>3, <2>1, <2>2, <2>3
  <2> QED  BY <1>2, <2>1, <2>4
<1>7. \A j \in ends : j \in Nat
  BY <1>4
<1>8. Min(ends) = last
  BY <1>5, <1>6, <1>7, IsLeast
<1>9. [k \in 1..(last - i + 1) |-> b[i + k - 1] % 128] = AsRead(g)
  <2>1. last - i + 1 = n
    BY <1>3
  <2> QED  BY <1>2, <2>1
<1>10. last + 1 = i + sov(g)
  BY <1>1, <1>3
<1>11. ReadVarint(b, i) = IF ends = {} THEN Failure
                          ELSE Got([k \in 1..(Min(ends) - i + 1) |-> b[i + k - 1] % 128], Min(ends) + 1)
  BY <1>4 DEF ReadVarint
<1> QED  BY <1>5, <1>8, <1>9, <1>10, <1>11

\* What is read from any bytes, and where reading continues.
LEMMA VarintIsWithin ==
    ASSUME NEW b \in Seq(Byte), NEW i \in Nat \ {0}, ReadVarint(b, i).ok
    PROVE  \E n \in 1..10 : \E g :
             /\ i + n <= Len(b) + 1 /\ ReadVarint(b, i) = Got(g, i + n)
             /\ g = [k \in 1..n |-> g[k]] /\ \A k \in 1..n : g[k] \in 0..127
<1>1. PICK ends : ends = {j \in i..(i + 9) : j <= Len(b) /\ b[j] < 128}
  OBVIOUS
<1>2. ReadVarint(b, i) = IF ends = {} THEN Failure
                         ELSE Got([k \in 1..(Min(ends) - i + 1) |-> b[i + k - 1] % 128], Min(ends) + 1)
  BY <1>1 DEF ReadVarint
<1>3. ends # {}
  BY <1>2 DEF Failure
<1>4. ends \subseteq Nat
  BY <1>1
<1>5. PICK last \in ends : \A j \in ends : last <= j
  BY <1>3, <1>4, HasLeast
<1>6. Min(ends) = last
  BY <1>4, <1>5, IsLeast
<1>7. last \in i..(i + 9) /\ last <= Len(b)
  BY <1>1
<1>8. PICK n \in 1..10 : n = last - i + 1 /\ last + 1 = i + n
  BY <1>7
<1>9. PICK g : g = [k \in 1..n |-> b[i + k - 1] % 128]
  OBVIOUS
<1>10. ASSUME NEW k \in 1..n
       PROVE  g[k] \in 0..127
  <2>1. PICK j \in 1..Len(b) : j = i + k - 1
    BY <1>7, <1>8
  <2>2. PICK x \in 0..255 : x = b[j]
    BY ElementOfSeq DEF Byte
  <2>3. x % 128 \in 0..127
    OBVIOUS
  <2> QED  BY <1>9, <2>1, <2>2, <2>3
<1>11. ReadVarint(b, i) = Got(g, i + n) /\ i + n <= Len(b) + 1
  BY <1>2, <1>3, <1>6, <1>7, <1>8, <1>9
<1>12. g = [k \in 1..n |-> g[k]]
  BY <1>9
<1> QED  BY <1>10, <1>11, <1>12

\* The buffer b, read from position i on, ends within the bytes s.
Cut(b, i, s) == /\ i <= Len(b) + 1 /\ Len(b) + 1 < i + Len(s)
                /\ \A k \in 1..(Len(b) + 1 - i) : b[i + k - 1] = s[k]

\* Bytes that end within a number end before its last byte, and are refused.
LEMMA CutVarintFails ==
    ASSUME NEW b \in Seq(Byte), NEW i \in Nat \ {0}, NEW g \in Varint,
           Cut(b, i, encodeVarint(g))
    PROVE  ReadVarint(b, i) = Failure
<1>0. PICK e : e = encodeVarint(g)
  OBVIOUS
<1>1. PICK n \in 1..10 : n = sov(g)
  BY EncodedHas
<1>2. PICK l \in Nat : l = Len(b)
  BY LenProperties
<1>3. /\ i <= l + 1 /\ l + 1 < i + n /\ \A k \in 1..(l + 1 - i) : b[i + k - 1] = e[k]
      /\ \A k \in 1..n : e[k] < 128 <=> k = n
  BY <1>0, <1>1, <1>2, EncodedHas DEF Cut
<1>4. ASSUME NEW j \in i..(i + 9), j <= l, b[j] < 128
      PROVE  FALSE
  <2>1. PICK k \in 1..(l + 1 - i) : k = j - i + 1
    BY <1>4
  <2>2. j = i + k - 1 /\ k \in 1..n /\ k # n
    BY <1>3, <2>1
  <2>3. b[j] = e[k]
    BY <1>3, <2>2
  <2> QED  BY <1>3, <1>4, <2>2, <2>3
<1>5. {j \in i..(i + 9) : j <= Len(b) /\ b[j] < 128} = {}
  BY <1>2, <1>4
<1> QED  BY <1>5 DEF ReadVarint

\* The groups of 64 and of 32 bits of what was read for a number.
LEMMA DigitsRead ==
    ASSUME NEW g \in Varint
    PROVE  \A i \in 1..10 : /\ Digit(AsRead(g), i) = (IF i <= Len(g) THEN g[i] ELSE 0)
                            /\ Digit(AsRead(g), i) \in 0..127
<1>1. PICK n \in 0..10 : n = Len(g)
  BY VarintHas
<1>2. /\ g = [k \in 1..n |-> g[k]] /\ (\A k \in 1..n : g[k] \in 0..127) /\ (g = <<>> <=> n = 0)
  BY <1>1, VarintHas
<1>3. CASE n = 0
  <2>1. AsRead(g) = <<0>>
    BY <1>2, <1>3 DEF AsRead
  <2>2. \A i \in 1..10 : Digit(<<0>>, i) = 0
    BY DEF Digit
  <2> QED  BY <1>1, <1>3, <2>1, <2>2
<1>4. CASE n # 0
  <2>1. AsRead(g) = g /\ DOMAIN g = 1..n
    BY <1>2, <1>4 DEF AsRead
  <2>2. \A i \in 1..10 : i \in 1..n <=> i <= n
    OBVIOUS
  <2>3. \A i \in 1..10 : Digit(g, i) = IF i <= n THEN g[i] ELSE 0
    BY <2>1, <2>2 DEF Digit
  <2>4. \A i \in 1..10 : Digit(g, i) \in 0..127
    <3> TAKE i \in 1..10
    <3>1. CASE i \in 1..n
      <4>1. Digit(g, i) = g[i]
        BY <2>2, <2>3, <3>1
      <4>2. g[i] \in 0..127
        BY <1>2, <3>1
      <4> QED  BY <4>1, <4>2
    <3>2. CASE i \notin 1..n
      BY <2>2, <2>3, <3>2
    <3> QED  BY <3>1, <3>2
  <2> QED  BY <1>1, <2>1, <2>3, <2>4
<1> QED  BY <1>3, <1>4

\* A number that fits its field comes out of the field as it went in, an int32
\* that is negative, of which all ten groups are on the wire, included.
LEMMA NarrowKeeps ==
    ASSUME NEW width, NEW g, Fits(width, g)
    PROVE  Narrow(width, AsRead(g)) = g
<1>0. g \in Varint
  BY DEF Fits
<1>1. PICK r : r = AsRead(g)
  OBVIOUS
<1>9. PICK n \in 0..10 : n = Len(g)
  BY <1>0, VarintHas
<1>2. /\ g = [k \in 1..n |-> g[k]] /\ (\A k \in 1..n : g[k] \in 0..127) /\ (g = <<>> <=> n = 0)
      /\ n # 0 => g[n] # 0
      /\ \A i \in 1..10 : Digit(r, i) = IF i <= n THEN g[i] ELSE 0
  BY <1>0, <1>1, <1>9, VarintHas, DigitsRead
<1>3. ASSUME n = 10 => g[10] = 1
      PROVE  Trim(Low64(r)) = g
  <2>1. PICK d : d = Low64(r)
    OBVIOUS
  <2>2. d = [k \in 1..10 |-> d[k]] /\ \A k \in 1..10 : d[k] = IF k <= n THEN g[k] ELSE 0
    BY <1>2, <1>3, <2>1 DEF Low64
  <2>3. /\ (n = 0 \/ d[n] # 0) /\ (\A i \in (n + 1)..10 : d[i] = 0)
        /\ n \in 0..10 /\ \A k \in 1..n : d[k] = g[k]
    <3>2. \A k \in 1..n : k \in 1..10 /\ k <= n
      OBVIOUS
    <3>3. \A k \in (n + 1)..10 : k \in 1..10 /\ ~(k <= n)
      OBVIOUS
    <3>4. n # 0 => n \in 1..n
      OBVIOUS
    <3> QED  BY <1>2, <2>2, <3>2, <3>3, <3>4
  <2>5. \A k \in 1..10 : d[k] \in Int
    <3> TAKE k \in 1..10
    <3>1. k <= n => k \in 1..n
      OBVIOUS
    <3>2. k <= n => g[k] \in Int
      <4>1. \A x \in 0..127 : x \in Int
        OBVIOUS
      <4> QED  BY <1>2, <3>1, <4>1
    <3> QED  BY <2>2, <3>2
  <2>4. Trim(d) = [k \in 1..n |-> d[k]]
    <3>1. PICK m \in Nat : m = 10
      OBVIOUS
    <3>2. d \in [1..m -> Int]
      BY <2>2, <2>5, <3>1
    <3>3. \A i \in (n + 1)..m : d[i] = 0
      BY <2>3, <3>1
    <3>4. n \in 0..m /\ (n = 0 \/ d[n] # 0)
      BY <2>3, <3>1
    <3> QED  BY <3>2, <3>3, <3>4, TrimDrops
  <2> QED  BY <1>2, <2>1, <2>3, <2>4
<1>4. ASSUME n <= 5, n = 5 => g[5] < 16
      PROVE  Trim(Low32(r)) = g
  <2>1. PICK d : d = Low32(r)
    OBVIOUS
  <2>2. d = [k \in 1..5 |-> d[k]] /\ \A k \in 1..5 : d[k] = IF k <= n THEN g[k] ELSE 0
    <3>1. d[5] = IF n = 5 THEN g[5] ELSE 0
      <4>1. d[5] = Digit(r, 5) % 16
        BY <2>1 DEF Low32
      <4>2. Digit(r, 5) = IF n = 5 THEN g[5] ELSE 0
        BY <1>2, <1>4
      <4>3. n = 5 => g[5] \in 0..15
        <5>1. n = 5 => 5 \in 1..n
          OBVIOUS
        <5>2. n = 5 => g[5] \in 0..127
          BY <1>2, <5>1
        <5> QED  BY <1>4, <5>2
      <4> QED  BY <4>1, <4>2, <4>3
    <3>2. \A k \in 1..4 : d[k] = IF k <= n THEN g[k] ELSE 0
      <4>1. \A k \in 1..4 : d[k] = Digit(r, k)
        BY <2>1 DEF Low32
      <4> QED  BY <1>2, <4>1
    <3>3. d = [k \in 1..5 |-> d[k]]
      BY <2>1 DEF Low32
    <3>4. \A k \in 1..5 : k \in 1..4 \/ k = 5
      OBVIOUS
    <3>5. 5 <= n <=> n = 5
      BY <1>4
    <3> QED  BY <3>1, <3>2, <3>3, <3>4, <3>5
  <2>3. /\ (n = 0 \/ d[n] # 0) /\ (\A i \in (n + 1)..5 : d[i] = 0)
        /\ n \in 0..5 /\ \A k \in 1..n : d[k] = g[k]
    <3>1. n \in 0..5
      BY <1>4
    <3>2. \A k \in 1..n : k \in 1..5 /\ k <= n
      BY <3>1
    <3>3. \A k \in (n + 1)..5 : k \in 1..5 /\ ~(k <= n)
      BY <3>1
    <3>4. n # 0 => n \in 1..n
      BY <3>1
    <3> QED  BY <1>2, <2>2, <3>1, <3>2, <3>3, <3>4
  <2>5. \A k \in 1..5 : d[k] \in Int
    <3> TAKE k \in 1..5
    <3>1. k <= n => k \in 1..n
      OBVIOUS
    <3>2. k <= n => g[k] \in Int
      <4>1. \A x \in 0..127 : x \in Int
        OBVIOUS
      <4> QED  BY <1>2, <3>1, <4>1
    <3> QED  BY <2>2, <3>2
  <2>4. Trim(d) = [k \in 1..n |-> d[k]]
    <3>1. PICK m \in Nat : m = 5
      OBVIOUS
    <3>2. d \in [1..m -> Int]
      BY <2>2, <2>5, <3>1
    <3>3. \A i \in (n + 1)..m : d[i] = 0
      BY <2>3, <3>1
    <3>4. n \in 0..m /\ (n = 0 \/ d[n] # 0)
      BY <2>3, <3>1
    <3> QED  BY <3>2, <3>3, <3>4, TrimDrops
  <2> QED  BY <1>2, <2>1, <2>3, <2>4
<1>5. CASE width = "bool"
  <2>1. g = <<>> \/ g = <<1>>
    BY <1>5 DEF Fits
  <2>2. n # 10
    BY <1>9, <2>1
  <2>3. Trim(Low64(r)) = g
    BY <1>3, <2>2
  <2> QED  BY <1>1, <1>5, <2>1, <2>3 DEF Narrow
<1>6. CASE width = "uint32"
  BY <1>1, <1>4, <1>6, <1>9 DEF Fits, Narrow
<1>7. CASE width = "int32"
  <2>1. Narrow(width, r) = IF Low32(r)[5] < 8 THEN Trim(Low32(r))
                           ELSE SubSeq(Low32(r), 1, 4) \o <<Low32(r)[5] + 112, 127, 127, 127, 127, 1>>
    BY <1>7 DEF Narrow
  <2>2. Low32(r)[5] = Digit(r, 5) % 16
    BY DEF Low32
  <2>3. CASE n <= 5 /\ (n = 5 => g[5] < 8)
    <3>0. n = 5 => g[5] \in 0..7
      <4>1. n = 5 => 5 \in 1..n
        OBVIOUS
      <4>2. n = 5 => g[5] \in 0..127
        BY <1>2, <4>1
      <4> QED  BY <2>3, <4>2
    <3>1. Trim(Low32(r)) = g
      BY <1>4, <2>3, <3>0
    <3>2. Digit(r, 5) % 16 < 8
      <4>1. Digit(r, 5) = IF n = 5 THEN g[5] ELSE 0
        BY <1>2, <2>3
      <4> QED  BY <3>0, <4>1
    <3> QED  BY <1>1, <2>1, <2>2, <3>1, <3>2
  <2>4. CASE n = 10 /\ g[10] = 1 /\ g[5] >= 120 /\ \A i \in 6..9 : g[i] = 127
    <3> DEFINE five == Low32(r)[5]
               h == SubSeq(Low32(r), 1, 4)
               t == <<five + 112, 127, 127, 127, 127, 1>>
    <3>1. g[5] \in 120..127 /\ Digit(r, 5) = g[5] /\ \A k \in 1..4 : Digit(r, k) = g[k]
      <4>1. \A k \in 1..5 : k \in 1..10 /\ k <= n /\ k \in 1..n
        BY <2>4
      <4>2. 5 \in 1..5 /\ \A k \in 1..4 : k \in 1..5
        OBVIOUS
      <4>3. g[5] \in 0..127
        BY <1>2, <4>1, <4>2
      <4>4. \A k \in 1..5 : Digit(r, k) = g[k]
        BY <1>2, <4>1
      <4> QED  BY <2>4, <4>2, <4>3, <4>4
    <3>2. five \in 8..15 /\ five + 112 = g[5]
      BY <2>2, <3>1
    <3>3. \A k \in 1..4 : Low32(r)[k] = g[k] /\ g[k] \in Group
      <4>1. \A k \in 1..4 : k \in 1..n
        BY <2>4
      <4>2. \A k \in 1..4 : Low32(r)[k] = Digit(r, k)
        BY DEF Low32
      <4> QED  BY <1>2, <3>1, <4>1, <4>2 DEF Group
    <3>4. h \in Seq(Group) /\ Len(h) = 4 /\ \A k \in 1..4 : h[k] = g[k]
      <4>1. PICK one \in Int, four \in Int : one = 1 /\ four = 4
        OBVIOUS
      <4>2. \A k \in one..four : Low32(r)[k] \in Group
        BY <3>3, <4>1
      <4>3. /\ SubSeq(Low32(r), one, four) \in Seq(Group)
            /\ Len(SubSeq(Low32(r), one, four)) = IF one <= four THEN four - one + 1 ELSE 0
            /\ \A i \in 1..(four - one + 1) : SubSeq(Low32(r), one, four)[i] = Low32(r)[one + i - 1]
        BY <4>2, SubSeqProperties
      <4> QED  BY <3>3, <4>1, <4>3
    <3>5. t \in Seq(Group) /\ Len(t) = 6 /\ \A k \in 1..6 : t[k] = g[4 + k]
      <4>1. 127 \in Group /\ 1 \in Group /\ five + 112 \in Group
        BY <3>1, <3>2 DEF Group
      <4>2. g[4 + 1] = five + 112 /\ g[4 + 2] = 127 /\ g[4 + 3] = 127 /\ g[4 + 4] = 127
            /\ g[4 + 5] = 127 /\ g[4 + 6] = 1
        BY <2>4, <3>2
      <4> HIDE DEF five
      <4> QED  BY <4>1, <4>2
    <3>6. h \o t = g
      <4> HIDE DEF h, t
      <4>1. /\ h \o t \in Seq(Group) /\ Len(h \o t) = 10
            /\ \A i \in 1..10 : (h \o t)[i] = IF i <= 4 THEN h[i] ELSE t[i - 4]
        <5>1. /\ h \o t \in Seq(Group) /\ Len(h \o t) = Len(h) + Len(t)
              /\ \A i \in 1..(Len(h) + Len(t)) : (h \o t)[i] = IF i <= Len(h) THEN h[i] ELSE t[i - Len(h)]
          BY <3>4, <3>5, ConcatProperties
        <5>2. Len(h) + Len(t) = 10 /\ Len(h) = 4
          BY <3>4, <3>5
        <5> QED  BY <5>1, <5>2
      <4>2. \A i \in 1..10 : (h \o t)[i] = g[i]
        <5> TAKE i \in 1..10
        <5>1. CASE i \in 1..4
          <6>1. i <= 4
            BY <5>1
          <6>2. (h \o t)[i] = h[i]
            BY <4>1, <6>1
          <6>3. h[i] = g[i]
            BY <3>4, <5>1
          <6> QED  BY <6>2, <6>3
        <5>2. CASE i \notin 1..4
          <6>1. i - 4 \in 1..6 /\ 4 + (i - 4) = i /\ ~(i <= 4)
            BY <5>2
          <6> QED  BY <3>5, <4>1, <6>1
        <5> QED  BY <5>1, <5>2
      <4>3. h \o t = [i \in 1..10 |-> (h \o t)[i]]
        BY <4>1, LenProperties
      <4>4. g = [i \in 1..10 |-> g[i]]
        BY <1>2, <2>4
      <4> QED  BY <4>2, <4>3, <4>4
    <3>7. ~(five < 8)
      BY <3>2
    <3> QED  BY <1>1, <2>1, <3>6, <3>7
  <2> QED  BY <1>1, <1>7, <1>9, <2>3, <2>4 DEF Fits
<1>8. CASE width \notin {"bool", "uint32", "int32"}
  BY <1>1, <1>3, <1>8, <1>9 DEF Fits, Narrow
<1> QED  BY <1>5, <1>6, <1>7, <1>8

\* A length has four groups, and is what they say.
LEMMA FourDigits ==
    ASSUME NEW n \in Nat, n < 268435456
    PROVE  /\ n \div 1 = n
           /\ n % 128 \in 0..127 /\ (n \div 128) % 128 \in 0..127
           /\ (n \div 16384) % 128 \in 0..127 /\ (n \div 2097152) % 128 \in 0..127
           /\ n = (n % 128) * 1 + ((n \div 128) % 128) * 128
                  + ((n \div 16384) % 128) * 16384 + ((n \div 2097152) % 128) * 2097152
<1>1. /\ n \div 1 = n /\ n % 128 \in 0..127 /\ (n \div 128) % 128 \in 0..127
      /\ (n \div 16384) % 128 \in 0..127 /\ (n \div 2097152) % 128 \in 0..127
  BY SMT
<1>2. n \div 16384 = (n \div 128) \div 128 /\ n \div 2097152 = (n \div 16384) \div 128
  BY SMT
<1>3. (n \div 2097152) % 128 = n \div 2097152
  BY SMT
<1>4. /\ n = (n \div 128) * 128 + (n % 128)
      /\ n \div 128 = (n \div 16384) * 128 + ((n \div 128) % 128)
      /\ n \div 16384 = (n \div 2097152) * 128 + ((n \div 16384) % 128)
  <2>1. PICK p \in Nat, q \in Nat, r \in Nat :
           p = n \div 128 /\ q = n \div 16384 /\ r = n \div 2097152
    BY SMT
  <2>2. q = p \div 128 /\ r = q \div 128
    BY <1>2, <2>1, SMT
  <2>3. n = p * 128 + (n % 128) /\ p = q * 128 + (p % 128) /\ q = r * 128 + (q % 128)
    <3>1. n = p * 128 + (n % 128)
      BY <2>1, SMT
    <3>2. p = q * 128 + (p % 128)
      BY <2>2, SMT
    <3>3. q = r * 128 + (q % 128)
      BY <2>2, SMT
    <3> QED  BY <3>1, <3>2, <3>3, SMT
  <2> QED  BY <2>1, <2>3, SMT
<1> QED  BY <1>1, <1>3, <1>4, SMT

\* A length or a tag is read as what was written.
LEMMA NumberKeeps ==
    ASSUME NEW n \in Nat, n < TooBig
    PROVE  Groups(n) \in Varint /\ Number(AsRead(Groups(n))) = n
<1> DEFINE d == [i \in 1..4 |-> (n \div Weight[i]) % 128]
<1>1. /\ d[1] = (n \div 1) % 128 /\ d[2] = (n \div 128) % 128
      /\ d[3] = (n \div 16384) % 128 /\ d[4] = (n \div 2097152) % 128
  BY SMT DEF Weight
<1>2. /\ d[1] \in 0..127 /\ d[2] \in 0..127 /\ d[3] \in 0..127 /\ d[4] \in 0..127
      /\ n = d[1] * 1 + d[2] * 128 + d[3] * 16384 + d[4] * 2097152
  <2> HIDE DEF d
  <2> QED  BY <1>1, FourDigits, SMT DEF TooBig
<1>3. PICK four \in 0..10 : four = 4
  OBVIOUS
<1>4. \A i \in 1..four : d[i] \in 0..127
  <2>1. \A i \in 1..4 : i = 1 \/ i = 2 \/ i = 3 \/ i = 4
    BY SMT
  <2> HIDE DEF d
  <2>2. d[1] \in 0..127 /\ d[2] \in 0..127 /\ d[3] \in 0..127 /\ d[4] \in 0..127
    BY <1>2
  <2> QED  BY <1>3, <2>1, <2>2, SMT
<1>5. d = [i \in 1..four |-> d[i]]
  BY <1>3
<1> HIDE DEF d
<1>6. PICK g : g = Trim(d)
  OBVIOUS
<1>7. /\ g \in Varint /\ Len(g) <= 4 /\ \A i \in 1..Len(g) : g[i] = d[i]
      /\ \A i \in 1..4 : i > Len(g) => d[i] = 0
  <2>1. /\ g \in Varint /\ Len(g) <= four /\ \A i \in 1..Len(g) : g[i] = d[i]
        /\ \A i \in 1..four : i > Len(g) => d[i] = 0
    <3>1. /\ Trim(d) \in Varint /\ Len(Trim(d)) <= four
          /\ \A i \in 1..Len(Trim(d)) : Trim(d)[i] = d[i]
          /\ \A i \in 1..four : i > Len(Trim(d)) => d[i] = 0
      <4>1. d \in [1..four -> 0..127]
        BY <1>4, <1>5
      <4> QED  BY <4>1, TrimIsVarint
    <3> QED  BY <1>6, <3>1
  <2> QED  BY <1>3, <2>1
<1>8. Groups(n) = g
  BY <1>6 DEF Groups, d
<1>9. PICK l \in 0..4 : l = Len(g)
  <2>1. PICK l \in 0..10 : l = Len(g)
    BY <1>7, VarintHas
  <2> QED  BY <1>7, <2>1
<1>10. \A i \in 1..10 : Digit(AsRead(g), i) = IF i <= l THEN g[i] ELSE 0
  BY <1>7, <1>9, DigitsRead
<1>11. PICK w : w = Low64(AsRead(g))
  OBVIOUS
<1>12. \A i \in 1..4 : w[i] = d[i]
  <2> TAKE i \in 1..4
  <2>1. w[i] = IF i <= l THEN g[i] ELSE 0
    BY <1>10, <1>11 DEF Low64
  <2>2. i <= l => i \in 1..l
    OBVIOUS
  <2> QED  BY <1>7, <1>9, <2>1, <2>2
<1>13. \A i \in 5..10 : w[i] = 0
  <2> TAKE i \in 5..10
  <2>1. Digit(AsRead(g), i) = 0
    BY <1>9, <1>10
  <2>2. 0 % 2 = 0 /\ i \in 1..10
    OBVIOUS
  <2>3. w[i] = IF i = 10 THEN Digit(AsRead(g), 10) % 2 ELSE Digit(AsRead(g), i)
    BY <1>11, <2>2 DEF Low64
  <2> QED  BY <2>1, <2>2, <2>3
<1>14. Number(AsRead(g)) = d[1] * 1 + d[2] * 128 + d[3] * 16384 + d[4] * 2097152
  <2>1. Number(AsRead(g)) =
           IF \E i \in 5..10 : w[i] # 0 THEN TooBig
           ELSE w[1] * Weight[1] + w[2] * Weight[2] + w[3] * Weight[3] + w[4] * Weight[4]
    BY <1>11 DEF Number
  <2>2. w[1] = d[1] /\ w[2] = d[2] /\ w[3] = d[3] /\ w[4] = d[4]
    BY <1>12
  <2> QED  BY <1>13, <2>1, <2>2, SMT DEF Weight
<1> QED  BY <1>2, <1>7, <1>8, <1>14, SMT

\* Bytes one after the other.
LEMMA StandsInTurn ==
    ASSUME NEW b \in Seq(Byte), NEW i \in Nat \ {0}, NEW s \in Seq(Byte), NEW t \in Seq(Byte),
           Stands(b, i, s \o t)
    PROVE  Stands(b, i, s) /\ Stands(b, i + Len(s), t)
<1>1. PICK m \in Nat : m = Len(s)
  BY LenProperties
<1>2. PICK n \in Nat : n = Len(t)
  BY LenProperties
<1>3. PICK l \in Nat : l = Len(b)
  BY LenProperties
<1>4. PICK u : u = s \o t
  OBVIOUS
<1>5. Len(u) = m + n /\ \A k \in 1..(m + n) : u[k] = IF k <= m THEN s[k] ELSE t[k - m]
  BY <1>1, <1>2, <1>4, ConcatProperties
<1>6. i + (m + n) <= l + 1 /\ \A k \in 1..(m + n) : b[i + k - 1] = u[k]
  BY <1>3, <1>4, <1>5 DEF Stands
<1>7. i + m <= l + 1 /\ \A k \in 1..m : b[i + k - 1] = s[k]
  <2>1. \A k \in 1..m : k \in 1..(m + n) /\ k <= m
    OBVIOUS
  <2> QED  BY <1>5, <1>6, <2>1
<1>8. (i + m) + n <= l + 1 /\ \A k \in 1..n : b[(i + m) + k - 1] = t[k]
  <2>1. ASSUME NEW k \in 1..n
        PROVE  b[(i + m) + k - 1] = t[k]
    <3>1. PICK j \in 1..(m + n) : j = m + k
      OBVIOUS
    <3>2. ~(j <= m) /\ j - m = k /\ i + j - 1 = (i + m) + k - 1
      BY <3>1
    <3> QED  BY <1>5, <1>6, <3>2
  <2> QED  BY <1>6, <2>1
<1> QED  BY <1>1, <1>2, <1>3, <1>7, <1>8 DEF Stands

\* A buffer that ends within s and t ends within s, or holds s and ends within t.
LEMMA CutInTurn ==
    ASSUME NEW b \in Seq(Byte), NEW i \in Nat \ {0}, NEW s \in Seq(Byte), NEW t \in Seq(Byte),
           Cut(b, i, s \o t)
    PROVE  Cut(b, i, s) \/ (Stands(b, i, s) /\ Cut(b, i + Len(s), t))
<1>1. PICK m \in Nat : m = Len(s)
  BY LenProperties
<1>2. PICK n \in Nat : n = Len(t)
  BY LenProperties
<1>3. PICK l \in Nat : l = Len(b)
  BY LenProperties
<1>4. PICK u : u = s \o t
  OBVIOUS
<1>5. Len(u) = m + n /\ \A k \in 1..(m + n) : u[k] = IF k <= m THEN s[k] ELSE t[k - m]
  BY <1>1, <1>2, <1>4, ConcatProperties
<1>6. i <= l + 1 /\ l + 1 < i + (m + n) /\ \A k \in 1..(l + 1 - i) : b[i + k - 1] = u[k]
  BY <1>3, <1>4, <1>5 DEF Cut
<1>7. CASE l + 1 < i + m
  <2>1. \A k \in 1..(l + 1 - i) : k \in 1..(m + n) /\ k <= m
    BY <1>7
  <2>2. \A k \in 1..(l + 1 - i) : b[i + k - 1] = s[k]
    BY <1>5, <1>6, <2>1
  <2> QED  BY <1>1, <1>3, <1>6, <1>7, <2>2 DEF Cut
<1>8. CASE ~(l + 1 < i + m)
  <2>1. i + m <= l + 1 /\ l + 1 < (i + m) + n
    BY <1>6, <1>8
  <2>2. \A k \in 1..m : k \in 1..(l + 1 - i) /\ k \in 1..(m + n) /\ k <= m
    BY <2>1
  <2>3. \A k \in 1..m : b[i + k - 1] = s[k]
    BY <1>5, <1>6, <2>2
  <2>4. ASSUME NEW k \in 1..(l + 1 - (i + m))
        PROVE  b[(i + m) + k - 1] = t[k]
    <3>1. PICK j \in 1..(l + 1 - i) : j = m + k
      BY <2>1
    <3>2. ~(j <= m) /\ j - m = k /\ i + j - 1 = (i + m) + k - 1 /\ j \in 1..(m + n)
      BY <2>1, <3>1
    <3> QED  BY <1>5, <1>6, <3>2
  <2>5. Stands(b, i, s)
    BY <1>1, <1>3, <2>1, <2>3 DEF Stands
  <2>6. Cut(b, i + m, t)
    BY <1>2, <1>3, <2>1, <2>4 DEF Cut
  <2> QED  BY <1>1, <2>5, <2>6
<1> QED  BY <1>7, <1>8

\* Bytes that stand in a buffer are a slice of it.
LEMMA StandingIsSubSeq ==
    ASSUME NEW b \in Seq(Byte), NEW i \in Nat \ {0}, NEW s \in Seq(Byte), Stands(b, i, s)
    PROVE  SubSeq(b, i, i + Len(s) - 1) = s
<1>1. PICK m \in Nat : m = Len(s)
  BY LenProperties
<1>2. PICK l \in Nat : l = Len(b)
  BY LenProperties
<1>3. PICK last \in Int : last = i + m - 1
  OBVIOUS
<1>4. i + m <= l + 1 /\ \A k \in 1..m : b[i + k - 1] = s[k]
  BY <1>1, <1>2 DEF Stands
<1>5. \A k \in i..last : b[k] \in Byte
  <2>1. \A k \in i..last : k \in 1..l
    BY <1>3, <1>4
  <2> QED  BY <1>2, <2>1, ElementOfSeq
<1>6. PICK u : u = SubSeq(b, i, last)
  OBVIOUS
<1>7. /\ u \in Seq(Byte) /\ Len(u) = IF i <= last THEN last - i + 1 ELSE 0
      /\ \A k \in 1..(last - i + 1) : u[k] = b[i + k - 1]
  BY <1>5, <1>6, SubSeqProperties
<1>8. Len(u) = m /\ \A k \in 1..m : u[k] = s[k]
  BY <1>3, <1>4, <1>7
<1>9. u = s
  BY <1>1, <1>7, <1>8, SeqEqual
<1> QED  BY <1>1, <1>3, <1>6, <1>9

\* A string and the number of its bytes before it.
LEMMA DelimitedHas ==
    ASSUME NEW s \in Seq(Byte), Len(s) < TooBig
    PROVE  \E g \in Varint : /\ Delimited(s) = encodeVarint(g) \o s /\ Number(AsRead(g)) = Len(s)
                             /\ encodeVarint(g) \in Seq(Byte) /\ Len(encodeVarint(g)) = sov(g)
                             /\ Len(Delimited(s)) = sov(g) + Len(s) /\ sov(g) \in 1..10
                             /\ Delimited(s) \in Seq(Byte)
<1>1. PICK n \in Nat : n = Len(s)
  BY LenProperties
<1>2. PICK g \in Varint : g = Groups(n) /\ Number(AsRead(g)) = n
  BY <1>1, NumberKeeps
<1>3. encodeVarint(g) \in Seq(Byte) /\ Len(encodeVarint(g)) = sov(g) /\ sov(g) \in 1..10
  BY EncodedHas
<1>4. Delimited(s) = encodeVarint(g) \o s
  BY <1>1, <1>2 DEF Delimited
<1>5. Delimited(s) \in Seq(Byte) /\ Len(Delimited(s)) = sov(g) + Len(s)
  BY <1>3, <1>4, ConcatProperties
<1> QED  BY <1>1, <1>2, <1>3, <1>4, <1>5

\* ReadBytes, of a length that is known.
LEMMA BytesAfterLength ==
    ASSUME NEW b, NEW i, NEW v, NEW j, ReadVarint(b, i) = Got(v, j), NEW end, end = j + Number(v)
    PROVE  ReadBytes(b, i) = IF end > Len(b) + 1 THEN Failure ELSE Got(SubSeq(b, j, end - 1), end)
<1>1. PICK length : length = ReadVarint(b, i)
  OBVIOUS
<1>2. length.ok /\ length.value = v /\ length.next = j
  BY <1>1 DEF Got
<1>3. ReadBytes(b, i) =
         IF length.ok
         THEN IF length.next + Number(length.value) > Len(b) + 1 THEN Failure
              ELSE Got(SubSeq(b, length.next, (length.next + Number(length.value)) - 1),
                       length.next + Number(length.value))
         ELSE Failure
  BY <1>1 DEF ReadBytes, Then
<1> QED  BY <1>2, <1>3

\* A string is read where it stands.
LEMMA BytesAreRead ==
    ASSUME NEW b \in Seq(Byte), NEW i \in Nat \ {0}, NEW s \in Seq(Byte), Len(s) < TooBig,
           Stands(b, i, Delimited(s))
    PROVE  ReadBytes(b, i) = Got(s, i + Len(Delimited(s)))
<1>1. PICK g \in Varint : /\ Delimited(s) = encodeVarint(g) \o s /\ Number(AsRead(g)) = Len(s)
                          /\ encodeVarint(g) \in Seq(Byte) /\ Len(encodeVarint(g)) = sov(g)
                          /\ Len(Delimited(s)) = sov(g) + Len(s) /\ sov(g) \in 1..10
  BY DelimitedHas
<1>2. PICK n \in 1..10 : n = sov(g)
  BY <1>1
<1>3. PICK m \in Nat : m = Len(s)
  BY LenProperties
<1>4. PICK l \in Nat : l = Len(b)
  BY LenProperties
<1>5. Stands(b, i, encodeVarint(g)) /\ Stands(b, i + n, s)
  <2>1. PICK e \in Seq(Byte) : e = encodeVarint(g) /\ Len(e) = n
    BY <1>1, <1>2
  <2>2. Stands(b, i, e \o s)
    BY <1>1, <2>1
  <2>3. Stands(b, i, e) /\ Stands(b, i + Len(e), s)
    BY <2>2, StandsInTurn
  <2> QED  BY <2>1, <2>3
<1>6. ReadVarint(b, i) = Got(AsRead(g), i + n)
  BY <1>2, <1>5, VarintIsRead
<1>7. SubSeq(b, i + n, (i + n) + m - 1) = s /\ (i + n) + m <= l + 1
  <2>1. PICK j \in Nat \ {0} : j = i + n
    OBVIOUS
  <2>2. SubSeq(b, j, j + Len(s) - 1) = s
    BY <1>5, <2>1, StandingIsSubSeq
  <2> QED  BY <1>3, <1>4, <1>5, <2>1, <2>2 DEF Stands
<1>8. PICK end : end = (i + n) + m
  OBVIOUS
<1>9. ~(end > l + 1) /\ end - 1 = (i + n) + m - 1 /\ end = i + Len(Delimited(s))
  <2>1. PICK w \in Nat : w = Len(Delimited(s)) /\ w = n + m
    BY <1>1, <1>2, <1>3
  <2>2. ~(end > l + 1) /\ end - 1 = (i + n) + m - 1 /\ end = i + w
    BY <1>7, <1>8, <2>1
  <2> QED  BY <2>1, <2>2
<1>10. ReadBytes(b, i) = IF end > Len(b) + 1 THEN Failure ELSE Got(SubSeq(b, i + n, end - 1), end)
  <2>1. end = (i + n) + Number(AsRead(g))
    BY <1>1, <1>3, <1>8
  <2> QED  BY <1>6, <2>1, BytesAfterLength
<1> QED  BY <1>4, <1>7, <1>9, <1>10

\* A string of which a part is missing is refused.
LEMMA CutBytesFail ==
    ASSUME NEW b \in Seq(Byte), NEW i \in Nat \ {0}, NEW s \in Seq(Byte), Len(s) < TooBig,
           Cut(b, i, Delimited(s))
    PROVE  ReadBytes(b, i) = Failure
<1>1. PICK g \in Varint : /\ Delimited(s) = encodeVarint(g) \o s /\ Number(AsRead(g)) = Len(s)
                          /\ encodeVarint(g) \in Seq(Byte) /\ Len(encodeVarint(g)) = sov(g)
                          /\ Len(Delimited(s)) = sov(g) + Len(s) /\ sov(g) \in 1..10
  BY DelimitedHas
<1>2. PICK n \in 1..10 : n = sov(g)
  BY <1>1
<1>3. PICK m \in Nat : m = Len(s)
  BY LenProperties
<1>4. PICK l \in Nat : l = Len(b)
  BY LenProperties
<1>5. Cut(b, i, encodeVarint(g)) \/ (Stands(b, i, encodeVarint(g)) /\ Cut(b, i + n, s))
  BY <1>1, <1>2, CutInTurn
<1>6. CASE Cut(b, i, encodeVarint(g))
  <2>1. ReadVarint(b, i) = Failure
    BY <1>6, CutVarintFails
  <2> QED  BY <2>1 DEF ReadBytes, Then, Failure
<1>7. CASE Stands(b, i, encodeVarint(g)) /\ Cut(b, i + n, s)
  <2>1. ReadVarint(b, i) = Got(AsRead(g), i + n)
    BY <1>2, <1>7, VarintIsRead
  <2>2. (i + n) + m > l + 1
    BY <1>3, <1>4, <1>7 DEF Cut
  <2>3. PICK end : end = (i + n) + m
    OBVIOUS
  <2>4. ReadBytes(b, i) = IF end > Len(b) + 1 THEN Failure ELSE Got(SubSeq(b, i + n, end - 1), end)
    <3>1. end = (i + n) + Number(AsRead(g))
      BY <1>1, <1>3, <2>3
    <3> QED  BY <2>1, <3>1, BytesAfterLength
  <2> QED  BY <1>4, <2>2, <2>3, <2>4
<1> QED  BY <1>5, <1>6, <1>7

\* A number that fits its field is read from the bytes that encode it, whatever
\* stands before and after them, as the number it is, and reading goes on right
\* behind it; bytes that end within it are refused (encodeVarint and sov against
\* the loops of UnmarshalVT).
THEOREM NumbersRoundTrip ==
    ASSUME NEW b \in Seq(Byte), NEW i \in Nat \ {0}, NEW width, NEW g, Fits(width, g)
    PROVE  /\ Stands(b, i, encodeVarint(g)) =>
                /\ ReadVarint(b, i).ok
                /\ Narrow(width, ReadVarint(b, i).value) = g
                /\ ReadVarint(b, i).next = i + Len(encodeVarint(g))
           /\ Cut(b, i, encodeVarint(g)) => ReadVarint(b, i) = Failure
<1>1. g \in Varint
  BY DEF Fits
<1>2. ASSUME Stands(b, i, encodeVarint(g))
      PROVE  /\ ReadVarint(b, i).ok
             /\ Narrow(width, ReadVarint(b, i).value) = g
             /\ ReadVarint(b, i).next = i + Len(encodeVarint(g))
  <2>1. ReadVarint(b, i) = Got(AsRead(g), i + sov(g))
    BY <1>1, <1>2, VarintIsRead
  <2>2. Len(encodeVarint(g)) = sov(g)
    BY <1>1, EncodedHas
  <2>3. Narrow(width, AsRead(g)) = g
    BY NarrowKeeps
  <2> QED  BY <2>1, <2>2, <2>3 DEF Got
<1> QED  BY <1>1, <1>2, CutVarintFails

\* A string that fits in a buffer is read from its length and its bytes as it is,
\* and reading goes on right behind it; bytes that end within its length or within
\* it are refused (the length checks of UnmarshalVT).
THEOREM StringsRoundTrip ==
    ASSUME NEW b \in Seq(Byte), NEW i \in Nat \ {0}, NEW s \in Seq(Byte), Len(s) < TooBig
    PROVE  /\ Stands(b, i, Delimited(s)) => ReadBytes(b, i) = Got(s, i + Len(Delimited(s)))
           /\ Cut(b, i, Delimited(s)) => ReadBytes(b, i) = Failure
  BY BytesAreRead, CutBytesFail

\* A length or a tag is a number, whatever the bytes are.
LEMMA NumberIsNat ==
    ASSUME NEW n \in 1..10, NEW g, DOMAIN g = 1..n, \A k \in 1..n : g[k] \in 0..127
    PROVE  Number(g) \in Nat
<1>2. \A i \in 1..10 : Digit(g, i) \in 0..127
  BY DEF Digit
<1>3. PICK w : w = Low64(g)
  OBVIOUS
<1>4. \A i \in 1..4 : w[i] = Digit(g, i)
  BY <1>3 DEF Low64
<1>5. w[1] \in 0..127 /\ w[2] \in 0..127 /\ w[3] \in 0..127 /\ w[4] \in 0..127
  <2>1. \A i \in 1..4 : w[i] \in 0..127
    <3>1. \A i \in 1..4 : i \in 1..10
      OBVIOUS
    <3> QED  BY <1>2, <1>4, <3>1
  <2>2. 1 \in 1..4 /\ 2 \in 1..4 /\ 3 \in 1..4 /\ 4 \in 1..4
    OBVIOUS
  <2> QED  BY <2>1, <2>2
<1>6. Number(g) = IF \E i \in 5..10 : w[i] # 0 THEN TooBig
                  ELSE w[1] * Weight[1] + w[2] * Weight[2] + w[3] * Weight[3] + w[4] * Weight[4]
  BY <1>3 DEF Number
<1>7. CASE \E i \in 5..10 : w[i] # 0
  BY <1>6, <1>7, SMT DEF TooBig
<1>8. CASE ~\E i \in 5..10 : w[i] # 0
  <2>1. Number(g) = w[1] * 1 + w[2] * 128 + w[3] * 16384 + w[4] * 2097152
    BY <1>6, <1>8, SMT DEF Weight
  <2>2. PICK p \in 0..127, q \in 0..127, r \in 0..127, s \in 0..127 :
           p = w[1] /\ q = w[2] /\ r = w[3] /\ s = w[4]
    BY <1>5
  <2>3. p * 1 + q * 128 + r * 16384 + s * 2097152 \in Nat
    BY SMT
  <2> QED  BY <2>1, <2>2, <2>3, SMT
<1> QED  BY <1>7, <1>8

\* Whatever the bytes are, what is read of them is behind where reading began and
\* within the buffer, so UnmarshalVT ends and slices nothing beyond it.
THEOREM ReadingAdvances ==
    ASSUME NEW b \in Seq(Byte), NEW i \in Nat \ {0}
    PROVE  /\ ReadVarint(b, i).ok => ReadVarint(b, i).next \in (i + 1)..(Len(b) + 1)
           /\ ReadBytes(b, i).ok => ReadBytes(b, i).next \in (i + 1)..(Len(b) + 1)
           /\ Skip(b, i).ok => Skip(b, i).next \in (i + 1)..(Len(b) + 1)
<1>0. PICK l \in Nat : l = Len(b)
  BY LenProperties
<1>1. ASSUME NEW j \in Nat \ {0}, ReadVarint(b, j).ok
      PROVE  /\ ReadVarint(b, j).next \in (j + 1)..(l + 1)
             /\ Number(ReadVarint(b, j).value) \in Nat
  <2>0. PICK n \in 1..10 : \E g : /\ j + n <= Len(b) + 1 /\ ReadVarint(b, j) = Got(g, j + n)
                                   /\ g = [k \in 1..n |-> g[k]] /\ \A k \in 1..n : g[k] \in 0..127
    BY <1>1, VarintIsWithin
  <2>1. PICK g : /\ j + n <= Len(b) + 1 /\ ReadVarint(b, j) = Got(g, j + n)
                 /\ g = [k \in 1..n |-> g[k]] /\ \A k \in 1..n : g[k] \in 0..127
    BY <2>0
  <2>2. ReadVarint(b, j).next = j + n /\ ReadVarint(b, j).value = g
    BY <2>1 DEF Got
  <2>3. Number(g) \in Nat
    <3>1. DOMAIN g = 1..n
      BY <2>1
    <3> QED  BY <2>1, <3>1, NumberIsNat
  <2>4. j + n \in (j + 1)..(l + 1)
    BY <1>0, <2>1
  <2> QED  BY <2>2, <2>3, <2>4
<1>2. ASSUME NEW j \in Nat \ {0}, ReadBytes(b, j).ok
      PROVE  ReadBytes(b, j).next \in (j + 1)..(l + 1)
  <2>1. PICK r : r = ReadVarint(b, j)
    OBVIOUS
  <2>2. ReadBytes(b, j) = IF r.ok THEN IF r.next + Number(r.value) > Len(b) + 1 THEN Failure
                                       ELSE Got(SubSeq(b, r.next, (r.next + Number(r.value)) - 1),
                                                r.next + Number(r.value))
                          ELSE Failure
    BY <2>1 DEF ReadBytes, Then
  <2>3. r.ok /\ ~(r.next + Number(r.value) > Len(b) + 1)
    BY <1>2, <2>2 DEF Failure
  <2>4. ReadBytes(b, j).next = r.next + Number(r.value)
    BY <2>2, <2>3 DEF Got
  <2>5. r.next \in (j + 1)..(l + 1) /\ Number(r.value) \in Nat
    BY <1>1, <2>1, <2>3
  <2> QED  BY <1>0, <2>3, <2>4, <2>5
<1>3. ASSUME Skip(b, i).ok
      PROVE  Skip(b, i).next \in (i + 1)..(l + 1)
  <2>1. PICK tag : tag = ReadVarint(b, i)
    OBVIOUS
  <2>2. PICK wire3 : wire3 = Number(tag.value) % 8
    OBVIOUS
  <2>3. PICK body : body = CASE wire3 = 0 -> ReadVarint(b, tag.next)
                             [] wire3 = 1 -> Got(<<>>, tag.next + 8)
                             [] wire3 = 2 -> ReadBytes(b, tag.next)
                             [] wire3 = 5 -> Got(<<>>, tag.next + 4)
                             [] OTHER     -> Failure
    OBVIOUS
  <2>4. Skip(b, i) = IF tag.ok THEN IF body.ok
                                    THEN IF body.next > Len(b) + 1 THEN Failure
                                         ELSE Got(SubSeq(b, i, body.next - 1), body.next)
                                    ELSE Failure
                     ELSE Failure
    BY <2>1, <2>2, <2>3 DEF Skip, Then
  <2>5. tag.ok /\ body.ok /\ ~(body.next > Len(b) + 1)
    BY <1>3, <2>4 DEF Failure
  <2>6. Skip(b, i).next = body.next
    BY <2>4, <2>5 DEF Got
  <2>7. tag.next \in (i + 1)..(l + 1)
    BY <1>1, <2>1, <2>5
  <2>8. PICK j \in Nat \ {0} : j = tag.next
    BY <2>7
  <2>9. body.next > i /\ body.next \in Int
    <3>1. CASE wire3 = 0
      <4>1. body = ReadVarint(b, j)
        BY <2>3, <2>8, <3>1
      <4>2. body.next \in (j + 1)..(l + 1)
        BY <1>1, <2>5, <4>1
      <4> QED  BY <2>7, <2>8, <4>2
    <3>2. CASE wire3 = 1
      <4>1. body.next = j + 8
        BY <2>3, <2>8, <3>2 DEF Got
      <4> QED  BY <2>7, <2>8, <4>1
    <3>3. CASE wire3 = 2
      <4>1. body = ReadBytes(b, j)
        BY <2>3, <2>8, <3>3
      <4>2. body.next \in (j + 1)..(l + 1)
        BY <1>2, <2>5, <4>1
      <4> QED  BY <2>7, <2>8, <4>2
    <3>4. CASE wire3 = 5
      <4>1. body.next = j + 4
        BY <2>3, <2>8, <3>4 DEF Got
      <4> QED  BY <2>7, <2>8, <4>1
    <3>5. CASE wire3 \notin {0, 1, 2, 5}
      BY <2>3, <2>5, <3>5 DEF Failure
    <3> QED  BY <3>1, <3>2, <3>3, <3>4, <3>5
  <2> QED  BY <1>0, <2>5, <2>6, <2>9
<1> QED  BY <1>0, <1>1, <1>2, <1>3

\* A field of a number the receiver does not know is taken as it stands, tag and
\* all, and reading goes on right behind it (skip and unknownFields): what an older
\* peer keeps of a newer one's message.
THEOREM UnknownFieldIsKept ==
    ASSUME NEW b \in Seq(Byte), NEW i \in Nat \ {0}, NEW number \in Nat, number * 8 + 2 < TooBig,
           NEW body \in Seq(Byte), NEW wire \in {0, 2},
           wire = 0 => \E g \in Varint : body = encodeVarint(g),
           wire = 2 => \E s \in Seq(Byte) : Len(s) < TooBig /\ body = Delimited(s),
           Stands(b, i, encodeVarint(Groups(number * 8 + wire)) \o body)
    PROVE  Skip(b, i) = Got(encodeVarint(Groups(number * 8 + wire)) \o body,
                            i + Len(encodeVarint(Groups(number * 8 + wire)) \o body))
<1>1. PICK n \in Nat : n = number * 8 + wire /\ n < TooBig /\ n % 8 = wire
  <2>1. PICK m \in Nat : m = number * 8
    OBVIOUS
  <2>2. m + wire \in Nat /\ (m + wire) % 8 = wire
    BY <2>1, SMT
  <2>3. m + wire < TooBig
    BY <2>1, SMT DEF TooBig
  <2> QED  BY <2>1, <2>2, <2>3
<1>2. PICK t \in Varint : t = Groups(n) /\ Number(AsRead(t)) = n
  BY <1>1, NumberKeeps
<1>3. PICK e \in Seq(Byte) : e = encodeVarint(t) /\ Len(e) = sov(t)
  BY EncodedHas
<1>4. PICK field \in Seq(Byte) : field = e \o body
  BY ConcatProperties
<1>5. PICK l \in Nat, x \in Nat, y \in Nat : l = Len(b) /\ x = Len(e) /\ y = Len(body)
  BY LenProperties
<1>6. Stands(b, i, field)
  BY <1>1, <1>2, <1>3, <1>4
<1>7. Stands(b, i, e) /\ Stands(b, i + Len(e), body)
  BY <1>4, <1>6, StandsInTurn
<1>8. PICK j \in Nat \ {0} : j = i + x
  OBVIOUS
<1>9. Len(field) = x + y
  BY <1>4, <1>5, ConcatProperties
<1>10. PICK tag : tag = ReadVarint(b, i)
  OBVIOUS
<1>11. tag.ok /\ tag.next = j /\ Number(tag.value) % 8 = wire
  <2>1. tag = Got(AsRead(t), i + sov(t))
    BY <1>3, <1>7, <1>10, VarintIsRead
  <2> QED  BY <1>1, <1>2, <1>3, <1>5, <1>8, <2>1 DEF Got
<1>12. PICK r : r = IF wire = 0 THEN ReadVarint(b, j) ELSE ReadBytes(b, j)
  OBVIOUS
<1>13. r.ok /\ r.next = j + y
  <2>1. CASE wire = 0
    <3>1. PICK g \in Varint : body = encodeVarint(g)
      BY <2>1
    <3>2. r = Got(AsRead(g), j + sov(g))
      BY <1>5, <1>7, <1>8, <1>12, <2>1, <3>1, VarintIsRead
    <3>3. sov(g) = y
      BY <1>5, <3>1, EncodedHas
    <3> QED  BY <3>2, <3>3 DEF Got
  <2>2. CASE wire = 2
    <3>1. PICK s \in Seq(Byte) : Len(s) < TooBig /\ body = Delimited(s)
      BY <2>2
    <3>2. r = Got(s, j + Len(Delimited(s)))
      <4>1. Stands(b, j, Delimited(s))
        BY <1>5, <1>7, <1>8, <3>1
      <4>2. ReadBytes(b, j) = Got(s, j + Len(Delimited(s)))
        BY <3>1, <4>1, BytesAreRead
      <4>3. r = ReadBytes(b, j)
        BY <1>12, <2>2
      <4> QED  BY <4>2, <4>3
    <3> QED  BY <1>5, <3>1, <3>2 DEF Got
  <2> QED  BY <2>1, <2>2
<1>14. Skip(b, i) = IF r.next > Len(b) + 1 THEN Failure ELSE Got(SubSeq(b, i, r.next - 1), r.next)
  <2>1. PICK wire3 : wire3 = Number(tag.value) % 8 /\ wire3 = wire
    BY <1>11
  <2>2. PICK c : c = CASE wire3 = 0 -> ReadVarint(b, tag.next)
                       [] wire3 = 1 -> Got(<<>>, tag.next + 8)
                       [] wire3 = 2 -> ReadBytes(b, tag.next)
                       [] wire3 = 5 -> Got(<<>>, tag.next + 4)
                       [] OTHER     -> Failure
    OBVIOUS
  <2>3. Skip(b, i) = IF tag.ok THEN IF c.ok
                                    THEN IF c.next > Len(b) + 1 THEN Failure
                                         ELSE Got(SubSeq(b, i, c.next - 1), c.next)
                                    ELSE Failure
                     ELSE Failure
    BY <1>10, <2>1, <2>2 DEF Skip, Then
  <2>4. c = r
    <3>1. CASE wire = 0
      BY <1>11, <1>12, <2>1, <2>2, <3>1
    <3>2. CASE wire = 2
      BY <1>11, <1>12, <2>1, <2>2, <3>2
    <3> QED  BY <3>1, <3>2
  <2> QED  BY <1>11, <1>13, <2>3, <2>4
<1>15. j + y = i + (x + y) /\ i + (x + y) <= l + 1
  BY <1>5, <1>6, <1>8, <1>9 DEF Stands
<1>16. SubSeq(b, i, i + Len(field) - 1) = field
  BY <1>6, StandingIsSubSeq
<1>17. Skip(b, i) = Got(field, i + Len(field))
  <2>1. PICK end \in Nat : end = i + (x + y)
    OBVIOUS
  <2>2. r.next = end /\ ~(end > l + 1) /\ end = i + Len(field)
    BY <1>9, <1>13, <1>15, <2>1
  <2>3. Skip(b, i) = Got(SubSeq(b, i, r.next - 1), r.next)
    BY <1>5, <1>14, <2>2
  <2>4. SubSeq(b, i, r.next - 1) = field
    BY <1>16, <2>2
  <2> QED  BY <2>2, <2>3, <2>4
<1> QED  BY <1>1, <1>2, <1>3, <1>4, <1>17
=============================================================================
