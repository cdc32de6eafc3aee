--------------------------- MODULE DiscoveryProofs ----------------------------
(***************************************************************************)
(* Whatever the amount of output and the number of clients: no client      *)
(* misses the exit of its terminal, and none misses output in the middle   *)
(* of what it is shown.  Whatever an agent logs while it is read: it is    *)
(* told what it is at, and a load reports what it has been.  Whatever is   *)
(* connected while a load goes on: no pane is given to two sessions.       *)
(* Whatever the remotes and the processes that fetch from them: every      *)
(* remote is listed or warned about, and what runs on a remote is a whole  *)
(* binary.                                                                 *)
(***************************************************************************)
EXTENDS Discovery, SequenceTheorems, NaturalsInduction, WellFoundedInduction, TLAPS

LEMMA KeptType ==
    ASSUME NEW buf \in Seq(Item) PROVE Kept(buf) \in Seq(Item)
<1>1. CASE Len(buf) > Capacity
  <2>1. Len(buf) - Capacity + 1 \in 1..Len(buf)
    BY <1>1, TermStreamAssumption
  <2>2. \A n \in (Len(buf) - Capacity + 1)..Len(buf) : buf[n] \in Item
    BY <2>1
  <2> QED
    BY <1>1, <2>1, <2>2, SubSeqProperties DEF Kept
<1>2. CASE ~ (Len(buf) > Capacity)
  BY <1>2 DEF Kept
<1> QED
  BY <1>1, <1>2

(* What is written to a client stays written.                              *)
LEMMA AppendKeepsMarker ==
    ASSUME NEW s \in Seq(Item), NEW item \in Item
    PROVE  /\ Append(s, item) \in Seq(Item)
           /\ (\E n \in 1..Len(s) : s[n] = Marker) \/ item = Marker
              => \E n \in 1..Len(Append(s, item)) : Append(s, item)[n] = Marker
<1>1. Append(s, item) \in Seq(Item) /\ Len(Append(s, item)) = Len(s) + 1
  OBVIOUS
<1>2. \A n \in 1..Len(s) : Append(s, item)[n] = s[n]
  OBVIOUS
<1>3. Append(s, item)[Len(s) + 1] = item
  OBVIOUS
<1>4. Len(s) \in Nat
  OBVIOUS
<1> QED
  BY <1>1, <1>2, <1>3, <1>4

ClientType == [pc : {"new", "check", "marker", "add", "live", "gone"},
               got : Seq(Item), replayed : Nat]

(* What a broadcast does to the clients.                                   *)
LEMMA FanOutEffect ==
    ASSUME client \in [Client -> ClientType], subs \subseteq Client,
           NEW item \in Item, FanOut(item)
    PROVE  /\ client' \in [Client -> ClientType] /\ subs' \subseteq Client
           /\ \A c \in Client :
                 /\ client'[c].pc = client[c].pc
                 /\ Marked(c) => Marked(c)'
                 /\ c \in subs /\ client[c].pc = "live" =>
                        c \in subs' /\ (item = Marker => Marked(c)')
<1>1. \A c \in Client : client[c].got \in Seq(Item)
  BY DEF ClientType
<1>2. \A c \in Client : Append(client[c].got, item) \in Seq(Item)
  BY <1>1, AppendKeepsMarker
<1>3. client' \in [Client -> ClientType] /\ subs' \subseteq Client
  BY <1>2 DEF FanOut, ClientType
<1> SUFFICES ASSUME NEW c \in Client
             PROVE  /\ client'[c].pc = client[c].pc
                    /\ Marked(c) => Marked(c)'
                    /\ c \in subs /\ client[c].pc = "live" =>
                           c \in subs' /\ (item = Marker => Marked(c)')
  BY <1>3
<1>4. CASE c \in subs /\ client[c].pc = "live"
  <2>1. client'[c].got = Append(client[c].got, item) /\ client'[c].pc = client[c].pc
    BY <1>4 DEF FanOut, ClientType
  <2>2. c \in subs'
    BY <1>4 DEF FanOut
  <2> QED
    BY <1>1, <2>1, <2>2, AppendKeepsMarker DEF Marked
<1>5. CASE ~ (c \in subs /\ client[c].pc = "live")
  <2>1. client'[c] = client[c]
    BY <1>5 DEF FanOut
  <2> QED
    BY <1>5, <2>1 DEF Marked
<1> QED
  BY <1>4, <1>5

-----------------------------------------------------------------------------
LEMMA InitIInv == Init => IInv
<1> SUFFICES ASSUME Init PROVE IInv
  OBVIOUS
<1> USE TermStreamAssumption DEF Init
<1>1. ring \in Seq(Item) /\ subs \in SUBSET Client
  OBVIOUS
<1>6. exited \in BOOLEAN
  BY Zenon
<1>2. reader \in [chunk : 0..MaxChunk, pc : {"read", "ring", "fan"}]
      /\ waiter \in {"wait", "ring", "fan", "close", "done"}
  OBVIOUS
<1>3. <<>> \in Seq(Item)
  OBVIOUS
<1>4. client \in [Client -> ClientType]
  BY <1>3 DEF ClientType
<1>5. JoinedBeforeExit
  BY DEF JoinedBeforeExit
<1> QED
  BY <1>1, <1>6, <1>2, <1>4, <1>5 DEF IInv, TypeOK, ClientType

LEMMA NextIInv == IInv /\ [Next]_vars => IInv'
<1> SUFFICES ASSUME IInv, [Next]_vars PROVE IInv'
  OBVIOUS
<1>0. /\ client \in [Client -> ClientType] /\ subs \subseteq Client
      /\ reader.chunk \in Item /\ Marker \in Item
  BY TermStreamAssumption DEF IInv, TypeOK, ClientType, Item, Marker
<1> USE TermStreamAssumption DEF IInv, TypeOK, JoinedBeforeExit
<1>1. CASE Read
  BY <1>1 DEF Read, Marked
<1>2. CASE ReadRing
  <2>1. ring' \in Seq(Item)
    BY <1>0, <1>2, KeptType, AppendKeepsMarker DEF ReadRing
  <2> QED
    BY <1>2, <2>1 DEF ReadRing, Marked
<1>3. CASE ReadFan
  BY <1>0, <1>3, FanOutEffect DEF ReadFan, ClientType
<1>4. CASE Exit
  BY <1>4 DEF Exit, Marked
<1>5. CASE ExitRing
  <2>1. ring' \in Seq(Item)
    BY <1>0, <1>5, KeptType, AppendKeepsMarker DEF ExitRing
  <2> QED
    BY <1>5, <2>1 DEF ExitRing, Marked
<1>6. CASE ExitFan
  BY <1>0, <1>6, FanOutEffect DEF ExitFan, ClientType
<1>7. CASE ExitClose
  BY <1>7 DEF ExitClose, Marked
<1>8. ASSUME NEW c \in Client, Replay(c) PROVE IInv'
  BY <1>8 DEF Replay, Marked
<1>9. ASSUME NEW c \in Client, Join(c) PROVE IInv'
  BY <1>9 DEF Join, NeedsMarker, Marked
<1>10. ASSUME NEW c \in Client, SeeExited(c) PROVE IInv'
  BY <1>10 DEF SeeExited, NeedsMarker, Marked
<1>11. ASSUME NEW c \in Client, WriteMarker(c) PROVE IInv'
  <2>1. client[c].got \in Seq(Item)
    OBVIOUS
  <2>2. /\ client'[c].got = Append(client[c].got, Marker) /\ client'[c].pc = "add"
        /\ \A d \in Client \ {c} : client'[d] = client[d]
        /\ UNCHANGED <<ring, subs, exited, reader, waiter>>
    BY <1>11 DEF WriteMarker
  <2>3. Append(client[c].got, Marker) \in Seq(Item) /\ Marked(c)'
    BY <1>0, <2>1, <2>2, AppendKeepsMarker DEF Marked
  <2>4. client' \in [Client -> ClientType]
    BY <1>11, <2>3 DEF WriteMarker, ClientType
  <2>5. TypeOK'
    BY <2>2, <2>4 DEF ClientType
  <2>6. exited
    BY <1>11 DEF WriteMarker
  <2>7. \A d \in Client \ {c} : Marked(d)' = Marked(d)
    BY <2>2 DEF Marked
  <2>8. JoinedBeforeExit'
    BY <2>2, <2>3, <2>7
  <2> QED
    BY <2>5, <2>8
<1>12. ASSUME NEW c \in Client, JoinExited(c) PROVE IInv'
  BY <1>12 DEF JoinExited, Marked
<1>13. ASSUME NEW c \in Client, Disconnect(c) PROVE IInv'
  BY <1>13 DEF Disconnect, Marked
<1>14. ASSUME NEW c \in Client, Unsubscribe(c) PROVE IInv'
  BY <1>14 DEF Unsubscribe, Marked
<1>15. CASE UNCHANGED vars
  BY <1>15 DEF vars, Marked
<1> QED
  BY <1>1, <1>2, <1>3, <1>4, <1>5, <1>6, <1>7, <1>8, <1>9, <1>10, <1>11,
     <1>12, <1>13, <1>14, <1>15 DEF Next, Output, Waiting, Subscribe

(* Once the exit is reported, every connected client has been told.        *)
THEOREM ExitIsShown == Spec => []ExitShown
<1>1. IInv => ExitShown
  BY DEF IInv, JoinedBeforeExit, ExitShown
<1> QED
  BY <1>1, InitIInv, NextIInv, PTL DEF Spec

-----------------------------------------------------------------------------
(* What was written stays in sequence as it grows, and as the ring forgets *)
(* its beginning.                                                          *)
LEMMA AppendItem ==
    ASSUME NEW s \in Seq(Item), NEW x \in Item
    PROVE  /\ Append(s, x) \in Seq(Item) /\ Len(Append(s, x)) = Len(s) + 1 /\ Len(s) \in Nat
           /\ \A i \in 1..Len(s) : Append(s, x)[i] = s[i] /\ s[i] \in Item
           /\ Append(s, x)[Len(s) + 1] = x
  OBVIOUS

LEMMA AppendFixed ==
    ASSUME NEW s \in Seq(Item), NEW x \in Item, NEW n \in 0..Len(s), Contiguous(s, 1, n)
    PROVE  Contiguous(Append(s, x), 1, n)
<1> DEFINE t == Append(s, x)
<1>1. \A i \in 1..n : t[i] = s[i]
  BY AppendItem
<1>2. \A i, j \in 1..n : OnlyMarkers(t, i + 1, j - 1) => OnlyMarkers(s, i + 1, j - 1)
  BY <1>1 DEF OnlyMarkers
<1> HIDE DEF t
<1> SUFFICES ASSUME NEW i \in 1..n, NEW j \in 1..n, i < j, Marker \notin {t[i], t[j]},
                    OnlyMarkers(t, i + 1, j - 1)
             PROVE  t[j] = t[i] + 1
  BY DEF Contiguous, t
<1>3. OnlyMarkers(s, i + 1, j - 1) /\ t[i] = s[i] /\ t[j] = s[j]
  BY <1>1, <1>2
<1> QED
  BY <1>3 DEF Contiguous

LEMMA AppendMarker ==
    ASSUME NEW s \in Seq(Item), NEW m \in 1..Len(s) + 1, Marker \in Item
    PROVE  LET t == Append(s, Marker)
           IN  /\ Contiguous(s, m, Len(s)) => Contiguous(t, m, Len(t))
               /\ \A last : EndsWith(s, m, Len(s), last) => EndsWith(t, m, Len(t), last)
               /\ OnlyMarkers(s, m, Len(s)) => OnlyMarkers(t, m, Len(t))
<1> DEFINE t == Append(s, Marker)
           n == Len(s)
<1>1. Len(t) = n + 1 /\ n \in Nat /\ t[n + 1] = Marker /\ \A i \in 1..n : t[i] = s[i]
  BY AppendItem
<1> HIDE DEF t
<1>2. ASSUME Contiguous(s, m, n) PROVE Contiguous(t, m, Len(t))
  <2> SUFFICES ASSUME NEW i \in m..n + 1, NEW j \in m..n + 1, i < j, Marker \notin {t[i], t[j]},
                      OnlyMarkers(t, i + 1, j - 1)
               PROVE  t[j] = t[i] + 1
    BY <1>1 DEF Contiguous
  <2>1. i \in m..n /\ j \in m..n
    BY <1>1
  <2>2. t[i] = s[i] /\ t[j] = s[j]
    BY <1>1, <2>1
  <2>3. OnlyMarkers(s, i + 1, j - 1)
    BY <1>1, <2>1 DEF OnlyMarkers
  <2> QED
    BY <1>2, <2>1, <2>2, <2>3 DEF Contiguous
<1>3. ASSUME NEW last, EndsWith(s, m, n, last) PROVE EndsWith(t, m, Len(t), last)
  <2> SUFFICES ASSUME NEW i \in m..n + 1, t[i] # Marker, OnlyMarkers(t, i + 1, n + 1)
               PROVE  t[i] = last
    BY <1>1 DEF EndsWith
  <2>1. i \in m..n
    BY <1>1
  <2>2. OnlyMarkers(s, i + 1, n)
    BY <1>1, <2>1 DEF OnlyMarkers
  <2> QED
    BY <1>1, <1>3, <2>1, <2>2 DEF EndsWith
<1>4. ASSUME OnlyMarkers(s, m, n) PROVE OnlyMarkers(t, m, Len(t))
  BY <1>1, <1>4 DEF OnlyMarkers
<1> QED
  BY <1>2, <1>3, <1>4 DEF t

LEMMA AppendChunk ==
    ASSUME NEW s \in Seq(Item), NEW m \in 1..Len(s) + 1, NEW last \in Nat, last + 1 \in Item,
           Contiguous(s, m, Len(s)), EndsWith(s, m, Len(s), last)
    PROVE  LET t == Append(s, last + 1)
           IN  Contiguous(t, m, Len(t)) /\ EndsWith(t, m, Len(t), last + 1)
<1> DEFINE t == Append(s, last + 1)
           n == Len(s)
<1>1. Len(t) = n + 1 /\ n \in Nat /\ t[n + 1] = last + 1 /\ \A i \in 1..n : t[i] = s[i]
  BY AppendItem
<1> HIDE DEF t
<1>2. Contiguous(t, m, Len(t))
  <2> SUFFICES ASSUME NEW i \in m..n + 1, NEW j \in m..n + 1, i < j, Marker \notin {t[i], t[j]},
                      OnlyMarkers(t, i + 1, j - 1)
               PROVE  t[j] = t[i] + 1
    BY <1>1 DEF Contiguous
  <2>1. i \in m..n /\ t[i] = s[i]
    BY <1>1
  <2>2. CASE j \in m..n
    <3>1. OnlyMarkers(s, i + 1, j - 1) /\ t[j] = s[j]
      BY <1>1, <2>1, <2>2 DEF OnlyMarkers
    <3> QED
      BY <2>1, <2>2, <3>1 DEF Contiguous
  <2>3. CASE j = n + 1
    <3>1. OnlyMarkers(s, i + 1, n)
      BY <1>1, <2>1, <2>3 DEF OnlyMarkers
    <3>2. s[i] = last
      BY <2>1, <3>1 DEF EndsWith
    <3> QED
      BY <1>1, <2>1, <2>3, <3>2
  <2> QED
    BY <1>1, <2>2, <2>3
<1>3. EndsWith(t, m, Len(t), last + 1)
  <2> SUFFICES ASSUME NEW i \in m..n + 1, t[i] # Marker, OnlyMarkers(t, i + 1, n + 1)
               PROVE  t[i] = last + 1
    BY <1>1 DEF EndsWith
  <2>1. CASE i = n + 1
    BY <1>1, <2>1
  <2>2. CASE i \in m..n
    <3>1. t[n + 1] = Marker
      BY <1>1, <2>2 DEF OnlyMarkers
    <3>2. OnlyMarkers(s, i + 1, n) /\ t[i] = s[i]
      BY <1>1, <2>2 DEF OnlyMarkers
    <3>3. s[i] = last
      BY <2>2, <3>2 DEF EndsWith
    <3> QED
      BY <1>1, <3>1 DEF Marker
  <2> QED
    BY <1>1, <2>1, <2>2
<1> QED
  BY <1>2, <1>3 DEF t

LEMMA KeptRun ==
    ASSUME NEW s \in Seq(Item), NEW last, Contiguous(s, 1, Len(s)), EndsWith(s, 1, Len(s), last),
           NEW bound \in Int, \A i \in 1..Len(s) : s[i] <= bound
    PROVE  LET t == Kept(s)
           IN  /\ Contiguous(t, 1, Len(t)) /\ EndsWith(t, 1, Len(t), last)
               /\ \A i \in 1..Len(t) : t[i] <= bound
<1> DEFINE t == Kept(s)
           n == Len(s)
           d == n - Capacity
<1>1. CASE n <= Capacity
  <2>1. t = s
    BY <1>1, TermStreamAssumption DEF Kept
  <2> HIDE DEF t
  <2> QED
    BY <2>1 DEF t
<1>2. CASE n > Capacity
  <2>1. d \in Nat /\ n \in Nat /\ d + 1 \in 1..n + 1
    BY <1>2, TermStreamAssumption
  <2>2. t = SubSeq(s, d + 1, n)
    BY <1>2 DEF Kept
  <2>3. Len(t) = n - d /\ \A i \in 1..n - d : t[i] = s[i + d]
    BY <2>1, <2>2, SubSeqProperties
  <2> HIDE DEF t, d
  <2>4. Contiguous(t, 1, Len(t))
    <3> SUFFICES ASSUME NEW i \in 1..n - d, NEW j \in 1..n - d, i < j, Marker \notin {t[i], t[j]},
                        OnlyMarkers(t, i + 1, j - 1)
                 PROVE  t[j] = t[i] + 1
      BY <2>3 DEF Contiguous
    <3>1. i + d \in 1..n /\ j + d \in 1..n /\ i + d < j + d
      BY <2>1
    <3>2. t[i] = s[i + d] /\ t[j] = s[j + d]
      BY <2>3
    <3>3. OnlyMarkers(s, (i + d) + 1, (j + d) - 1)
      <4> SUFFICES ASSUME NEW k \in (i + d) + 1..(j + d) - 1 PROVE s[k] = Marker
        BY DEF OnlyMarkers
      <4>1. k - d \in i + 1..j - 1 /\ k - d \in 1..n - d /\ (k - d) + d = k
        BY <2>1
      <4>2. t[k - d] = Marker /\ t[k - d] = s[(k - d) + d]
        BY <2>3, <4>1 DEF OnlyMarkers
      <4> QED
        BY <4>1, <4>2
    <3> QED
      BY <3>1, <3>2, <3>3 DEF Contiguous
  <2>5. EndsWith(t, 1, Len(t), last)
    <3> SUFFICES ASSUME NEW i \in 1..n - d, t[i] # Marker, OnlyMarkers(t, i + 1, n - d)
                 PROVE  t[i] = last
      BY <2>3 DEF EndsWith
    <3>1. i + d \in 1..n /\ t[i] = s[i + d]
      BY <2>1, <2>3
    <3>2. OnlyMarkers(s, (i + d) + 1, n)
      <4> SUFFICES ASSUME NEW k \in (i + d) + 1..n PROVE s[k] = Marker
        BY DEF OnlyMarkers
      <4>1. k - d \in i + 1..n - d /\ k - d \in 1..n - d /\ (k - d) + d = k
        BY <2>1
      <4>2. t[k - d] = Marker /\ t[k - d] = s[(k - d) + d]
        BY <2>3, <4>1 DEF OnlyMarkers
      <4> QED
        BY <4>1, <4>2
    <3> QED
      BY <3>1, <3>2 DEF EndsWith
  <2>6. ASSUME NEW i \in 1..Len(t) PROVE t[i] <= bound
    <3>1. i \in 1..n - d /\ i + d \in 1..n
      BY <2>1, <2>3
    <3> QED
      BY <2>3, <3>1
  <2> QED
    BY <2>4, <2>5, <2>6 DEF t
<1> QED
  BY <1>1, <1>2, TermStreamAssumption

-----------------------------------------------------------------------------
LEMMA GotChunks ==
    ASSUME NEW x \in ClientType
    PROVE  \A i \in 1..Len(x.got) : x.got[i] \in Int
<1>1. x.got \in Seq(Item)
  BY DEF ClientType
<1>2. \A i \in 1..Len(x.got) : x.got[i] \in Item
  BY <1>1
<1> QED
  BY <1>2 DEF Item

LEMMA ToldLater ==
    ASSUME NEW x \in ClientType, NEW w \in Int, NEW v \in Int, w <= v, NEW f, NEW g,
           Told(x, w, f), x.pc = "live" => g = f
    PROVE  Told(x, v, g)
<1>1. \A i \in 1..Len(x.got) : x.got[i] \in Int
  BY GotChunks
<1>2. \A i \in 1..Len(x.got) : x.got[i] <= v
  BY <1>1 DEF Told
<1> QED
  BY <1>2, Zenon DEF Told

(* Being sent a marker.                                                    *)
LEMMA ToldMarker ==
    ASSUME NEW x \in ClientType, NEW y \in ClientType, NEW w \in Nat, NEW f, Told(x, w, f),
           y.got = Append(x.got, Marker), y.replayed = x.replayed, Marker \in Item,
           <<x.pc, y.pc>> \in {<<"live", "live">>, <<"marker", "add">>}
    PROVE  Told(y, w, f)
<1> DEFINE s == x.got
           t == y.got
           r == x.replayed
<1>1. /\ s \in Seq(Item) /\ r \in Nat /\ r <= Len(s) /\ Len(t) = Len(s) + 1 /\ Len(s) \in Nat
      /\ \A i \in 1..Len(s) : t[i] = s[i]
      /\ t[Len(s) + 1] = Marker
  BY AppendItem DEF ClientType, Told
<1>2. r \in 0..Len(s) /\ r + 1 \in 1..Len(s) + 1
  BY <1>1
<1>3. Contiguous(s, 1, r) /\ Contiguous(s, r + 1, Len(s))
  BY DEF Told
<1>4. Contiguous(t, 1, r)
  BY <1>1, <1>2, <1>3, AppendFixed
<1>5. /\ Contiguous(t, r + 1, Len(t))
      /\ EndsWith(s, r + 1, Len(s), f) => EndsWith(t, r + 1, Len(t), f)
      /\ OnlyMarkers(s, r + 1, Len(s)) => OnlyMarkers(t, r + 1, Len(t))
  BY <1>1, <1>2, <1>3, AppendMarker
<1>6. \A i \in 1..Len(t) : t[i] <= w
  <2>1. \A i \in 1..Len(s) : s[i] <= w
    BY DEF Told
  <2> HIDE DEF s, t
  <2> QED
    BY <1>1, <2>1 DEF Marker
<1>7. \A i \in 1..r, j \in r + 1..Len(t) : t[j] # Marker => t[j] >= t[i]
  <2>1. \A i \in 1..r, j \in r + 1..Len(s) : s[j] # Marker => s[j] >= s[i]
    BY DEF Told
  <2> HIDE DEF s, t, r
  <2> SUFFICES ASSUME NEW i \in 1..r, NEW j \in r + 1..Len(t), t[j] # Marker PROVE t[j] >= t[i]
    OBVIOUS
  <2>2. i \in 1..Len(s) /\ j \in r + 1..Len(s) /\ j \in 1..Len(s)
    BY <1>1
  <2> QED
    BY <1>1, <2>1, <2>2
<1>8. /\ y.pc = "live" => EndsWith(t, r + 1, Len(t), f)
      /\ y.pc \in {"new", "check", "marker", "add"} => OnlyMarkers(t, r + 1, Len(t))
  BY <1>5 DEF Told
<1>9. r <= Len(t)
  BY <1>1
<1> QED
  BY <1>4, <1>5, <1>6, <1>7, <1>8, <1>9, Zenon DEF Told

(* Being sent the next chunk, once the ring has it.                        *)
LEMMA ToldChunk ==
    ASSUME NEW x \in ClientType, NEW y \in ClientType, NEW f \in Nat, f + 1 \in Item,
           Told(x, f + 1, f), x.pc = "live", y.pc = "live",
           y.got = Append(x.got, f + 1), y.replayed = x.replayed
    PROVE  Told(y, f + 1, f + 1)
<1> DEFINE s == x.got
           t == y.got
           r == x.replayed
<1>1. /\ s \in Seq(Item) /\ r \in Nat /\ r <= Len(s) /\ Len(t) = Len(s) + 1 /\ Len(s) \in Nat
      /\ \A i \in 1..Len(s) : t[i] = s[i]
      /\ t[Len(s) + 1] = f + 1
  BY AppendItem DEF ClientType, Told
<1>2. r \in 0..Len(s) /\ r + 1 \in 1..Len(s) + 1
  BY <1>1
<1>3. Contiguous(s, 1, r) /\ Contiguous(s, r + 1, Len(s)) /\ EndsWith(s, r + 1, Len(s), f)
  BY DEF Told
<1>4. Contiguous(t, 1, r)
  BY <1>1, <1>2, <1>3, AppendFixed
<1>5. Contiguous(t, r + 1, Len(t)) /\ EndsWith(t, r + 1, Len(t), f + 1)
  BY <1>1, <1>2, <1>3, AppendChunk
<1>6. \A i \in 1..Len(t) : t[i] <= f + 1
  <2>1. \A i \in 1..Len(s) : s[i] <= f + 1
    BY DEF Told
  <2> HIDE DEF s, t
  <2> QED
    BY <1>1, <2>1
<1>7. \A i \in 1..r, j \in r + 1..Len(t) : t[j] # Marker => t[j] >= t[i]
  <2>1. /\ \A i \in 1..r, j \in r + 1..Len(s) : s[j] # Marker => s[j] >= s[i]
        /\ \A i \in 1..Len(s) : s[i] <= f + 1 /\ s[i] \in Int
    BY GotChunks DEF Told
  <2> HIDE DEF s, t, r
  <2> SUFFICES ASSUME NEW i \in 1..r, NEW j \in r + 1..Len(t), t[j] # Marker PROVE t[j] >= t[i]
    OBVIOUS
  <2>2. i \in 1..Len(s) /\ t[i] = s[i]
    BY <1>1
  <2>3. CASE j = Len(s) + 1
    BY <1>1, <2>1, <2>2, <2>3
  <2>4. CASE j # Len(s) + 1
    <3>1. j \in r + 1..Len(s) /\ j \in 1..Len(s)
      BY <1>1, <2>4
    <3> QED
      BY <1>1, <2>1, <2>2, <3>1
  <2> QED
    BY <2>3, <2>4
<1>9. r <= Len(t)
  BY <1>1
<1> QED
  BY <1>4, <1>5, <1>6, <1>7, <1>9, Zenon DEF Told

LEMMA InitSequenced == Init => Sequenced
  BY TermStreamAssumption DEF Init, Sequenced, Told, Contiguous, EndsWith, OnlyMarkers, Written, Fanned

LEMMA NextSequenced == IInv /\ Sequenced /\ [Next]_vars => Sequenced'
<1> SUFFICES ASSUME IInv, Sequenced, [Next]_vars PROVE Sequenced'
  OBVIOUS
<1> USE TermStreamAssumption
<1>0. /\ client \in [Client -> ClientType] /\ ring \in Seq(Item) /\ Marker \in Item
      /\ reader \in [chunk : Item, pc : {"read", "ring", "fan"}]
      /\ Written \in Nat /\ Fanned \in Nat /\ Written \in Item
      /\ \A c \in Client : Told(client[c], Written, Fanned)
      /\ \A c \in Client : client[c].pc = "live" => c \in subs
  BY DEF IInv, TypeOK, ClientType, Item, Marker, Written, Fanned, Sequenced, JoinedBeforeExit
<1>r. ASSUME UNCHANGED <<ring, reader>>, \A c \in Client : Told(client'[c], Written, Fanned)
      PROVE  Sequenced'
  BY <1>r, ZenonT(30) DEF Sequenced, Written, Fanned
<1>c. ASSUME NEW c \in Client, NEW y, client' = [client EXCEPT ![c] = y],
             UNCHANGED <<ring, reader>>, Told(y, Written, Fanned)
      PROVE  Sequenced'
  <2>1. \A d \in Client : client'[d] = IF d = c THEN y ELSE client[d]
    BY <1>0, <1>c
  <2>2. \A d \in Client : Told(client'[d], Written, Fanned)
    BY <1>0, <1>c, <2>1
  <2> QED
    BY <1>c, <1>r, <2>2
<1>f. ASSUME NEW item \in Item, FanOut(item) 
      PROVE  \A c \in Client : /\ client[c].pc # "live" => client'[c] = client[c]
                               /\ client[c].pc = "live" =>
                                    /\ client'[c].pc = "live" /\ client'[c].replayed = client[c].replayed
                                    /\ client'[c].got = Append(client[c].got, item)
                               /\ client'[c] \in ClientType /\ client[c] \in ClientType
  <2> TAKE c \in Client
  <2>1. client[c] \in ClientType
    BY <1>0
  <2>2. Append(client[c].got, item) \in Seq(Item)
    BY <2>1, AppendItem DEF ClientType
  <2>3. CASE client[c].pc # "live"
    BY <1>f, <2>1, <2>3 DEF FanOut
  <2>4. CASE client[c].pc = "live"
    <3>1. client'[c] = [client[c] EXCEPT !.got = Append(@, item)]
      BY <1>0, <1>f, <2>4 DEF FanOut
    <3> QED
      BY <2>1, <2>2, <2>4, <3>1 DEF ClientType
  <2> QED
    BY <2>3, <2>4
<1>1. CASE Read
  <2>1. UNCHANGED <<ring, client>> /\ Written' = Written /\ Fanned' = Fanned /\ reader'.chunk > 0
    BY <1>0, <1>1 DEF Read, Written, Fanned, Item
  <2> QED
    BY <2>1, ZenonT(30) DEF Sequenced
<1>2. CASE ReadRing
  <2>1. /\ UNCHANGED client /\ Written' = Written + 1 /\ Fanned' = Fanned /\ reader'.chunk > 0
        /\ reader.chunk = Written + 1 /\ Written + 1 \in Item /\ ring' = Kept(Append(ring, Written + 1))
    BY <1>0, <1>2 DEF ReadRing, Written, Fanned, Item, Sequenced
  <2>2. \A c \in Client : Told(client'[c], Written + 1, Fanned)
    BY <1>0, <2>1, ToldLater
  <2> DEFINE s == Append(ring, Written + 1)
  <2>3. Contiguous(ring, 1, Len(ring)) /\ EndsWith(ring, 1, Len(ring), Written)
        /\ \A i \in 1..Len(ring) : ring[i] <= Written
    BY DEF Sequenced
  <2>4. 1 \in 1..Len(ring) + 1 /\ s \in Seq(Item) /\ Len(s) = Len(ring) + 1 /\ s[Len(ring) + 1] = Written + 1
        /\ \A i \in 1..Len(ring) : s[i] = ring[i] /\ ring[i] \in Int
    BY <1>0, <2>1, AppendItem DEF Item
  <2>5. Contiguous(s, 1, Len(s)) /\ EndsWith(s, 1, Len(s), Written + 1)
    <3> HIDE DEF s
    <3> DEFINE last == Written
    <3>1. last \in Nat /\ last + 1 \in Item
      BY <1>0, <2>1
    <3> HIDE DEF last
    <3> QED
      BY <1>0, <2>3, <2>4, <3>1, AppendChunk DEF s, last
  <2>6. \A i \in 1..Len(s) : s[i] <= Written + 1
    <3> HIDE DEF s
    <3> QED
      BY <1>0, <2>3, <2>4
  <2>7. /\ Contiguous(ring', 1, Len(ring')) /\ EndsWith(ring', 1, Len(ring'), Written + 1)
        /\ \A i \in 1..Len(ring') : ring'[i] <= Written + 1
    <3> DEFINE w == Written + 1
    <3>1. w \in Int /\ ring' = Kept(s)
      BY <1>0, <2>1
    <3> HIDE DEF s, w
    <3>2. Contiguous(s, 1, Len(s)) /\ EndsWith(s, 1, Len(s), w) /\ s \in Seq(Item)
          /\ \A i \in 1..Len(s) : s[i] <= w
      BY <2>4, <2>5, <2>6 DEF w
    <3>3. /\ Contiguous(Kept(s), 1, Len(Kept(s))) /\ EndsWith(Kept(s), 1, Len(Kept(s)), w)
          /\ \A i \in 1..Len(Kept(s)) : Kept(s)[i] <= w
      BY <3>1, <3>2, KeptRun
    <3> QED
      BY <3>1, <3>3, Zenon DEF w
  <2> QED
    BY <2>1, <2>2, <2>7, ZenonT(30) DEF Sequenced
<1>3. CASE ReadFan
  <2>1. /\ UNCHANGED ring /\ Written' = Written /\ Fanned' = Fanned + 1 /\ FanOut(Fanned + 1)
        /\ Written = Fanned + 1 /\ Fanned + 1 \in Item /\ reader'.pc = "read"
    BY <1>0, <1>3 DEF ReadFan, Written, Fanned, Item, Sequenced
  <2>2. ASSUME NEW c \in Client PROVE Told(client'[c], Written, Fanned + 1)
    <3>1. Told(client[c], Written, Fanned) /\ client[c] \in ClientType /\ client'[c] \in ClientType
      BY <1>0, <1>f, <2>1
    <3>2. CASE client[c].pc # "live"
      <4>1. client'[c] = client[c]
        BY <1>f, <2>1, <3>2
      <4> QED
        BY <1>0, <3>1, <3>2, <4>1, ToldLater
    <3>3. CASE client[c].pc = "live"
      <4>1. /\ client'[c].pc = "live" /\ client'[c].replayed = client[c].replayed
            /\ client'[c].got = Append(client[c].got, Fanned + 1)
        BY <1>f, <2>1, <3>3
      <4> DEFINE f == Fanned
      <4>2. f \in Nat /\ f + 1 \in Item /\ Told(client[c], f + 1, f)
        BY <1>0, <2>1, <3>1
      <4> HIDE DEF f
      <4>3. Told(client'[c], f + 1, f + 1)
        BY <3>1, <3>3, <4>1, <4>2, ToldChunk DEF f
      <4> QED
        BY <2>1, <4>3 DEF f
    <3> QED
      BY <3>2, <3>3
  <2> QED
    BY <2>1, <2>2, ZenonT(30) DEF Sequenced
<1>5. CASE ExitRing
  <2>1. UNCHANGED <<client, reader>> /\ ring' = Kept(Append(ring, Marker))
    BY <1>5 DEF ExitRing
  <2>2. Written' = Written /\ Fanned' = Fanned
    BY <2>1 DEF Written, Fanned
  <2> DEFINE s == Append(ring, Marker)
             w == Written
  <2>3. /\ Contiguous(ring, 1, Len(ring)) /\ EndsWith(ring, 1, Len(ring), w)
        /\ \A i \in 1..Len(ring) : ring[i] <= w
    BY DEF Sequenced
  <2>4. 1 \in 1..Len(ring) + 1 /\ s \in Seq(Item) /\ Len(s) = Len(ring) + 1 /\ s[Len(ring) + 1] = Marker
        /\ \A i \in 1..Len(ring) : s[i] = ring[i]
    BY <1>0, AppendItem
  <2>5. Contiguous(s, 1, Len(s)) /\ EndsWith(s, 1, Len(s), w)
    BY <1>0, <2>3, <2>4, AppendMarker
  <2>6. \A i \in 1..Len(s) : s[i] <= w
    <3>1. w \in Nat
      BY <1>0
    <3> HIDE DEF s, w
    <3> QED
      BY <1>0, <2>3, <2>4, <3>1 DEF Marker
  <2>7. /\ Contiguous(ring', 1, Len(ring')) /\ EndsWith(ring', 1, Len(ring'), w)
        /\ \A i \in 1..Len(ring') : ring'[i] <= w
    <3>1. w \in Int /\ ring' = Kept(s)
      BY <1>0, <2>1
    <3> HIDE DEF s, w
    <3>3. /\ Contiguous(Kept(s), 1, Len(Kept(s))) /\ EndsWith(Kept(s), 1, Len(Kept(s)), w)
          /\ \A i \in 1..Len(Kept(s)) : Kept(s)[i] <= w
      BY <2>4, <2>5, <2>6, <3>1, KeptRun
    <3> QED
      BY <3>1, <3>3, Zenon
  <2> QED
    BY <1>0, <2>1, <2>2, <2>7, ZenonT(30) DEF Sequenced
<1>6. CASE ExitFan
  <2>1. UNCHANGED <<ring, reader>> /\ FanOut(Marker)
    BY <1>6 DEF ExitFan
  <2>2. ASSUME NEW c \in Client PROVE Told(client'[c], Written, Fanned)
    <3>1. Told(client[c], Written, Fanned) /\ client[c] \in ClientType /\ client'[c] \in ClientType
      BY <1>0, <1>f, <2>1
    <3>2. CASE client[c].pc # "live"
      BY <1>0, <1>f, <2>1, <3>1, <3>2
    <3>3. CASE client[c].pc = "live"
      <4>1. /\ client'[c].pc = "live" /\ client'[c].replayed = client[c].replayed
            /\ client'[c].got = Append(client[c].got, Marker)
        BY <1>0, <1>f, <2>1, <3>3
      <4> QED
        BY <1>0, <3>1, <3>3, <4>1, ToldMarker
    <3> QED
      BY <3>2, <3>3
  <2> QED
    BY <1>r, <2>1, <2>2
<1>8. ASSUME NEW c \in Client, Replay(c) PROVE Sequenced'
  <2> DEFINE y == [pc |-> "check", got |-> ring, replayed |-> Len(ring)]
  <2>1. client' = [client EXCEPT ![c] = y] /\ UNCHANGED <<ring, reader>>
    BY <1>8 DEF Replay
  <2>2. Told(y, Written, Fanned)
    <3>1. /\ Contiguous(ring, 1, Len(ring)) /\ Len(ring) \in Nat
          /\ \A i \in 1..Len(ring) : ring[i] <= Written
      BY <1>0 DEF Sequenced
    <3>2. Contiguous(ring, Len(ring) + 1, Len(ring)) /\ OnlyMarkers(ring, Len(ring) + 1, Len(ring))
      BY <3>1 DEF Contiguous, OnlyMarkers
    <3> QED
      BY <3>1, <3>2 DEF Told
  <2> HIDE DEF y
  <2> QED
    BY <1>c, <2>1, <2>2
<1>9. ASSUME NEW c \in Client, Join(c) \/ SeeExited(c) \/ JoinExited(c) \/ Disconnect(c)
      PROVE  Sequenced'
  <2>1. PICK pc \in {"live", "marker", "gone"} :
           /\ client' = [client EXCEPT ![c].pc = pc] /\ UNCHANGED <<ring, reader>>
           /\ \/ pc = "live" /\ client[c].pc \in {"check", "add"}
              \/ pc = "marker" /\ client[c].pc = "check"
              \/ pc = "gone"
    BY <1>9 DEF Join, SeeExited, JoinExited, Disconnect
  <2> DEFINE x == client[c]
             y == [x EXCEPT !.pc = pc]
  <2>2. x \in ClientType /\ Told(x, Written, Fanned)
    BY <1>0
  <2>3. y.pc = pc /\ y.got = x.got /\ y.replayed = x.replayed
    BY <2>2 DEF ClientType
  <2>4. client' = [client EXCEPT ![c] = y]
    BY <1>0, <2>1
  <2>5. OnlyMarkers(x.got, x.replayed + 1, Len(x.got)) =>
            EndsWith(x.got, x.replayed + 1, Len(x.got), Fanned)
    BY DEF OnlyMarkers, EndsWith
  <2>6. Told(y, Written, Fanned)
    <3>1. /\ pc = "live" => EndsWith(x.got, x.replayed + 1, Len(x.got), Fanned)
          /\ pc \in {"new", "check", "marker", "add"} => OnlyMarkers(x.got, x.replayed + 1, Len(x.got))
      BY <2>1, <2>2, <2>5 DEF Told
    <3> HIDE DEF x, y
    <3> QED
      BY <2>2, <2>3, <3>1, ZenonT(30) DEF Told
  <2> HIDE DEF y
  <2> QED
    BY <1>c, <2>1, <2>4, <2>6
<1>11. ASSUME NEW c \in Client, WriteMarker(c) PROVE Sequenced'
  <2> DEFINE x == client[c]
             y == [x EXCEPT !.pc = "add", !.got = Append(@, Marker)]
  <2>1. client' = [client EXCEPT ![c] = y] /\ UNCHANGED <<ring, reader>> /\ x.pc = "marker"
    BY <1>0, <1>11 DEF WriteMarker
  <2>2. x \in ClientType /\ Told(x, Written, Fanned)
    BY <1>0
  <2>3. Append(x.got, Marker) \in Seq(Item)
    BY <1>0, <2>2, AppendItem DEF ClientType
  <2>4. y \in ClientType /\ y.pc = "add" /\ y.got = Append(x.got, Marker) /\ y.replayed = x.replayed
    BY <2>2, <2>3 DEF ClientType
  <2>5. Told(y, Written, Fanned)
    <3> HIDE DEF x, y
    <3> QED
      BY <1>0, <2>1, <2>2, <2>4, ToldMarker
  <2> HIDE DEF y
  <2> QED
    BY <1>c, <2>1, <2>5
<1>12. CASE UNCHANGED <<ring, reader, client>>
  BY <1>0, <1>r, <1>12
<1>13. Exit \/ ExitClose \/ (\E c \in Client : Unsubscribe(c)) \/ UNCHANGED vars
         => UNCHANGED <<ring, reader, client>>
  BY DEF Exit, ExitClose, Unsubscribe, vars
<1> HIDE DEF Sequenced
<1> QED
  BY <1>1, <1>2, <1>3, <1>5, <1>6, <1>8, <1>9, <1>11, <1>12, <1>13
     DEF Next, Output, Waiting, Subscribe

(* Whatever the amount of output, the size of the ring and the number of   *)
(* clients: output is lost or repeated only where replay and live output   *)
(* meet.                                                                   *)
THEOREM GapsAreSeams == Spec => []SeamOnly
<1>1. Sequenced => SeamOnly
  BY DEF Sequenced, Told, SeamOnly
<1> QED
  BY <1>1, InitIInv, NextIInv, InitSequenced, NextSequenced, PTL DEF Spec

-----------------------------------------------------------------------------
(* EventLog: what is read of the log while the agent writes it.            *)

(* The end of a log with one more event.                                   *)
LEMMA WindowType ==
    ASSUME NEW log \in Seq(E!Event), NEW e \in E!Event, NEW w \in E!Windows(log, e)
    PROVE  w \in Seq(E!Event) /\ Len(w) <= MaxSeen
<1> DEFINE s == Append(log, e)
<1>1. s \in Seq(E!Event)
  OBVIOUS
<1>2. w = <<>> \/ \E i \in 1..Len(s) : w = SubSeq(s, i, Len(s))
  BY DEF E!Windows, E!Suffixes
<1>3. ASSUME NEW i \in 1..Len(s) PROVE SubSeq(s, i, Len(s)) \in Seq(E!Event)
  <2> HIDE DEF s
  <2>1. Len(s) \in Nat
    BY <1>1
  <2>2. \A n \in i..Len(s) : s[n] \in E!Event
    BY <1>1, <1>3, <2>1
  <2> QED
    BY <1>1, <1>3, <2>1, <2>2, SubSeqProperties
<1>4. w \in Seq(E!Event)
  <2> HIDE DEF s
  <2>1. <<>> \in Seq(E!Event)
    OBVIOUS
  <2>2. CASE w = <<>>
    BY <2>1, <2>2
  <2>3. ASSUME NEW i \in 1..Len(s), w = SubSeq(s, i, Len(s)) PROVE w \in Seq(E!Event)
    BY <1>3, <2>3
  <2> QED
    BY <1>2, <2>2, <2>3
<1> QED
  BY <1>4 DEF E!Windows

LEMMA TruthType ==
    ASSUME NEW a, NEW evs PROVE E!Truth(a, evs) \in E!State
  BY DEF E!Truth, E!State

LEMMA ClassifyType ==
    ASSUME NEW evs PROVE E!classifyFromEvents(evs) \in E!State \cup {"unknown"}
  BY DEF E!classifyFromEvents, E!State

LoadType == [pc : {"idle", "discover", "pid", "events", "lsof", "done"}, listed : BOOLEAN,
             pid : BOOLEAN, state : E!State \cup {"none", "unknown"}, sound : BOOLEAN]

AgentType == [up : BOOLEAN, turn : BOOLEAN, asks : 0..MaxOpen, tools : 0..MaxOpen,
              perms : 0..MaxOpen, demand : BOOLEAN, killed : BOOLEAN]

LEMMA LogInit == E!Init => E!TypeOK
<1> SUFFICES ASSUME E!Init PROVE E!TypeOK
  OBVIOUS
<1>1. tail = <<>> /\ 0 <= MaxSeen /\ 0 \in 0..MaxOpen
  BY LogAssumption DEF E!Init, E!EventLogAssumption
<1>2. E!Down \in AgentType
  BY <1>1 DEF E!Down, AgentType
<1>3. E!Resting \in LoadType
  BY DEF E!Resting, LoadType
<1> QED
  BY <1>1, <1>2, <1>3 DEF E!Init, E!TypeOK, AgentType, LoadType

(* A load is told what it reads whatever the log says.                     *)
LEMMA LogTypes == E!TypeOK /\ [E!Next]_E!vars => E!TypeOK'
<1> SUFFICES ASSUME E!TypeOK, [E!Next]_E!vars PROVE E!TypeOK'
  OBVIOUS
<1>0. /\ tail \in Seq(E!Event) /\ Len(tail) <= MaxSeen
      /\ agent \in AgentType
      /\ files \in [row : BOOLEAN, lock : BOOLEAN, db : BOOLEAN]
      /\ load \in LoadType
      /\ been \subseteq E!State
      /\ MaxOpen \in Nat
  BY LogAssumption DEF E!TypeOK, AgentType, LoadType, E!EventLogAssumption
<1>1. ASSUME E!Observed PROVE been' \subseteq E!State
  BY <1>0, <1>1, TruthType DEF E!Observed
<1>2. ASSUME NEW e \in E!Event, E!Logs(e) PROVE tail' \in Seq(E!Event) /\ Len(tail') <= MaxSeen
  BY <1>0, <1>2, WindowType DEF E!Logs
<1>3. E!Down \in AgentType /\ E!Resting \in LoadType
  BY <1>0 DEF E!Down, AgentType, E!Resting, LoadType
<1>4. /\ \A type \in {"turn_end", "complete", "requested", "completed", "user_requested", "shutdown"} :
            E!Logged(type) \in E!Event
      /\ [type |-> "start", mark |-> "other"] \in E!Event
      /\ [type |-> "start", mark |-> "prompting"] \in E!Event
      /\ \A mark \in {"none", "tied"} : [type |-> "turn_start", mark |-> mark] \in E!Event
  BY DEF E!Logged, E!Event
<1>5. ASSUME /\ tail' \in Seq(E!Event) /\ Len(tail') <= MaxSeen
             /\ agent' \in AgentType
             /\ files' \in [row : BOOLEAN, lock : BOOLEAN, db : BOOLEAN]
             /\ load' \in LoadType
             /\ been' \subseteq E!State
      PROVE  E!TypeOK'
  BY <1>5 DEF E!TypeOK, AgentType, LoadType
<1>6. CASE E!Launch
  <2>1. agent' \in AgentType /\ files' \in [row : BOOLEAN, lock : BOOLEAN, db : BOOLEAN]
    BY <1>0, <1>3, <1>6 DEF E!Launch, AgentType
  <2> QED
    BY <1>0, <1>1, <1>5, <1>6, <2>1 DEF E!Launch
<1>7. CASE E!TurnStart
  <2>1. agent' \in AgentType /\ files' \in [row : BOOLEAN, lock : BOOLEAN, db : BOOLEAN]
    BY <1>0, <1>7 DEF E!TurnStart, AgentType
  <2>2. tail' \in Seq(E!Event) /\ Len(tail') <= MaxSeen
    BY <1>2, <1>4, <1>7 DEF E!TurnStart
  <2> QED
    BY <1>0, <1>1, <1>5, <1>7, <2>1, <2>2 DEF E!TurnStart
<1>8. ASSUME NEW field \in {"asks", "tools", "perms"}, NEW more \in BOOLEAN, NEW e \in E!Event,
             E!InTurn(field, more, e)
      PROVE  E!TypeOK'
  <2>1. agent' = [agent EXCEPT ![field] = IF more THEN @ + 1 ELSE @ - 1]
    BY <1>8 DEF E!InTurn
  <2>2. IF more THEN agent.asks + agent.tools + agent.perms < MaxOpen ELSE agent[field] > 0
    BY <1>8 DEF E!InTurn
  <2>3. agent.asks \in 0..MaxOpen /\ agent.tools \in 0..MaxOpen /\ agent.perms \in 0..MaxOpen
    BY <1>0 DEF AgentType
  <2>4. \A n \in 0..MaxOpen : /\ n < MaxOpen => n + 1 \in 0..MaxOpen
                              /\ n > 0 => n - 1 \in 0..MaxOpen
    BY <1>0
  <2>5. more => agent.asks < MaxOpen /\ agent.tools < MaxOpen /\ agent.perms < MaxOpen
    BY <1>0, <2>2, <2>3
  <2>6. CASE field = "asks"
    <3>1. (IF more THEN agent.asks + 1 ELSE agent.asks - 1) \in 0..MaxOpen
      BY <2>2, <2>3, <2>4, <2>5, <2>6
    <3> QED
      BY <1>0, <2>1, <2>6, <3>1, <1>1, <1>2, <1>5, <1>8 DEF E!InTurn, AgentType
  <2>7. CASE field = "tools"
    <3>1. (IF more THEN agent.tools + 1 ELSE agent.tools - 1) \in 0..MaxOpen
      BY <2>2, <2>3, <2>4, <2>5, <2>7
    <3> QED
      BY <1>0, <2>1, <2>7, <3>1, <1>1, <1>2, <1>5, <1>8 DEF E!InTurn, AgentType
  <2>8. CASE field = "perms"
    <3>1. (IF more THEN agent.perms + 1 ELSE agent.perms - 1) \in 0..MaxOpen
      BY <2>2, <2>3, <2>4, <2>5, <2>8
    <3> QED
      BY <1>0, <2>1, <2>8, <3>1, <1>1, <1>2, <1>5, <1>8 DEF E!InTurn, AgentType
  <2> QED
    BY <2>6, <2>7, <2>8
<1>9. CASE \/ E!ToolStart \/ E!ToolComplete \/ E!AskStart \/ E!AskComplete
           \/ E!PermissionRequested \/ E!PermissionCompleted
  BY <1>4, <1>8, <1>9 DEF E!ToolStart, E!ToolComplete, E!AskStart, E!AskComplete,
     E!PermissionRequested, E!PermissionCompleted
<1>10. CASE E!UserRequested
  <2>1. agent' \in AgentType
    BY <1>0, <1>10 DEF E!UserRequested, AgentType
  <2>2. tail' \in Seq(E!Event) /\ Len(tail') <= MaxSeen
    BY <1>2, <1>4, <1>10 DEF E!UserRequested
  <2> QED
    BY <1>0, <1>1, <1>5, <1>10, <2>1, <2>2 DEF E!UserRequested
<1>11. CASE E!TurnEnd
  <2>1. agent' \in AgentType
    BY <1>3, <1>11 DEF E!TurnEnd, AgentType
  <2>2. tail' \in Seq(E!Event) /\ Len(tail') <= MaxSeen
    BY <1>2, <1>4, <1>11 DEF E!TurnEnd
  <2> QED
    BY <1>0, <1>1, <1>5, <1>11, <2>1, <2>2 DEF E!TurnEnd
<1>12. CASE E!Shutdown
  <2>1. agent' \in AgentType /\ files' \in [row : BOOLEAN, lock : BOOLEAN, db : BOOLEAN]
    BY <1>0, <1>3, <1>12 DEF E!Shutdown
  <2>2. tail' \in Seq(E!Event) /\ Len(tail') <= MaxSeen
    BY <1>2, <1>4, <1>12 DEF E!Shutdown
  <2> QED
    BY <1>0, <1>1, <1>5, <1>12, <2>1, <2>2 DEF E!Shutdown
<1>13. CASE E!Die
  <2>1. agent' \in AgentType /\ files' \in [row : BOOLEAN, lock : BOOLEAN, db : BOOLEAN]
    BY <1>0, <1>3, <1>13 DEF E!Die, AgentType
  <2> QED
    BY <1>0, <1>1, <1>5, <1>13, <2>1 DEF E!Die
<1>14. CASE E!LoadRecent
  <2>1. load' \in LoadType
    BY <1>0, <1>14 DEF E!LoadRecent, LoadType
  <2>2. been' \subseteq E!State
    BY <1>14, TruthType DEF E!LoadRecent
  <2> QED
    BY <1>0, <1>5, <1>14, <2>1, <2>2 DEF E!LoadRecent
<1>15. CASE E!DiscoverLiveSessions
  <2>1. load' \in LoadType
    BY <1>0, <1>15 DEF E!DiscoverLiveSessions, LoadType
  <2> QED
    BY <1>0, <1>5, <1>15, <2>1 DEF E!DiscoverLiveSessions
<1>16. CASE E!readInusePID
  <2>1. load' \in LoadType
    BY <1>0, <1>16 DEF E!readInusePID, LoadType
  <2> QED
    BY <1>0, <1>5, <1>16, <2>1 DEF E!readInusePID
<1>17. CASE E!ReadEvents
  <2>1. PICK s \in E!State \cup {"unknown"}, sound \in BOOLEAN :
           load' = [load EXCEPT !.pc = IF s = "unknown" THEN "lsof" ELSE "done",
                                !.state = s, !.sound = sound]
    <3>1. E!Sound(agent, tail) \in BOOLEAN
      BY DEF E!Sound
    <3> QED
      BY <1>17, <3>1, ClassifyType DEF E!ReadEvents
  <2>2. load' \in LoadType
    BY <1>0, <2>1 DEF LoadType
  <2> QED
    BY <1>0, <1>5, <1>17, <2>2 DEF E!ReadEvents
<1>18. CASE E!LockedSet
  <2>1. \A pid, locked : E!IdleState(pid, locked) \in E!State
    BY DEF E!IdleState, E!State
  <2>2. PICK s \in E!State : load' = [load EXCEPT !.pc = "done", !.state = s]
    BY <1>18, <2>1 DEF E!LockedSet
  <2>3. load' \in LoadType
    BY <1>0, <2>2 DEF LoadType
  <2> QED
    BY <1>0, <1>5, <1>18, <2>3 DEF E!LockedSet
<1>19. CASE E!Shown
  BY <1>0, <1>3, <1>5, <1>19 DEF E!Shown
<1>20. CASE UNCHANGED E!vars
  BY <1>0, <1>5, <1>20 DEF E!vars
<1> QED
  BY <1>6, <1>7, <1>9, <1>10, <1>11, <1>12, <1>13, <1>14, <1>15, <1>16, <1>17,
     <1>18, <1>19, <1>20 DEF E!Next

(* Induction from the end of a range: a set that holds its end, and with   *)
(* each number the one before, holds all of it.                            *)
LEMMA DownTo ==
    ASSUME NEW m \in Nat, NEW n \in Nat, m <= n, NEW S, n \in S,
           \A i \in m+1..n : i \in S => i - 1 \in S
    PROVE  m..n \subseteq S
<1> DEFINE R == OpToRel(<, Nat)
           U == {k \in 0..(n - m) : n - k \notin S}
<1> SUFFICES ASSUME U # {} PROVE FALSE
  <2> SUFFICES ASSUME NEW i \in m..n, i \notin S PROVE U # {}
    OBVIOUS
  <2>1. n - i \in 0..(n - m) /\ n - (n - i) = i
    OBVIOUS
  <2> QED
    BY <2>1
<1>1. IsWellFoundedOn(R, Nat)
  BY NatLessThanWellFounded
<1>2. U \subseteq Nat
  OBVIOUS
<1>3. PICK k \in U : \A j \in U : ~ (<<j, k>> \in R)
  <2> HIDE DEF R, U
  <2> QED
    BY <1>1, <1>2, WFMin, Zenon
<1>4. \A j, l \in Nat : j < l => <<j, l>> \in R
  BY DEF OpToRel
<1>5. k \in Nat /\ k > 0 /\ k - 1 \in Nat /\ k - 1 < k /\ k <= n - m
  OBVIOUS
<1>6. k - 1 \notin U
  <2> HIDE DEF R, U
  <2> QED
    BY <1>2, <1>3, <1>4, <1>5, Zenon
<1>7. n - (k - 1) \in S
  BY <1>5, <1>6
<1>8. n - (k - 1) \in m+1..n /\ n - (k - 1) - 1 = n - k
  BY <1>5
<1>9. n - k \in S
  BY <1>7, <1>8
<1> QED
  BY <1>9

(* What one event does, event by event.                                    *)
LEMMA WalkBackIs ==
    ASSUME NEW e \in E!Event, NEW w \in E!Reading
    PROVE  /\ w.over => E!WalkBack(e, w) = w
           /\ ~ w.over =>
                /\ e.type = "turn_end" => E!WalkBack(e, w) = [w EXCEPT !.over = TRUE]
                /\ e.type = "complete" => E!WalkBack(e, w) = [w EXCEPT !.completed = @ + 1]
                /\ e.type = "completed" => E!WalkBack(e, w) = [w EXCEPT !.permCompleted = @ + 1]
                /\ e.type = "requested" /\ w.permCompleted > 0 =>
                      E!WalkBack(e, w) = [w EXCEPT !.permCompleted = @ - 1]
                /\ e.type = "user_requested" \/ (e.type = "requested" /\ w.permCompleted = 0) =>
                      E!WalkBack(e, w) = [w EXCEPT !.over = TRUE, !.waiting = TRUE]
                /\ e.type = "start" /\ e.mark = "prompting" =>
                      E!WalkBack(e, w) = [w EXCEPT !.prompting = @ + 1]
                /\ e.type = "start" /\ e.mark # "prompting" /\ w.completed > 0 =>
                      E!WalkBack(e, w) = [w EXCEPT !.completed = @ - 1]
                /\ e.type = "start" /\ e.mark # "prompting" /\ w.completed = 0 => E!WalkBack(e, w) = w
                /\ e.type \in {"turn_start", "shutdown"} => E!WalkBack(e, w) = w
<1>1. w.over \in BOOLEAN /\ w.completed \in Nat /\ w.permCompleted \in Nat
  BY DEF E!Reading
<1>2. CASE w.over
  BY <1>2 DEF E!WalkBack
<1>3. CASE ~ w.over
  <2>1. e.type = "turn_end" => E!WalkBack(e, w) = [w EXCEPT !.over = TRUE]
    BY <1>3 DEF E!WalkBack
  <2>2. e.type = "complete" => E!WalkBack(e, w) = [w EXCEPT !.completed = @ + 1]
    BY <1>3 DEF E!WalkBack
  <2>3. e.type = "completed" => E!WalkBack(e, w) = [w EXCEPT !.permCompleted = @ + 1]
    BY <1>3 DEF E!WalkBack
  <2>4. e.type = "requested" /\ w.permCompleted > 0 =>
           E!WalkBack(e, w) = [w EXCEPT !.permCompleted = @ - 1]
    BY <1>1, <1>3 DEF E!WalkBack
  <2>5. e.type = "user_requested" \/ (e.type = "requested" /\ w.permCompleted = 0) =>
           E!WalkBack(e, w) = [w EXCEPT !.over = TRUE, !.waiting = TRUE]
    BY <1>1, <1>3 DEF E!WalkBack
  <2>6. e.type = "start" /\ e.mark = "prompting" => E!WalkBack(e, w) = [w EXCEPT !.prompting = @ + 1]
    BY <1>3 DEF E!WalkBack
  <2>7. e.type = "start" /\ e.mark # "prompting" /\ w.completed > 0 =>
           E!WalkBack(e, w) = [w EXCEPT !.completed = @ - 1]
    BY <1>3 DEF E!WalkBack
  <2>8. e.type = "start" /\ e.mark # "prompting" /\ w.completed = 0 => E!WalkBack(e, w) = w
    BY <1>1, <1>3 DEF E!WalkBack
  <2>9. e.type \in {"turn_start", "shutdown"} => E!WalkBack(e, w) = w
    BY <1>3 DEF E!WalkBack
  <2> QED
    BY <1>3, <2>1, <2>2, <2>3, <2>4, <2>5, <2>6, <2>7, <2>8, <2>9
<1> QED
  BY <1>1, <1>2, <1>3

LEMMA WalkBackType ==
    ASSUME NEW e \in E!Event, NEW w \in E!Reading
    PROVE  E!WalkBack(e, w) \in E!Reading
<1>1. /\ w.completed + 1 \in Nat /\ w.permCompleted + 1 \in Nat /\ w.prompting + 1 \in Nat
      /\ w.completed > 0 => w.completed - 1 \in Nat
      /\ w.permCompleted > 0 => w.permCompleted - 1 \in Nat
      /\ w.permCompleted > 0 \/ w.permCompleted = 0
      /\ w.completed > 0 \/ w.completed = 0
  BY DEF E!Reading
<1>2. e.type \in {"turn_start", "turn_end", "complete", "requested", "completed",
                  "user_requested", "shutdown", "start"}
  BY DEF E!Event
<1>3. w.over \in BOOLEAN /\ w.waiting \in BOOLEAN
  BY DEF E!Reading
<1>4. CASE w.over
  BY <1>4, WalkBackIs
<1>5. CASE ~ w.over
  <2>1. CASE e.type = "turn_end"
    <3>1. E!WalkBack(e, w) = [w EXCEPT !.over = TRUE]
      BY <1>5, <2>1, WalkBackIs
    <3>2. [w EXCEPT !.over = TRUE] \in E!Reading
      BY <1>1, <2>1 DEF E!Reading
    <3> QED
      BY <3>1, <3>2
  <2>2. CASE e.type = "complete"
    <3>1. E!WalkBack(e, w) = [w EXCEPT !.completed = @ + 1]
      BY <1>5, <2>2, WalkBackIs
    <3>2. [w EXCEPT !.completed = @ + 1] \in E!Reading
      BY <1>1, <2>2 DEF E!Reading
    <3> QED
      BY <3>1, <3>2
  <2>3. CASE e.type = "completed"
    <3>1. E!WalkBack(e, w) = [w EXCEPT !.permCompleted = @ + 1]
      BY <1>5, <2>3, WalkBackIs
    <3>2. [w EXCEPT !.permCompleted = @ + 1] \in E!Reading
      BY <1>1, <2>3 DEF E!Reading
    <3> QED
      BY <3>1, <3>2
  <2>4. CASE e.type = "requested" /\ w.permCompleted > 0
    <3>1. E!WalkBack(e, w) = [w EXCEPT !.permCompleted = @ - 1]
      BY <1>5, <2>4, WalkBackIs
    <3>2. [w EXCEPT !.permCompleted = @ - 1] \in E!Reading
      BY <1>1, <2>4 DEF E!Reading
    <3> QED
      BY <3>1, <3>2
  <2>5. CASE e.type = "user_requested" \/ (e.type = "requested" /\ w.permCompleted = 0)
    <3>1. E!WalkBack(e, w) = [w EXCEPT !.over = TRUE, !.waiting = TRUE]
      BY <1>5, <2>5, WalkBackIs
    <3>2. [w EXCEPT !.over = TRUE, !.waiting = TRUE] \in E!Reading
      BY <1>1, <2>5 DEF E!Reading
    <3> QED
      BY <3>1, <3>2
  <2>6. CASE e.type = "start" /\ e.mark = "prompting"
    <3>1. E!WalkBack(e, w) = [w EXCEPT !.prompting = @ + 1]
      BY <1>5, <2>6, WalkBackIs
    <3>2. [w EXCEPT !.prompting = @ + 1] \in E!Reading
      BY <1>1, <2>6 DEF E!Reading
    <3> QED
      BY <3>1, <3>2
  <2>7. CASE e.type = "start" /\ e.mark # "prompting" /\ w.completed > 0
    <3>1. E!WalkBack(e, w) = [w EXCEPT !.completed = @ - 1]
      BY <1>5, <2>7, WalkBackIs
    <3>2. [w EXCEPT !.completed = @ - 1] \in E!Reading
      BY <1>1, <2>7 DEF E!Reading
    <3> QED
      BY <3>1, <3>2
  <2>8. CASE e.type = "start" /\ e.mark # "prompting" /\ w.completed = 0
    BY <1>5, <2>8, WalkBackIs
  <2>9. CASE e.type \in {"turn_start", "shutdown"}
    BY <1>5, <2>9, WalkBackIs
  <2> QED
    BY <1>1, <1>2, <2>1, <2>2, <2>3, <2>4, <2>5, <2>6, <2>7, <2>8, <2>9
<1> QED
  BY <1>3, <1>4, <1>5

IsWalk(f, evs, k) ==
    /\ f \in [k..Len(evs) -> E!Reading]
    /\ f[Len(evs)] = E!Unread
    /\ \A i \in k..Len(evs) - 1 : f[i] = E!WalkBack(evs[i + 1], f[i + 1])

LEMMA WalkIs ==
    ASSUME NEW evs \in Seq(E!Event) PROVE IsWalk(E!Walk(evs), evs, 0)
<1> DEFINE n == Len(evs)
           S == {k \in 0..n : \E f : IsWalk(f, evs, k)}
<1>0. n \in Nat /\ \A i \in 1..n : evs[i] \in E!Event
  OBVIOUS
<1>1. n \in S
  <2>1. IsWalk([i \in n..n |-> E!Unread], evs, n)
    BY <1>0 DEF IsWalk, E!Unread, E!Reading
  <2> QED
    BY <1>0, <2>1
<1>2. ASSUME NEW i \in 0+1..n, i \in S PROVE i - 1 \in S
  <2>1. PICK f : IsWalk(f, evs, i)
    BY <1>2
  <2> DEFINE g == [j \in i - 1..n |-> IF j = i - 1 THEN E!WalkBack(evs[i], f[i]) ELSE f[j]]
  <2>2. f[i] \in E!Reading /\ evs[i] \in E!Event
    BY <1>0, <1>2, <2>1 DEF IsWalk
  <2>3. E!WalkBack(evs[i], f[i]) \in E!Reading
    BY <2>2, WalkBackType
  <2>4. \A j \in i..n : g[j] = f[j] /\ f[j] \in E!Reading
    BY <1>2, <2>1 DEF IsWalk
  <2>5. g[i - 1] = E!WalkBack(evs[i], f[i])
    BY <1>2
  <2>6. g \in [i - 1..n -> E!Reading]
    <3>1. \A j \in i - 1..n : j = i - 1 \/ j \in i..n
      BY <1>0, <1>2
    <3>2. \A j \in i - 1..n : g[j] \in E!Reading
      <4> HIDE DEF g
      <4> QED
        BY <2>3, <2>4, <2>5, <3>1
    <3> QED
      BY <3>2
  <2> HIDE DEF g
  <2>7. g[n] = E!Unread
    BY <1>2, <2>1, <2>4 DEF IsWalk
  <2>8. ASSUME NEW j \in i - 1..n - 1 PROVE g[j] = E!WalkBack(evs[j + 1], g[j + 1])
    <3>1. CASE j = i - 1
      <4>1. j + 1 = i /\ g[i] = f[i]
        BY <1>2, <2>4, <3>1
      <4> QED
        BY <2>5, <3>1, <4>1
    <3>2. CASE j # i - 1
      <4>1. j \in i..n - 1 /\ j \in i..n /\ j + 1 \in i..n
        BY <1>2, <2>8, <3>2
      <4> QED
        BY <2>1, <2>4, <4>1 DEF IsWalk
    <3> QED
      BY <3>1, <3>2
  <2> QED
    BY <1>2, <2>6, <2>7, <2>8 DEF IsWalk
<1>3. 0 \in S
  <2> HIDE DEF S
  <2>1. n \in Nat /\ 0 \in Nat /\ 0 <= n
    BY <1>0
  <2>2. \A i \in 0+1..n : i \in S => i - 1 \in S
    BY <1>2
  <2> HIDE DEF n
  <2>3. 0..n \subseteq S
    BY <1>1, <2>1, <2>2, DownTo
  <2> QED
    BY <2>1, <2>3
<1>4. PICK f : IsWalk(f, evs, 0)
  BY <1>3
<1>5. f = [i \in 0..n |-> IF i = n THEN E!Unread ELSE E!WalkBack(evs[i + 1], f[i + 1])]
  <2>1. \A i \in 0..n : f[i] = IF i = n THEN E!Unread ELSE E!WalkBack(evs[i + 1], f[i + 1])
    <3> SUFFICES ASSUME NEW i \in 0..n
                 PROVE  f[i] = IF i = n THEN E!Unread ELSE E!WalkBack(evs[i + 1], f[i + 1])
      OBVIOUS
    <3>1. i # n => i \in 0..n - 1
      BY <1>0
    <3> QED
      BY <1>4, <3>1 DEF IsWalk
  <2>2. f \in [0..n -> E!Reading]
    BY <1>4 DEF IsWalk
  <2> QED
    BY <2>1, <2>2
<1> DEFINE w == E!Walk(evs)
<1>6. w = [i \in 0..n |-> IF i = n THEN E!Unread ELSE E!WalkBack(evs[i + 1], w[i + 1])]
  BY <1>5 DEF E!Walk
<1> HIDE DEF w
<1>7. DOMAIN w = 0..n /\ w[n] = E!Unread
  BY <1>0, <1>6
<1>8. \A i \in 0..n - 1 : w[i] = E!WalkBack(evs[i + 1], w[i + 1])
  BY <1>0, <1>6
<1> DEFINE T == {i \in 0..n : w[i] \in E!Reading}
<1>9. \A i \in 0+1..n : i \in T => i - 1 \in T
  <2> SUFFICES ASSUME NEW i \in 1..n, w[i] \in E!Reading PROVE w[i - 1] \in E!Reading
    BY <1>0
  <2>1. i - 1 \in 0..n - 1 /\ (i - 1) + 1 = i /\ evs[i] \in E!Event
    BY <1>0
  <2>2. w[i - 1] = E!WalkBack(evs[i], w[i])
    BY <1>8, <2>1
  <2> QED
    BY <2>1, <2>2, WalkBackType
<1>10. n \in T
  <2>1. E!Unread \in E!Reading
    BY DEF E!Unread, E!Reading
  <2> QED
    BY <1>0, <1>7, <2>1
<1>11. 0..n \subseteq T
  <2> HIDE DEF T
  <2>1. n \in Nat /\ 0 \in Nat /\ 0 <= n
    BY <1>0
  <2> HIDE DEF n
  <2> QED
    BY <1>9, <1>10, <2>1, DownTo
<1>12. w \in [0..n -> E!Reading]
  BY <1>6, <1>11
<1> QED
  BY <1>7, <1>8, <1>12 DEF IsWalk, w

(* What an agent holds open in a turn, and what an event makes of it.       *)
Held == [asks : Nat, tools : Nat, perms : Nat, demand : BOOLEAN]

Holding(a) == [asks |-> a.asks, tools |-> a.tools, perms |-> a.perms, demand |-> a.demand]

Nothing == [asks |-> 0, tools |-> 0, perms |-> 0, demand |-> FALSE]

Follows(a, e, b) ==
    \/ e.type = "start" /\ e.mark # "prompting" /\ b = [a EXCEPT !.tools = @ + 1]
    \/ e.type = "start" /\ e.mark = "prompting" /\ b = [a EXCEPT !.asks = @ + 1]
    \/ e.type = "complete" /\ a.tools > 0 /\ b = [a EXCEPT !.tools = @ - 1]
    \/ e.type = "complete" /\ a.asks > 0 /\ b = [a EXCEPT !.asks = @ - 1]
    \/ e.type = "requested" /\ b = [a EXCEPT !.perms = @ + 1]
    \/ e.type = "completed" /\ a.perms > 0 /\ b = [a EXCEPT !.perms = @ - 1]
    \/ e.type = "user_requested" /\ ~ a.demand /\ b = [a EXCEPT !.demand = TRUE]

(* The events after the tth account for all that is held after the last.    *)
Account(h, evs, t, z) ==
    /\ h \in [t..Len(evs) -> Held]
    /\ h[t] = Nothing /\ h[Len(evs)] = z
    /\ \A i \in t + 1..Len(evs) : Follows(h[i - 1], evs[i], h[i])

(* What the walk back has made of the events after those that led to a,     *)
(* when z is held in the end: each completion counted is of something that  *)
(* was held at a, or of a question asked since, and the other way round     *)
(* unless some are still held.                                              *)
Agrees(w, a, z) ==
    IF w.over THEN w.waiting /\ (z.perms > 0 \/ z.demand)
    ELSE /\ ~ w.waiting
         /\ w.permCompleted + z.perms = a.perms
         /\ a.demand = z.demand
         /\ w.completed + z.asks <= a.tools + a.asks + w.prompting
         /\ z.asks <= a.asks + w.prompting
         /\ z.asks = 0 => w.prompting + a.asks + a.tools <= w.completed + z.tools

LEMMA AgreesBefore ==
    ASSUME NEW a \in Held, NEW b \in Held, NEW z \in Held, NEW e \in E!Event, NEW w \in E!Reading,
           Follows(a, e, b), Agrees(w, b, z)
    PROVE  /\ Agrees(E!WalkBack(e, w), a, z)
           /\ E!WalkBack(e, w).prompting > w.prompting => e.mark = "prompting"
<1> DEFINE v == E!WalkBack(e, w)
<1> SUFFICES Agrees(v, a, z) /\ (v.prompting > w.prompting => e.mark = "prompting")
  OBVIOUS
<1>1. v \in E!Reading
  BY WalkBackType
<1>2. /\ a.asks \in Nat /\ a.tools \in Nat /\ a.perms \in Nat /\ a.demand \in BOOLEAN
      /\ b.asks \in Nat /\ b.tools \in Nat /\ b.perms \in Nat /\ b.demand \in BOOLEAN
      /\ z.asks \in Nat /\ z.tools \in Nat /\ z.perms \in Nat /\ z.demand \in BOOLEAN
      /\ w.completed \in Nat /\ w.permCompleted \in Nat /\ w.prompting \in Nat
      /\ w.over \in BOOLEAN /\ w.waiting \in BOOLEAN
  BY DEF Held, E!Reading
<1>3. CASE w.over
  <2>1. v = w
    BY <1>3, WalkBackIs
  <2> QED
    BY <1>2, <1>3, <2>1 DEF Agrees
<1>4. CASE ~ w.over
  <2>0. /\ ~ w.waiting
        /\ w.permCompleted + z.perms = b.perms
        /\ b.demand = z.demand
        /\ w.completed + z.asks <= b.tools + b.asks + w.prompting
        /\ z.asks <= b.asks + w.prompting
        /\ z.asks = 0 => w.prompting + b.asks + b.tools <= w.completed + z.tools
    BY <1>4 DEF Agrees
  <2>1. CASE e.type = "start" /\ e.mark # "prompting" /\ b = [a EXCEPT !.tools = @ + 1]
    <3>1. /\ b.tools = a.tools + 1 /\ b.asks = a.asks /\ b.perms = a.perms /\ b.demand = a.demand
      BY <2>1 DEF Held
    <3>2. CASE w.completed > 0
      <4>1. v = [w EXCEPT !.completed = @ - 1]
        BY <1>4, <2>1, <3>2, WalkBackIs
      <4>2. /\ v.completed = w.completed - 1 /\ v.permCompleted = w.permCompleted
            /\ v.prompting = w.prompting /\ v.over = w.over /\ v.waiting = w.waiting
        BY <4>1 DEF E!Reading
      <4> HIDE DEF v
      <4> QED
        BY <1>2, <1>4, <2>0, <3>1, <3>2, <4>2 DEF Agrees
    <3>3. CASE w.completed = 0
      <4>1. v = w
        BY <1>4, <2>1, <3>3, WalkBackIs
      <4> HIDE DEF v
      <4> QED
        BY <1>2, <1>4, <2>0, <3>1, <3>3, <4>1 DEF Agrees
    <3> QED
      BY <1>2, <3>2, <3>3
  <2>2. CASE e.type = "start" /\ e.mark = "prompting" /\ b = [a EXCEPT !.asks = @ + 1]
    <3>1. /\ b.tools = a.tools /\ b.asks = a.asks + 1 /\ b.perms = a.perms /\ b.demand = a.demand
      BY <2>2 DEF Held
    <3>2. v = [w EXCEPT !.prompting = @ + 1]
      BY <1>4, <2>2, WalkBackIs
    <3>3. /\ v.completed = w.completed /\ v.permCompleted = w.permCompleted
          /\ v.prompting = w.prompting + 1 /\ v.over = w.over /\ v.waiting = w.waiting
      BY <3>2 DEF E!Reading
    <3> HIDE DEF v
    <3> QED
      BY <1>2, <1>4, <2>0, <2>2, <3>1, <3>3 DEF Agrees
  <2>3. CASE e.type = "complete" /\ \/ a.tools > 0 /\ b = [a EXCEPT !.tools = @ - 1]
                                    \/ a.asks > 0 /\ b = [a EXCEPT !.asks = @ - 1]
    <3>1. /\ b.tools + b.asks + 1 = a.tools + a.asks /\ b.asks <= a.asks
          /\ b.perms = a.perms /\ b.demand = a.demand
      BY <1>2, <2>3 DEF Held
    <3>2. v = [w EXCEPT !.completed = @ + 1]
      BY <1>4, <2>3, WalkBackIs
    <3>3. /\ v.completed = w.completed + 1 /\ v.permCompleted = w.permCompleted
          /\ v.prompting = w.prompting /\ v.over = w.over /\ v.waiting = w.waiting
      BY <3>2 DEF E!Reading
    <3> HIDE DEF v
    <3> QED
      BY <1>2, <1>4, <2>0, <3>1, <3>3 DEF Agrees
  <2>4. CASE e.type = "requested" /\ b = [a EXCEPT !.perms = @ + 1]
    <3>1. /\ b.tools = a.tools /\ b.asks = a.asks /\ b.perms = a.perms + 1 /\ b.demand = a.demand
      BY <2>4 DEF Held
    <3>2. CASE w.permCompleted > 0
      <4>1. v = [w EXCEPT !.permCompleted = @ - 1]
        BY <1>4, <2>4, <3>2, WalkBackIs
      <4>2. /\ v.completed = w.completed /\ v.permCompleted = w.permCompleted - 1
            /\ v.prompting = w.prompting /\ v.over = w.over /\ v.waiting = w.waiting
        BY <4>1 DEF E!Reading
      <4> HIDE DEF v
      <4> QED
        BY <1>2, <1>4, <2>0, <3>1, <3>2, <4>2 DEF Agrees
    <3>3. CASE w.permCompleted = 0
      <4>1. v = [w EXCEPT !.over = TRUE, !.waiting = TRUE]
        BY <1>4, <2>4, <3>3, WalkBackIs
      <4>2. v.over /\ v.waiting /\ v.prompting = w.prompting
        BY <4>1 DEF E!Reading
      <4>3. z.perms > 0
        BY <1>2, <2>0, <3>1, <3>3
      <4> HIDE DEF v
      <4> QED
        BY <1>2, <4>2, <4>3 DEF Agrees
    <3> QED
      BY <1>2, <3>2, <3>3
  <2>5. CASE e.type = "completed" /\ a.perms > 0 /\ b = [a EXCEPT !.perms = @ - 1]
    <3>1. /\ b.tools = a.tools /\ b.asks = a.asks /\ b.perms = a.perms - 1 /\ b.demand = a.demand
      BY <2>5 DEF Held
    <3>2. v = [w EXCEPT !.permCompleted = @ + 1]
      BY <1>4, <2>5, WalkBackIs
    <3>3. /\ v.completed = w.completed /\ v.permCompleted = w.permCompleted + 1
          /\ v.prompting = w.prompting /\ v.over = w.over /\ v.waiting = w.waiting
      BY <3>2 DEF E!Reading
    <3> HIDE DEF v
    <3> QED
      BY <1>2, <1>4, <2>0, <3>1, <3>3 DEF Agrees
  <2>6. CASE e.type = "user_requested" /\ ~ a.demand /\ b = [a EXCEPT !.demand = TRUE]
    <3>1. b.demand
      BY <2>6 DEF Held
    <3>2. v = [w EXCEPT !.over = TRUE, !.waiting = TRUE]
      BY <1>4, <2>6, WalkBackIs
    <3>3. v.over /\ v.waiting /\ v.prompting = w.prompting
      BY <3>2 DEF E!Reading
    <3> HIDE DEF v
    <3> QED
      BY <1>2, <2>0, <3>1, <3>3 DEF Agrees
  <2> QED
    BY <2>1, <2>2, <2>3, <2>4, <2>5, <2>6 DEF Follows
<1> QED
  BY <1>2, <1>3, <1>4

(* So at the start of the turn.                                            *)
LEMMA WalkAgrees ==
    ASSUME NEW evs \in Seq(E!Event), NEW t \in 1..Len(evs), NEW h, NEW z \in Held,
           Account(h, evs, t, z)
    PROVE  /\ Agrees(E!Walk(evs)[t], Nothing, z)
           /\ E!Walk(evs)[t].prompting > 0 => \E i \in t + 1..Len(evs) : evs[i].mark = "prompting"
<1> DEFINE n == Len(evs)
           walk == E!Walk(evs)
           Asked(i) == \E j \in i + 1..n : evs[j].mark = "prompting"
           S == {i \in t..n : Agrees(walk[i], h[i], z) /\ (walk[i].prompting > 0 => Asked(i))}
<1>0. n \in Nat /\ t \in Nat /\ t <= n /\ t >= 1 /\ \A i \in 1..n : evs[i] \in E!Event
  OBVIOUS
<1>1. IsWalk(walk, evs, 0)
  BY WalkIs
<1> HIDE DEF walk
<1>2. /\ \A i \in 0..n : walk[i] \in E!Reading
      /\ walk[n] = E!Unread
      /\ \A i \in 1..n : walk[i - 1] = E!WalkBack(evs[i], walk[i])
  <2>1. \A i \in 1..n : i - 1 \in 0..n - 1 /\ (i - 1) + 1 = i
    BY <1>0
  <2> QED
    BY <1>0, <1>1, <2>1 DEF IsWalk
<1>3. /\ \A i \in t..n : h[i] \in Held
      /\ h[t] = Nothing /\ h[n] = z
      /\ \A i \in t + 1..n : Follows(h[i - 1], evs[i], h[i])
  BY <1>0 DEF Account
<1>4. n \in S
  <2>1. Agrees(E!Unread, z, z) /\ ~ E!Unread.prompting > 0
    BY DEF Agrees, E!Unread, Held
  <2> QED
    BY <1>0, <1>2, <1>3, <2>1
<1>5. \A i \in t + 1..n : i \in S => i - 1 \in S
  <2> SUFFICES ASSUME NEW i \in t + 1..n, Agrees(walk[i], h[i], z), walk[i].prompting > 0 => Asked(i)
               PROVE  /\ i - 1 \in t..n
                      /\ Agrees(walk[i - 1], h[i - 1], z)
                      /\ walk[i - 1].prompting > 0 => Asked(i - 1)
    BY <1>0
  <2>1. i \in 1..n /\ i \in t..n /\ i - 1 \in t..n /\ (i - 1) + 1 = i /\ i \in 0..n /\ i - 1 \in 0..n
    BY <1>0
  <2>2. walk[i] \in E!Reading /\ walk[i - 1] \in E!Reading /\ walk[i - 1] = E!WalkBack(evs[i], walk[i])
    BY <1>2, <2>1
  <2>3. h[i] \in Held /\ h[i - 1] \in Held /\ Follows(h[i - 1], evs[i], h[i]) /\ evs[i] \in E!Event
    BY <1>0, <1>3, <2>1
  <2>4. /\ Agrees(walk[i - 1], h[i - 1], z)
        /\ walk[i - 1].prompting > walk[i].prompting => evs[i].mark = "prompting"
    BY <2>2, <2>3, AgreesBefore
  <2>5. walk[i].prompting \in Nat /\ walk[i - 1].prompting \in Nat
    BY <2>2 DEF E!Reading
  <2>6. Asked(i) => Asked(i - 1)
    BY <1>0, <2>1
  <2>7. evs[i].mark = "prompting" => Asked(i - 1)
    BY <1>0, <2>1
  <2> HIDE DEF Asked
  <2> QED
    BY <2>1, <2>4, <2>5, <2>6, <2>7
<1>6. t..n \subseteq S
  <2> HIDE DEF S, n
  <2> QED
    BY <1>0, <1>4, <1>5, DownTo
<1>7. t \in S
  <2> HIDE DEF S
  <2> QED
    BY <1>0, <1>6
<1> QED
  BY <1>3, <1>7 DEF walk

(* Once the walk is over, nothing changes any more.                        *)
LEMMA OverStays ==
    ASSUME NEW evs \in Seq(E!Event), NEW k \in 0..Len(evs), E!Walk(evs)[k].over
    PROVE  E!Walk(evs)[0] = E!Walk(evs)[k]
<1> DEFINE walk == E!Walk(evs)
           S == {i \in 0..k : walk[i] = walk[k]}
<1>0. k \in Nat /\ Len(evs) \in Nat /\ k <= Len(evs) /\ 0 <= k
  OBVIOUS
<1>1. IsWalk(walk, evs, 0)
  BY WalkIs
<1>2. \A i \in 0+1..k : i \in S => i - 1 \in S
  <2> SUFFICES ASSUME NEW i \in 1..k, walk[i] = walk[k] PROVE walk[i - 1] = walk[k]
    BY <1>0
  <2> HIDE DEF walk
  <2>1. i - 1 \in 0..Len(evs) - 1 /\ (i - 1) + 1 = i /\ i \in 1..Len(evs) /\ k \in 0..Len(evs)
    BY <1>0
  <2>2. walk[i - 1] = E!WalkBack(evs[i], walk[i]) /\ walk[i] \in E!Reading /\ evs[i] \in E!Event
    BY <1>0, <1>1, <2>1 DEF IsWalk
  <2>3. walk[i].over
    BY DEF walk
  <2> QED
    BY <2>2, <2>3, WalkBackIs
<1>3. 0 \in S
  <2>1. k \in S
    BY <1>0
  <2> HIDE DEF S
  <2>2. 0..k \subseteq S
    BY <1>0, <1>2, <2>1, DownTo
  <2> QED
    BY <1>0, <2>2
<1> QED
  BY <1>3

(* What is before the start of a turn is history.                          *)
LEMMA StartIsFirst ==
    ASSUME NEW evs \in Seq(E!Event), NEW t \in 1..Len(evs), evs[t].type = "turn_start",
           t = 1 \/ evs[t - 1].type = "turn_end"
    PROVE  /\ E!Walk(evs)[0].waiting = E!Walk(evs)[t].waiting
           /\ E!Walk(evs)[0].completed = E!Walk(evs)[t].completed
           /\ E!Walk(evs)[0].prompting = E!Walk(evs)[t].prompting
<1> DEFINE walk == E!Walk(evs)
<1>0. t \in Nat /\ Len(evs) \in Nat /\ t - 1 \in 0..Len(evs) - 1 /\ (t - 1) + 1 = t /\ t - 1 \in 0..Len(evs)
  OBVIOUS
<1>1. /\ walk \in [0..Len(evs) -> E!Reading]
      /\ \A i \in 0..Len(evs) - 1 : walk[i] = E!WalkBack(evs[i + 1], walk[i + 1])
  BY WalkIs DEF IsWalk
<1>2. walk[t] \in E!Reading /\ walk[t - 1] \in E!Reading /\ evs[t] \in E!Event
  BY <1>0, <1>1
<1>3. walk[t - 1] = walk[t]
  <2>1. walk[t - 1] = E!WalkBack(evs[t], walk[t])
    BY <1>0, <1>1
  <2> HIDE DEF walk
  <2>2. walk[t].over \in BOOLEAN
    BY <1>2 DEF E!Reading
  <2> QED
    BY <1>2, <2>1, <2>2, WalkBackIs
<1>4. CASE walk[t].over
  BY <1>4, OverStays
<1>5. CASE ~ walk[t].over /\ t = 1
  BY <1>3, <1>5
<1>6. CASE ~ walk[t].over /\ t # 1
  <2>1. t - 2 \in 0..Len(evs) - 1 /\ (t - 2) + 1 = t - 1 /\ t - 1 \in 1..Len(evs) /\ t - 2 \in 0..Len(evs)
    BY <1>0, <1>6
  <2>2. walk[t - 2] = E!WalkBack(evs[t - 1], walk[t - 1]) /\ evs[t - 1] \in E!Event
    BY <1>1, <2>1
  <2>3. walk[t - 2] = [walk[t] EXCEPT !.over = TRUE]
    <3> HIDE DEF walk
    <3>1. evs[t - 1].type = "turn_end" /\ ~ walk[t].over
      BY <1>6
    <3>2. E!WalkBack(evs[t - 1], walk[t]) = [walk[t] EXCEPT !.over = TRUE]
      BY <1>2, <2>2, <3>1, WalkBackIs
    <3> QED
      BY <1>3, <2>2, <3>2
  <2>4. /\ walk[t - 2].over /\ walk[t - 2].waiting = walk[t].waiting
        /\ walk[t - 2].completed = walk[t].completed /\ walk[t - 2].prompting = walk[t].prompting
    <3> HIDE DEF walk
    <3> QED
      BY <1>2, <2>3 DEF E!Reading
  <2>5. walk[0] = walk[t - 2]
    BY <2>1, <2>4, OverStays
  <2> HIDE DEF walk
  <2> QED
    BY <2>4, <2>5 DEF walk
<1> QED
  BY <1>4, <1>5, <1>6

LEMMA LatestIs ==
    ASSUME NEW evs \in Seq(E!Event), NEW type
    PROVE  /\ E!Latest(evs, type) \in 0..Len(evs)
           /\ E!Latest(evs, type) > 0 => evs[E!Latest(evs, type)].type = type
           /\ \A i \in 1..Len(evs) : evs[i].type = type => i <= E!Latest(evs, type)
<1> DEFINE n == Len(evs)
           T == {0} \cup {i \in 1..n : evs[i].type = type}
           S == {i \in 0..n : \A j \in i..n : j \notin T}
<1>0. n \in Nat /\ 0 \in Nat /\ 0 <= n
  OBVIOUS
<1>1. \E x \in T : \A y \in T : x >= y
  <2> SUFFICES ASSUME \A x \in T : \E y \in T : ~ (x >= y) PROVE FALSE
    OBVIOUS
  <2>0. T \subseteq 0..n /\ 0 \in T
    BY <1>0
  <2> HIDE DEF T
  <2>1. n \in S
    <3>1. n \notin T
      BY <1>0, <2>0
    <3> HIDE DEF n
    <3> QED
      BY <1>0, <3>1
  <2>2. \A i \in 0+1..n : i \in S => i - 1 \in S
    <3> HIDE DEF n
    <3> SUFFICES ASSUME NEW i \in 1..n, \A j \in i..n : j \notin T
                 PROVE  i - 1 \in 0..n /\ \A j \in i - 1..n : j \notin T
      BY <1>0
    <3>1. i - 1 \in 0..n /\ \A j \in i - 1..n : j = i - 1 \/ j \in i..n
      BY <1>0
    <3>2. i - 1 \notin T
      <4> SUFFICES ASSUME i - 1 \in T PROVE FALSE
        OBVIOUS
      <4>1. PICK y \in T : ~ (i - 1 >= y)
        OBVIOUS
      <4>2. y \in i..n
        BY <1>0, <2>0, <4>1
      <4> QED
        BY <4>1, <4>2
    <3> QED
      BY <3>1, <3>2
  <2>3. 0..n \subseteq S
    <3> HIDE DEF S, n
    <3> QED
      BY <1>0, <2>1, <2>2, DownTo
  <2>4. 0 \in S
    BY <1>0, <2>3
  <2>5. 0 \in 0..n
    BY <1>0
  <2> QED
    BY <2>0, <2>4, <2>5
<1>2. E!Latest(evs, type) \in T /\ \A y \in T : E!Latest(evs, type) >= y
  <2> DEFINE max == CHOOSE x \in T : \A y \in T : x >= y
  <2>1. max \in T /\ \A y \in T : max >= y
    <3> HIDE DEF T
    <3> QED
      BY <1>1
  <2>2. E!Latest(evs, type) = max
    BY DEF E!Latest, E!Max
  <2> QED
    BY <2>1, <2>2
<1> QED
  <2> DEFINE l == E!Latest(evs, type)
  <2>1. l \in T /\ \A y \in T : l >= y
    BY <1>2
  <2> HIDE DEF l
  <2>2. l \in 0..n /\ (l > 0 => evs[l].type = type)
    BY <1>0, <2>1
  <2>3. \A i \in 1..n : evs[i].type = type => i <= l
    BY <1>0, <2>1, <2>2
  <2> QED
    BY <2>2, <2>3 DEF l

(* The last turn that the log shows to start is the one that goes on, and  *)
(* what has been logged since accounts for what it holds.                  *)
TurnLogged(evs, z) ==
    \A t \in 1..Len(evs) :
       evs[t].type = "turn_start" /\ (\A i \in t + 1..Len(evs) : evs[i].type # "turn_start") =>
          /\ t = 1 \/ evs[t - 1].type \in {"turn_end", "shutdown"}
          /\ \E h : Account(h, evs, t, z)

(* Between turns the log ends with the end of one, or of the agent.        *)
Rests(evs) == evs = <<>> \/ evs[Len(evs)].type \in {"turn_end", "shutdown"}

LEMMA AccountTypes ==
    ASSUME NEW h, NEW evs \in Seq(E!Event), NEW t \in 1..Len(evs), NEW z, Account(h, evs, t, z),
           NEW i \in t + 1..Len(evs)
    PROVE  evs[i].type \in {"start", "complete", "requested", "completed", "user_requested"}
<1>1. Follows(h[i - 1], evs[i], h[i])
  BY DEF Account
<1> QED
  BY <1>1 DEF Follows

LEMMA ThisTurnIs ==
    ASSUME NEW evs \in Seq(E!Event)
    PROVE  /\ E!Latest(evs, "turn_end") \in 0..Len(evs)
           /\ E!ThisTurn(evs) \in Seq(E!Event)
           /\ Len(E!ThisTurn(evs)) = Len(evs) - E!Latest(evs, "turn_end")
           /\ \A i \in 1..Len(evs) - E!Latest(evs, "turn_end") :
                 E!ThisTurn(evs)[i] = evs[E!Latest(evs, "turn_end") + i]
<1> DEFINE end == E!Latest(evs, "turn_end")
<1>1. end \in 0..Len(evs) /\ Len(evs) \in Nat
  BY LatestIs
<1>2. E!ThisTurn(evs) = SubSeq(evs, end + 1, Len(evs))
  BY DEF E!ThisTurn
<1> HIDE DEF end
<1>3. \A i \in end + 1..Len(evs) : evs[i] \in E!Event
  BY <1>1
<1>4. /\ SubSeq(evs, end + 1, Len(evs)) \in Seq(E!Event)
      /\ Len(SubSeq(evs, end + 1, Len(evs))) = Len(evs) - end
      /\ \A i \in 1..Len(evs) - end : SubSeq(evs, end + 1, Len(evs))[i] = evs[end + i]
  <2>1. end + 1 \in Int /\ Len(evs) \in Int /\ end + 1 >= 1
    BY <1>1
  <2>2. CASE end + 1 <= Len(evs)
    <3>1. /\ SubSeq(evs, end + 1, Len(evs)) \in Seq(E!Event)
          /\ Len(SubSeq(evs, end + 1, Len(evs))) = Len(evs) - (end + 1) + 1
          /\ \A i \in 1..Len(evs) - (end + 1) + 1 :
                SubSeq(evs, end + 1, Len(evs))[i] = evs[end + 1 + i - 1]
      BY <1>1, <1>3, <2>1, <2>2, SubSeqProperties
    <3>2. Len(evs) - (end + 1) + 1 = Len(evs) - end
      BY <1>1
    <3>3. \A i \in 1..Len(evs) - end : end + 1 + i - 1 = end + i
      BY <1>1
    <3> QED
      BY <3>1, <3>2, <3>3
  <2>3. CASE ~ (end + 1 <= Len(evs))
    <3>1. end = Len(evs)
      BY <1>1, <2>3
    <3>2. SubSeq(evs, end + 1, Len(evs)) = <<>>
      BY <1>1, <2>3
    <3> QED
      BY <1>1, <3>1, <3>2
  <2> QED
    BY <2>2, <2>3
<1> QED
  BY <1>1, <1>2, <1>4 DEF end

(* What is made of a log that tells what a turn is at.                     *)
LEMMA TurnClassified ==
    ASSUME NEW evs \in Seq(E!Event), NEW a \in AgentType, a.turn, E!Tells(a, evs), MaxOpen \in Nat,
           TurnLogged(evs, Holding(a))
    PROVE  IF E!Asking(a) THEN E!classifyFromEvents(evs) = "waiting"
           ELSE \/ E!classifyFromEvents(evs) = "working"
                \/ E!classifyFromEvents(evs) = "waiting" /\ E!Blurred(a, evs)
                \/ E!Tied(evs)
<1> DEFINE n == Len(evs)
           turn == E!ThisTurn(evs)
           end == E!Latest(evs, "turn_end")
           t == end + E!Latest(turn, "turn_start")
           z == Holding(a)
           w == E!Walk(evs)[t]
<1>1. /\ end \in 0..n /\ n \in Nat
      /\ turn \in Seq(E!Event) /\ Len(turn) = n - end
      /\ \A i \in 1..n - end : turn[i] = evs[end + i]
  <2>1. Len(evs) \in Nat
    OBVIOUS
  <2> QED
    BY <2>1, ThisTurnIs
<1>2. E!Latest(turn, "turn_start") > 0 /\ E!Latest(evs, "shutdown") = 0
  BY DEF E!Tells
<1>3. /\ E!Latest(turn, "turn_start") \in 1..n - end
      /\ turn[E!Latest(turn, "turn_start")].type = "turn_start"
      /\ \A i \in 1..n - end : turn[i].type = "turn_start" => i <= E!Latest(turn, "turn_start")
  <2> HIDE DEF turn, end
  <2>1. /\ E!Latest(turn, "turn_start") \in 0..Len(turn)
        /\ E!Latest(turn, "turn_start") > 0 => turn[E!Latest(turn, "turn_start")].type = "turn_start"
        /\ \A i \in 1..Len(turn) : turn[i].type = "turn_start" => i <= E!Latest(turn, "turn_start")
    BY <1>1, LatestIs
  <2> QED
    BY <1>1, <1>2, <2>1
<1>4. /\ t \in 1..n /\ t > end /\ evs[t].type = "turn_start" /\ evs[t] = turn[t - end]
      /\ \A i \in t + 1..n : evs[i].type # "turn_start"
      /\ \A i \in end + 1..n : evs[i] = turn[i - end] /\ i - end \in 1..n - end
  <2> DEFINE l == E!Latest(turn, "turn_start")
  <2> HIDE DEF turn, end, l
  <2>0. t = end + l
    BY DEF l
  <2>1. l \in 1..n - end /\ turn[l].type = "turn_start"
        /\ \A i \in 1..n - end : turn[i].type = "turn_start" => i <= l
    BY <1>3 DEF l
  <2> HIDE DEF t
  <2>2. t \in 1..n /\ t > end /\ t - end = l
    BY <1>1, <2>0, <2>1
  <2>3. \A i \in end + 1..n : i - end \in 1..n - end /\ end + (i - end) = i
    BY <1>1
  <2>4. \A i \in end + 1..n : evs[i] = turn[i - end]
    BY <1>1, <2>3
  <2>5. \A i \in t + 1..n : i \in end + 1..n /\ ~ (i - end <= l)
    BY <1>1, <2>2
  <2> QED
    BY <1>1, <2>1, <2>2, <2>3, <2>4, <2>5
<1> HIDE DEF t, end, turn
<1>5. /\ t = 1 \/ evs[t - 1].type = "turn_end"
      /\ \E h : Account(h, evs, t, z)
  <2>1. /\ t = 1 \/ evs[t - 1].type \in {"turn_end", "shutdown"}
        /\ \E h : Account(h, evs, t, z)
    BY <1>4 DEF TurnLogged
  <2>2. t # 1 => t - 1 \in 1..n
    BY <1>1, <1>4
  <2>3. \A i \in 1..n : evs[i].type # "shutdown"
    <3>1. \A i \in 1..n : evs[i].type = "shutdown" => i <= 0
      BY <1>2, LatestIs
    <3> QED
      BY <1>1, <3>1
  <2> QED
    BY <2>1, <2>2, <2>3
<1>6. PICK h : Account(h, evs, t, z)
  BY <1>5
<1>7. /\ a.asks \in Nat /\ a.tools \in Nat /\ a.perms \in Nat /\ a.demand \in BOOLEAN
      /\ z.asks = a.asks /\ z.tools = a.tools /\ z.perms = a.perms /\ z.demand = a.demand
      /\ z \in Held
  BY DEF AgentType, Holding, Held
<1> HIDE DEF z
<1>8. Agrees(w, Nothing, z) /\ (w.prompting > 0 => \E i \in t + 1..n : evs[i].mark = "prompting")
  BY <1>4, <1>6, <1>7, WalkAgrees
<1>9. /\ w.completed \in Nat /\ w.prompting \in Nat /\ w.permCompleted \in Nat
      /\ w.over \in BOOLEAN /\ w.waiting \in BOOLEAN
  <2>1. t \in 0..n
    BY <1>1, <1>4
  <2>2. w \in E!Reading
    BY <2>1, WalkIs DEF IsWalk
  <2> HIDE DEF w
  <2> QED
    BY <2>2 DEF E!Reading
<1>a. /\ w.over => w.waiting /\ (a.perms > 0 \/ a.demand)
      /\ ~ w.over => /\ ~ w.waiting
                     /\ w.permCompleted + a.perms = 0
                     /\ ~ a.demand
                     /\ w.completed + a.asks <= w.prompting
                     /\ a.asks = 0 => w.prompting <= w.completed + a.tools
  <2>1. Nothing.asks = 0 /\ Nothing.tools = 0 /\ Nothing.perms = 0 /\ Nothing.demand = FALSE
    BY DEF Nothing
  <2>2. /\ w.over => w.waiting /\ (a.perms > 0 \/ a.demand)
        /\ ~ w.over => /\ ~ w.waiting
                       /\ w.permCompleted + a.perms = Nothing.perms
                       /\ Nothing.demand = a.demand
                       /\ w.completed + a.asks <= Nothing.tools + Nothing.asks + w.prompting
                       /\ a.asks = 0 => w.prompting + Nothing.asks + Nothing.tools <= w.completed + a.tools
    BY <1>7, <1>8 DEF Agrees
  <2> HIDE DEF w
  <2>3. CASE w.over
    BY <2>2, <2>3
  <2>4. CASE ~ w.over
    BY <1>7, <1>9, <2>1, <2>2, <2>4
  <2> QED
    BY <1>9, <2>3, <2>4
<1>10. E!Waiting(evs) <=> (w.waiting \/ w.completed < w.prompting)
  BY <1>4, <1>5, StartIsFirst DEF E!Waiting
<1> HIDE DEF w
<1>11. CASE E!Asking(a)
  <2>1. a.asks > 0 \/ a.perms > 0 \/ a.demand
    BY <1>11 DEF E!Asking
  <2>2. w.waiting \/ w.completed < w.prompting
    <3>1. CASE w.over
      BY <1>a, <3>1
    <3>2. CASE ~ w.over
      <4>1. ~ a.demand /\ w.permCompleted + a.perms = 0 /\ w.completed + a.asks <= w.prompting
        BY <1>a, <3>2
      <4>2. a.perms = 0
        BY <1>7, <1>9, <4>1
      <4>3. a.asks > 0
        BY <2>1, <4>1, <4>2
      <4> QED
        BY <1>7, <1>9, <4>1, <4>3
    <3> QED
      BY <1>9, <3>1, <3>2
  <2> QED
    BY <1>2, <1>10, <1>11, <2>2 DEF E!classifyFromEvents
<1>12. CASE ~ E!Asking(a)
  <2>1. a.asks = 0 /\ a.perms = 0 /\ ~ a.demand
    BY <1>7, <1>12 DEF E!Asking
  <2>2. CASE w.waiting \/ w.completed < w.prompting
    <3>1. a.tools > 0 /\ w.prompting > 0
      BY <1>7, <1>9, <1>a, <2>1, <2>2
    <3>2. PICK i \in t + 1..n : evs[i].mark = "prompting"
      BY <1>8, <3>1
    <3>3. i \in end + 1..n
      BY <1>1, <1>4
    <3>4. i - end \in 1..Len(turn) /\ turn[i - end].mark = "prompting"
      BY <1>1, <1>4, <3>2, <3>3
    <3>5. DOMAIN turn = 1..Len(turn)
      BY <1>1
    <3>6. E!Blurred(a, evs)
      BY <3>1, <3>4, <3>5 DEF E!Blurred, turn
    <3>7. E!classifyFromEvents(evs) = "waiting"
      BY <1>2, <1>10, <2>2 DEF E!classifyFromEvents
    <3> QED
      BY <1>12, <3>6, <3>7
  <2>3. CASE ~ (w.waiting \/ w.completed < w.prompting) /\ evs[t].mark # "tied"
    <3>1. E!Latest(evs, "turn_start") = t
      <4>1. /\ E!Latest(evs, "turn_start") \in 0..n
            /\ E!Latest(evs, "turn_start") > 0 => evs[E!Latest(evs, "turn_start")].type = "turn_start"
            /\ t <= E!Latest(evs, "turn_start")
        BY <1>4, LatestIs
      <4>2. E!Latest(evs, "turn_start") \notin t + 1..n
        BY <1>1, <1>4, <4>1
      <4> QED
        BY <1>1, <1>4, <4>1, <4>2
    <3>2. E!MidTurn(evs)
      BY <1>4, <2>3, <3>1 DEF E!MidTurn, end
    <3> QED
      BY <1>2, <1>10, <1>12, <2>3, <3>2 DEF E!classifyFromEvents
  <2>4. CASE evs[t].mark = "tied"
    <3>1. t \in end + 1..n
      BY <1>1, <1>4
    <3>2. t - end \in 1..Len(turn) /\ turn[t - end].mark = "tied"
      BY <1>1, <1>4, <2>4, <3>1
    <3>3. DOMAIN turn = 1..Len(turn)
      BY <1>1
    <3>4. E!Tied(evs)
      BY <3>2, <3>3 DEF E!Tied, turn
    <3> QED
      BY <1>12, <3>4
  <2> QED
    BY <2>2, <2>3, <2>4
<1> QED
  BY <1>11, <1>12

(* What is made of a log that ends where the agent rests.                  *)
LEMMA IdleClassified ==
    ASSUME NEW evs \in Seq(E!Event), Rests(evs)
    PROVE  E!classifyFromEvents(evs) = IF E!Latest(evs, "shutdown") > 0 THEN "exited" ELSE "unknown"
<1> DEFINE n == Len(evs)
<1>0. n \in Nat /\ E!Latest(evs, "shutdown") \in 0..n
  BY LatestIs
<1>1. CASE E!Latest(evs, "shutdown") > 0
  BY <1>1 DEF E!classifyFromEvents
<1>2. CASE ~ (E!Latest(evs, "shutdown") > 0)
  <2>1. \A i \in 1..n : evs[i].type # "shutdown"
    <3>1. \A i \in 1..n : evs[i].type = "shutdown" => i <= E!Latest(evs, "shutdown")
      BY LatestIs
    <3> QED
      BY <1>0, <1>2, <3>1
  <2>2. /\ ~ E!Walk(evs)[0].waiting
        /\ E!Walk(evs)[0].completed = 0 /\ E!Walk(evs)[0].prompting = 0
    <3>1. IsWalk(E!Walk(evs), evs, 0)
      BY WalkIs
    <3>2. E!Unread \in E!Reading /\ ~ E!Unread.over
      BY DEF E!Unread, E!Reading
    <3>3. CASE evs = <<>>
      <4>1. n = 0
        BY <3>3
      <4>2. E!Walk(evs)[0] = E!Unread
        BY <3>1, <4>1 DEF IsWalk
      <4> QED
        BY <4>2 DEF E!Unread
    <3>4. CASE evs # <<>>
      <4>1. n \in 1..n /\ n - 1 \in 0..n - 1 /\ (n - 1) + 1 = n /\ n - 1 \in 0..n
        BY <3>4
      <4>2. evs[n].type = "turn_end" /\ evs[n] \in E!Event
        BY <2>1, <3>4, <4>1 DEF Rests
      <4>3. E!Walk(evs)[n - 1] = E!WalkBack(evs[n], E!Unread)
        BY <3>1, <4>1 DEF IsWalk
      <4>4. E!Walk(evs)[n - 1] = [E!Unread EXCEPT !.over = TRUE]
        BY <3>2, <4>2, <4>3, WalkBackIs
      <4>5. /\ E!Walk(evs)[n - 1].over /\ ~ E!Walk(evs)[n - 1].waiting
            /\ E!Walk(evs)[n - 1].completed = 0 /\ E!Walk(evs)[n - 1].prompting = 0
        BY <4>4 DEF E!Unread
      <4>6. E!Walk(evs)[0] = E!Walk(evs)[n - 1]
        BY <4>1, <4>5, OverStays
      <4> QED
        BY <4>5, <4>6
    <3> QED
      BY <3>3, <3>4
  <2>3. ~ E!MidTurn(evs)
    <3>1. E!Latest(evs, "turn_start") \in 0..n /\ E!Latest(evs, "turn_end") \in 0..n
          /\ \A i \in 1..n : evs[i].type = "turn_end" => i <= E!Latest(evs, "turn_end")
      BY LatestIs
    <3>2. n = 0 \/ n <= E!Latest(evs, "turn_end")
      BY <1>0, <2>1, <3>1 DEF Rests
    <3> QED
      BY <1>0, <3>1, <3>2 DEF E!MidTurn
  <2> QED
    BY <1>2, <2>2, <2>3 DEF E!classifyFromEvents, E!Waiting
<1> QED
  BY <1>0, <1>1, <1>2

(* A window holds the last events, the new one among them, unless the      *)
(* output of a tool fills it.                                              *)
LEMMA WindowIs ==
    ASSUME NEW log \in Seq(E!Event), NEW e \in E!Event, NEW w \in E!Windows(log, e), w # <<>>
    PROVE  \E l \in 0..Len(log) :
              /\ Len(w) = Len(log) + 1 - l
              /\ w[Len(w)] = e
              /\ \A i \in 1..Len(log) - l : w[i] = log[i + l]
<1> DEFINE s == Append(log, e)
           n == Len(log)
<1>1. s \in Seq(E!Event) /\ Len(s) = n + 1 /\ n \in Nat /\ s[n + 1] = e /\ \A i \in 1..n : s[i] = log[i]
  OBVIOUS
<1>2. PICK k \in 1..Len(s) : w = SubSeq(s, k, Len(s))
  BY DEF E!Windows, E!Suffixes
<1> DEFINE l == k - 1
<1>3. l \in 0..n /\ k = l + 1 /\ k \in 1..n + 1
  BY <1>1, <1>2
<1>4. \A i \in k..n + 1 : s[i] \in E!Event
  <2> HIDE DEF s
  <2> QED
    BY <1>1, <1>3
<1>5. Len(w) = n + 1 - k + 1 /\ \A i \in 1..n + 1 - k + 1 : w[i] = s[k + i - 1]
  <2> HIDE DEF s
  <2>1. k \in Int /\ n + 1 \in Int /\ k <= n + 1
    BY <1>1, <1>3
  <2>2. w = SubSeq(s, k, n + 1)
    BY <1>1, <1>2
  <2> QED
    BY <1>3, <1>4, <2>1, <2>2, SubSeqProperties
<1> HIDE DEF s, n, l
<1>6. Len(w) = n + 1 - l
  BY <1>1, <1>3, <1>5
<1>7. \A i \in 1..n + 1 - l : w[i] = s[i + l]
  <2>1. \A i \in 1..n + 1 - l : i \in 1..n + 1 - k + 1 /\ k + i - 1 = i + l
    BY <1>1, <1>3
  <2> QED
    BY <1>5, <2>1
<1>8. w[n + 1 - l] = e
  <2>1. n + 1 - l \in 1..n + 1 - l /\ (n + 1 - l) + l = n + 1
    BY <1>1, <1>3
  <2> QED
    BY <1>1, <1>7, <2>1
<1>9. \A i \in 1..n - l : w[i] = log[i + l]
  <2>1. \A i \in 1..n - l : i \in 1..n + 1 - l /\ i + l \in 1..n
    BY <1>1, <1>3
  <2> QED
    BY <1>1, <1>7, <2>1
<1> QED
  BY <1>3, <1>6, <1>8, <1>9 DEF n

LEMMA WindowRests ==
    ASSUME NEW log \in Seq(E!Event), NEW e \in E!Event, NEW w \in E!Windows(log, e),
           e.type \in {"turn_end", "shutdown"}
    PROVE  w # <<>> /\ w[Len(w)] = e /\ Rests(w)
<1>1. w # <<>>
  BY DEF E!Windows
<1> QED
  BY <1>1, WindowIs DEF Rests

(* A turn starts where the agent rested.                                   *)
LEMMA TurnBegins ==
    ASSUME NEW log \in Seq(E!Event), NEW e \in E!Event, NEW w \in E!Windows(log, e),
           e.type = "turn_start", Rests(log)
    PROVE  TurnLogged(w, Nothing)
<1>1. w \in Seq(E!Event) /\ w # <<>> /\ Len(w) \in Nat /\ Len(log) \in Nat
  <2>1. w \in Seq(E!Event)
    BY WindowType
  <2> QED
    BY <2>1 DEF E!Windows
<1>2. PICK l \in 0..Len(log) : /\ Len(w) = Len(log) + 1 - l
                               /\ w[Len(w)] = e
                               /\ \A i \in 1..Len(log) - l : w[i] = log[i + l]
  BY <1>1, WindowIs
<1> DEFINE m == Len(w)
<1> SUFFICES ASSUME NEW t \in 1..m, \A i \in t + 1..m : w[i].type # "turn_start"
             PROVE  /\ t = 1 \/ w[t - 1].type \in {"turn_end", "shutdown"}
                    /\ \E h : Account(h, w, t, Nothing)
  BY DEF TurnLogged
<1>3. t = m
  <2>1. m \notin t + 1..m
    BY <1>2
  <2> QED
    BY <1>1, <2>1
<1>4. t = 1 \/ w[t - 1].type \in {"turn_end", "shutdown"}
  <2> SUFFICES ASSUME t # 1 PROVE w[t - 1].type \in {"turn_end", "shutdown"}
    OBVIOUS
  <2>1. t - 1 \in 1..Len(log) - l /\ (t - 1) + l = Len(log) /\ Len(log) > 0
    BY <1>1, <1>2, <1>3
  <2>2. w[t - 1] = log[Len(log)]
    BY <1>2, <2>1
  <2> QED
    BY <2>1, <2>2 DEF Rests
<1>5. Account([i \in m..m |-> Nothing], w, t, Nothing)
  <2>1. Nothing \in Held
    BY DEF Nothing, Held
  <2>2. m..m = {m} /\ t + 1..m = {}
    BY <1>1, <1>3
  <2> QED
    BY <1>3, <2>1, <2>2 DEF Account
<1> QED
  BY <1>4, <1>5

(* What goes on in it is added to its account.                             *)
LEMMA TurnGoesOn ==
    ASSUME NEW log \in Seq(E!Event), NEW e \in E!Event, NEW w \in E!Windows(log, e),
           NEW a \in Held, NEW b \in Held, Follows(a, e, b), TurnLogged(log, a)
    PROVE  TurnLogged(w, b)
<1>0. w \in Seq(E!Event) /\ Len(w) \in Nat /\ Len(log) \in Nat
  <2>1. w \in Seq(E!Event)
    BY WindowType
  <2> QED
    BY <2>1
<1>1. CASE w = <<>>
  BY <1>1 DEF TurnLogged
<1>2. CASE w # <<>>
  <2> DEFINE m == Len(w)
             n == Len(log)
  <2>1. PICK l \in 0..n : m = n + 1 - l /\ w[m] = e /\ \A i \in 1..n - l : w[i] = log[i + l]
    BY <1>2, WindowIs
  <2> SUFFICES ASSUME NEW t \in 1..m, w[t].type = "turn_start",
                      \A i \in t + 1..m : w[i].type # "turn_start"
               PROVE  /\ t = 1 \/ w[t - 1].type \in {"turn_end", "shutdown"}
                      /\ \E h : Account(h, w, t, b)
    BY DEF TurnLogged
  <2> DEFINE u == t + l
  <2>2. e.type # "turn_start"
    BY DEF Follows
  <2>3. t # m
    BY <2>1, <2>2
  <2>4. t \in 1..n - l /\ u \in 1..n /\ w[t] = log[u]
    <3>1. t \in 1..n - l /\ u \in 1..n
      BY <1>0, <2>1, <2>3
    <3> QED
      BY <2>1, <3>1
  <2>5. \A i \in u + 1..n : log[i].type # "turn_start"
    <3> SUFFICES ASSUME NEW i \in u + 1..n PROVE log[i].type # "turn_start"
      OBVIOUS
    <3>1. i - l \in t + 1..m /\ i - l \in 1..n - l /\ (i - l) + l = i
      BY <1>0, <2>1, <2>4
    <3> QED
      BY <2>1, <3>1
  <2>6. /\ u = 1 \/ log[u - 1].type \in {"turn_end", "shutdown"}
        /\ \E h : Account(h, log, u, a)
    <3> HIDE DEF u
    <3> QED
      BY <2>4, <2>5 DEF TurnLogged
  <2>7. t = 1 \/ w[t - 1].type \in {"turn_end", "shutdown"}
    <3>1. t # 1 => t - 1 \in 1..n - l /\ (t - 1) + l = u - 1 /\ u # 1
      BY <1>0, <2>1, <2>4
    <3> QED
      BY <2>1, <2>6, <3>1
  <2>8. PICK h : Account(h, log, u, a)
    BY <2>6
  <2>9. /\ \A i \in u..n : h[i] \in Held
        /\ h[u] = Nothing /\ h[n] = a
        /\ \A i \in u + 1..n : Follows(h[i - 1], log[i], h[i])
    BY <2>8 DEF Account
  <2> DEFINE g == [i \in t..m |-> IF i = m THEN b ELSE h[i + l]]
  <2>10. /\ g[m] = b
         /\ \A i \in t..n - l : g[i] = h[i + l] /\ i + l \in u..n
         /\ \A i \in t..m : i = m \/ i \in t..n - l
    <3>1. /\ \A i \in t..n - l : i + l \in u..n /\ i \in t..m /\ i # m
          /\ \A i \in t..m : i = m \/ i \in t..n - l
          /\ m \in t..m
      BY <1>0, <2>1, <2>4
    <3> QED
      BY <3>1
  <2>11. g \in [t..m -> Held]
    BY <2>9, <2>10
  <2> HIDE DEF g
  <2>12. g[t] = Nothing
    <3>1. t \in t..n - l
      BY <1>0, <2>4
    <3> QED
      BY <2>9, <2>10, <3>1
  <2>13. ASSUME NEW i \in t + 1..m PROVE Follows(g[i - 1], w[i], g[i])
    <3>1. CASE i = m
      <4>1. i - 1 \in t..n - l /\ (i - 1) + l = n
        BY <1>0, <2>1, <2>4, <3>1
      <4>2. g[i - 1] = a /\ g[i] = b /\ w[i] = e
        BY <2>1, <2>9, <2>10, <3>1, <4>1
      <4> QED
        BY <4>2
    <3>2. CASE i # m
      <4>1. i \in t..n - l /\ i \in 1..n - l /\ i - 1 \in t..n - l /\ i + l \in u + 1..n /\ (i - 1) + l = (i + l) - 1
        BY <1>0, <2>1, <2>4, <2>13, <3>2
      <4>2. g[i - 1] = h[(i + l) - 1] /\ g[i] = h[i + l] /\ w[i] = log[i + l]
        BY <2>1, <2>10, <4>1
      <4> QED
        BY <2>9, <4>1, <4>2
    <3> QED
      BY <3>1, <3>2
  <2>14. Account(g, w, t, b)
    BY <2>11, <2>12, <2>13, <2>10 DEF Account
  <2> QED
    BY <2>7, <2>14
<1> QED
  BY <1>1, <1>2

(* What the log, the lock and the database show of an agent that was not   *)
(* killed since a turn last ended, or started.                             *)
Shows(evs, a, f) ==
    /\ a.turn => a.up
    /\ ~ a.turn => Holding(a) = Nothing
    /\ ~ a.killed => IF a.turn THEN TurnLogged(evs, Holding(a)) ELSE Rests(evs)
    /\ a.up => f.lock
    /\ ~ a.up /\ ~ a.killed => IF evs = <<>> THEN ~ f.lock /\ ~ f.db
                               ELSE evs[Len(evs)].type = "shutdown"

(* What begins or ends in a turn is logged as it does.                     *)
LEMMA InTurnFollows ==
    ASSUME E!TypeOK,
           \/ E!ToolStart \/ E!ToolComplete \/ E!AskStart \/ E!AskComplete
           \/ E!PermissionRequested \/ E!PermissionCompleted \/ E!UserRequested
    PROVE  /\ agent.turn /\ agent'.turn = agent.turn
           /\ agent'.up = agent.up /\ agent'.killed = agent.killed
           /\ Holding(agent) \in Held /\ Holding(agent') \in Held
           /\ \E e \in E!Event : E!Logs(e) /\ Follows(Holding(agent), e, Holding(agent'))
           /\ UNCHANGED <<files, load>> /\ E!Observed
<1> DEFINE Goes(e) == /\ agent.turn /\ agent'.turn = agent.turn
                      /\ agent'.up = agent.up /\ agent'.killed = agent.killed
                      /\ Holding(agent') \in Held
                      /\ E!Logs(e) /\ Follows(Holding(agent), e, Holding(agent'))
                      /\ UNCHANGED <<files, load>> /\ E!Observed
           start == [type |-> "start", mark |-> "other"]
           ask == [type |-> "start", mark |-> "prompting"]
<1>0. agent \in AgentType /\ MaxOpen \in Nat
  BY LogAssumption DEF E!TypeOK, AgentType, E!EventLogAssumption
<1>1. /\ agent.asks \in Nat /\ agent.tools \in Nat /\ agent.perms \in Nat /\ agent.demand \in BOOLEAN
      /\ Holding(agent) \in Held
  BY <1>0 DEF AgentType, Holding, Held
<1>2. CASE E!ToolStart
  <2>1. agent' = [agent EXCEPT !.tools = @ + 1]
    BY <1>2 DEF E!ToolStart, E!InTurn
  <2>2. Holding(agent') = [Holding(agent) EXCEPT !.tools = @ + 1] /\ Holding(agent') \in Held
    BY <1>0, <1>1, <2>1 DEF Holding, Held, AgentType
  <2>3. Follows(Holding(agent), start, Holding(agent'))
    BY <2>2 DEF Follows
  <2> QED
    BY <1>0, <1>1, <1>2, <2>1, <2>2, <2>3 DEF E!ToolStart, E!InTurn, AgentType, E!Event
<1>3. CASE E!ToolComplete
  <2>1. agent' = [agent EXCEPT !.tools = @ - 1] /\ agent.tools > 0
    BY <1>3 DEF E!ToolComplete, E!InTurn
  <2>2. Holding(agent') = [Holding(agent) EXCEPT !.tools = @ - 1] /\ Holding(agent') \in Held
        /\ Holding(agent).tools > 0
    BY <1>0, <1>1, <2>1 DEF Holding, Held, AgentType
  <2>3. Follows(Holding(agent), E!Logged("complete"), Holding(agent'))
    BY <2>2 DEF Follows, E!Logged
  <2> QED
    BY <1>0, <1>1, <1>3, <2>1, <2>2, <2>3 DEF E!ToolComplete, E!InTurn, AgentType, E!Event, E!Logged
<1>4. CASE E!AskStart
  <2>1. agent' = [agent EXCEPT !.asks = @ + 1]
    BY <1>4 DEF E!AskStart, E!InTurn
  <2>2. Holding(agent') = [Holding(agent) EXCEPT !.asks = @ + 1] /\ Holding(agent') \in Held
    BY <1>0, <1>1, <2>1 DEF Holding, Held, AgentType
  <2>3. Follows(Holding(agent), ask, Holding(agent'))
    BY <2>2 DEF Follows
  <2> QED
    BY <1>0, <1>1, <1>4, <2>1, <2>2, <2>3 DEF E!AskStart, E!InTurn, AgentType, E!Event
<1>5. CASE E!AskComplete
  <2>1. agent' = [agent EXCEPT !.asks = @ - 1] /\ agent.asks > 0
    BY <1>5 DEF E!AskComplete, E!InTurn
  <2>2. Holding(agent') = [Holding(agent) EXCEPT !.asks = @ - 1] /\ Holding(agent') \in Held
        /\ Holding(agent).asks > 0
    BY <1>0, <1>1, <2>1 DEF Holding, Held, AgentType
  <2>3. Follows(Holding(agent), E!Logged("complete"), Holding(agent'))
    BY <2>2 DEF Follows, E!Logged
  <2> QED
    BY <1>0, <1>1, <1>5, <2>1, <2>2, <2>3 DEF E!AskComplete, E!InTurn, AgentType, E!Event, E!Logged
<1>6. CASE E!PermissionRequested
  <2>1. agent' = [agent EXCEPT !.perms = @ + 1]
    BY <1>6 DEF E!PermissionRequested, E!InTurn
  <2>2. Holding(agent') = [Holding(agent) EXCEPT !.perms = @ + 1] /\ Holding(agent') \in Held
    BY <1>0, <1>1, <2>1 DEF Holding, Held, AgentType
  <2>3. Follows(Holding(agent), E!Logged("requested"), Holding(agent'))
    BY <2>2 DEF Follows, E!Logged
  <2> QED
    BY <1>0, <1>1, <1>6, <2>1, <2>2, <2>3 DEF E!PermissionRequested, E!InTurn, AgentType, E!Event, E!Logged
<1>7. CASE E!PermissionCompleted
  <2>1. agent' = [agent EXCEPT !.perms = @ - 1] /\ agent.perms > 0
    BY <1>7 DEF E!PermissionCompleted, E!InTurn
  <2>2. Holding(agent') = [Holding(agent) EXCEPT !.perms = @ - 1] /\ Holding(agent') \in Held
        /\ Holding(agent).perms > 0
    BY <1>0, <1>1, <2>1 DEF Holding, Held, AgentType
  <2>3. Follows(Holding(agent), E!Logged("completed"), Holding(agent'))
    BY <2>2 DEF Follows, E!Logged
  <2> QED
    BY <1>0, <1>1, <1>7, <2>1, <2>2, <2>3 DEF E!PermissionCompleted, E!InTurn, AgentType, E!Event, E!Logged
<1>8. CASE E!UserRequested
  <2>1. agent' = [agent EXCEPT !.demand = TRUE] /\ ~ agent.demand
    BY <1>8 DEF E!UserRequested
  <2>2. Holding(agent') = [Holding(agent) EXCEPT !.demand = TRUE] /\ Holding(agent') \in Held
        /\ ~ Holding(agent).demand
    <3>1. /\ agent'.demand = TRUE /\ agent'.asks = agent.asks
          /\ agent'.tools = agent.tools /\ agent'.perms = agent.perms
      BY <1>0, <2>1 DEF AgentType
    <3>2. Holding(agent') = [asks |-> agent.asks, tools |-> agent.tools, perms |-> agent.perms,
                             demand |-> TRUE]
      BY <3>1 DEF Holding
    <3>3. [Holding(agent) EXCEPT !.demand = TRUE] =
             [asks |-> agent.asks, tools |-> agent.tools, perms |-> agent.perms, demand |-> TRUE]
      <4> DEFINE g == [Holding(agent) EXCEPT !.demand = TRUE]
      <4> SUFFICES g = [asks |-> agent.asks, tools |-> agent.tools, perms |-> agent.perms,
                        demand |-> TRUE]
        OBVIOUS
      <4>1. g.asks = agent.asks /\ g.tools = agent.tools /\ g.perms = agent.perms /\ g.demand = TRUE
        BY DEF Holding
      <4>2. g \in Held
        BY <1>1 DEF Held
      <4> HIDE DEF g
      <4>3. g = [asks |-> g.asks, tools |-> g.tools, perms |-> g.perms, demand |-> g.demand]
        BY <4>2 DEF Held
      <4> QED
        BY <4>1, <4>3
    <3>4. Holding(agent') \in Held
      BY <1>1, <3>2 DEF Held
    <3>5. ~ Holding(agent).demand
      BY <2>1 DEF Holding
    <3> QED
      BY <3>2, <3>3, <3>4, <3>5
  <2>3. Follows(Holding(agent), E!Logged("user_requested"), Holding(agent'))
    BY <2>2 DEF Follows, E!Logged
  <2> QED
    BY <1>0, <1>1, <1>8, <2>1, <2>2, <2>3 DEF E!UserRequested, AgentType, E!Event, E!Logged
<1> QED
  BY <1>2, <1>3, <1>4, <1>5, <1>6, <1>7, <1>8

(* The agent's steps: they leave the load alone, which observes them.      *)
LEMMA AgentShows ==
    ASSUME E!TypeOK, Shows(tail, agent, files),
           \/ E!Launch \/ E!TurnStart \/ E!ToolStart \/ E!ToolComplete \/ E!AskStart \/ E!AskComplete
           \/ E!PermissionRequested \/ E!PermissionCompleted \/ E!UserRequested \/ E!TurnEnd
           \/ E!Shutdown \/ E!Die
    PROVE  /\ Shows(tail', agent', files')
           /\ agent.up \/ (agent'.up /\ files'.db = files.db /\ E!Truth(agent', tail') = "active")
           /\ agent'.up \/ agent'.killed \/ tail' # <<>>
           /\ UNCHANGED load /\ E!Observed
<1>0. /\ tail \in Seq(E!Event) /\ agent \in AgentType
      /\ files \in [row : BOOLEAN, lock : BOOLEAN, db : BOOLEAN]
      /\ MaxOpen \in Nat
  BY LogAssumption DEF E!TypeOK, AgentType, E!EventLogAssumption
<1>1. /\ Holding(E!Down) = Nothing
      /\ Holding([E!Down EXCEPT !.up = TRUE]) = Nothing
      /\ Holding([E!Down EXCEPT !.killed = TRUE]) = Nothing
      /\ Holding([E!Down EXCEPT !.up = TRUE, !.killed = agent.killed]) = Nothing
  BY DEF Holding, Nothing, E!Down
<1>2. CASE E!Launch
  <2>1. /\ agent'.up /\ ~ agent'.turn /\ agent'.killed = agent.killed /\ ~ agent.up /\ ~ agent.turn
        /\ agent'.asks = 0 /\ agent'.perms = 0 /\ ~ agent'.demand
        /\ Holding(agent') = Nothing /\ tail' = tail
        /\ files'.lock /\ files'.db = files.db
    BY <1>0, <1>1, <1>2 DEF E!Launch, E!Down, AgentType, Shows
  <2>2. E!Truth(agent', tail') = "active"
    BY <2>1 DEF E!Truth, E!Asking
  <2> QED
    BY <1>2, <2>1, <2>2 DEF E!Launch, Shows
<1>3. CASE E!TurnStart
  <2>1. PICK e \in E!Event : e.type = "turn_start" /\ E!Logs(e)
    BY <1>3 DEF E!TurnStart, E!Event
  <2>2. tail' \in E!Windows(tail, e)
    BY <2>1 DEF E!Logs
  <2>3. /\ agent'.up /\ agent.up /\ agent'.turn /\ ~ agent.turn /\ agent'.killed = agent.killed
        /\ Holding(agent') = Holding(agent) /\ files'.lock = files.lock
    BY <1>0, <1>3 DEF E!TurnStart, AgentType, Holding
  <2>4. ~ agent.killed => TurnLogged(tail', Nothing)
    BY <1>0, <2>1, <2>2, <2>3, TurnBegins DEF Shows
  <2> QED
    BY <1>3, <2>3, <2>4 DEF E!TurnStart, Shows
<1>4. CASE \/ E!ToolStart \/ E!ToolComplete \/ E!AskStart \/ E!AskComplete
           \/ E!PermissionRequested \/ E!PermissionCompleted \/ E!UserRequested
  <2>1. /\ agent.turn /\ agent'.turn = agent.turn
        /\ agent'.up = agent.up /\ agent'.killed = agent.killed
        /\ Holding(agent) \in Held /\ Holding(agent') \in Held
        /\ UNCHANGED <<files, load>> /\ E!Observed
    BY <1>4, InTurnFollows
  <2>2. PICK e \in E!Event : E!Logs(e) /\ Follows(Holding(agent), e, Holding(agent'))
    BY <1>4, InTurnFollows
  <2>3. tail' \in E!Windows(tail, e)
    BY <2>2 DEF E!Logs
  <2>4. ~ agent.killed => TurnLogged(tail', Holding(agent'))
    BY <1>0, <2>1, <2>2, <2>3, TurnGoesOn DEF Shows
  <2> QED
    BY <2>1, <2>4 DEF Shows
<1>5. CASE E!TurnEnd
  <2>1. E!Logged("turn_end") \in E!Event /\ E!Logged("turn_end").type = "turn_end"
    BY DEF E!Logged, E!Event
  <2>2. tail' \in E!Windows(tail, E!Logged("turn_end"))
    BY <1>5 DEF E!TurnEnd, E!Logs
  <2>3. Rests(tail')
    BY <1>0, <2>1, <2>2, WindowRests
  <2>4. agent'.up /\ agent.up /\ ~ agent'.turn /\ Holding(agent') = Nothing /\ files' = files /\ files.lock
    BY <1>0, <1>1, <1>5 DEF E!TurnEnd, E!Down, Shows
  <2> QED
    BY <1>5, <2>3, <2>4 DEF E!TurnEnd, Shows
<1>6. CASE E!Shutdown
  <2>1. E!Logged("shutdown") \in E!Event /\ E!Logged("shutdown").type = "shutdown"
    BY DEF E!Logged, E!Event
  <2>2. tail' \in E!Windows(tail, E!Logged("shutdown"))
    BY <1>6 DEF E!Shutdown, E!Logs
  <2>3. tail' # <<>> /\ tail'[Len(tail')].type = "shutdown" /\ Rests(tail')
    BY <1>0, <2>1, <2>2, WindowRests
  <2>4. ~ agent'.up /\ agent.up /\ ~ agent'.turn /\ Holding(agent') = Nothing
    BY <1>1, <1>6 DEF E!Shutdown, E!Down
  <2> QED
    BY <1>6, <2>3, <2>4 DEF E!Shutdown, Shows
<1>7. CASE E!Die
  <2>1. agent.up /\ ~ agent'.up /\ ~ agent'.turn /\ agent'.killed /\ Holding(agent') = Nothing
    BY <1>1, <1>7 DEF E!Die, E!Down
  <2> QED
    BY <1>7, <2>1 DEF E!Die, Shows
<1> QED
  BY <1>2, <1>3, <1>4, <1>5, <1>6, <1>7

(* A sound reading of the log is what the session is, or leaves open what  *)
(* it is not to tell.                                                      *)
LEMMA SoundReading ==
    ASSUME E!TypeOK, Shows(tail, agent, files), E!Sound(agent, tail)
    PROVE  IF E!classifyFromEvents(tail) = "unknown"
           THEN E!Truth(agent, tail) = "active" \/ (~ agent.up /\ tail = <<>> /\ ~ files.db)
           ELSE E!classifyFromEvents(tail) = E!Truth(agent, tail)
<1>0. tail \in Seq(E!Event) /\ agent \in AgentType /\ MaxOpen \in Nat /\ ~ agent.killed
  BY LogAssumption DEF E!TypeOK, AgentType, E!EventLogAssumption, E!Sound
<1>1. CASE agent.turn
  <2>1. agent.up /\ TurnLogged(tail, Holding(agent))
    BY <1>0, <1>1 DEF Shows
  <2>2. E!Tells(agent, tail) /\ ~ E!Blurred(agent, tail) /\ ~ E!Tied(tail)
    BY <2>1 DEF E!Sound
  <2>3. IF E!Asking(agent) THEN E!classifyFromEvents(tail) = "waiting"
        ELSE E!classifyFromEvents(tail) = "working"
    BY <1>0, <1>1, <2>1, <2>2, TurnClassified
  <2> QED
    BY <1>1, <2>1, <2>3 DEF E!Truth
<1>2. CASE ~ agent.turn /\ agent.up
  <2>1. Rests(tail) /\ Holding(agent) = Nothing
    BY <1>0, <1>2 DEF Shows
  <2>2. agent.asks = 0 /\ agent.perms = 0 /\ ~ agent.demand
    BY <2>1 DEF Holding, Nothing
  <2>3. E!Truth(agent, tail) = "active"
    BY <1>2, <2>2 DEF E!Truth, E!Asking
  <2>4. ~ (E!Latest(tail, "shutdown") > 0)
    BY <1>2 DEF E!Sound, E!Tells
  <2> QED
    BY <1>0, <2>1, <2>3, <2>4, IdleClassified
<1>3. CASE ~ agent.up
  <2>1. Rests(tail) /\ (IF tail = <<>> THEN ~ files.lock /\ ~ files.db
                        ELSE tail[Len(tail)].type = "shutdown")
    BY <1>0, <1>3 DEF Shows
  <2>2. CASE E!Latest(tail, "shutdown") > 0
    BY <1>0, <1>3, <2>1, <2>2, IdleClassified DEF E!Truth
  <2>3. CASE ~ (E!Latest(tail, "shutdown") > 0)
    <3>1. tail = <<>>
      <4> SUFFICES ASSUME tail # <<>> PROVE FALSE
        OBVIOUS
      <4>1. Len(tail) \in 1..Len(tail) /\ tail[Len(tail)].type = "shutdown"
        BY <1>0, <2>1
      <4>2. Len(tail) <= E!Latest(tail, "shutdown") /\ E!Latest(tail, "shutdown") \in 0..Len(tail)
        BY <1>0, <4>1, LatestIs
      <4> QED
        BY <1>0, <2>3, <4>1, <4>2
    <3> QED
      BY <1>0, <1>3, <2>1, <2>3, <3>1, IdleClassified
  <2> QED
    BY <2>2, <2>3
<1> QED
  BY <1>1, <1>2, <1>3

(* What a load has read so far was so at some time since it began.         *)
Loaded ==
    /\ load.pc # "idle" => E!Truth(agent, tail) \in been
    /\ load.pc \in {"idle", "discover", "pid", "events"} => ~ load.sound
    /\ load.pc \in {"idle", "discover", "pid"} => ~ load.pid
    /\ load.pc \in {"pid", "events", "lsof"} => load.listed
    /\ load.pc \in {"events", "lsof"} /\ ~ load.pid => "inactive" \in been \/ "exited" \in been
    /\ ~ agent.up /\ ~ agent.killed /\ tail = <<>> => ~ load.pid
    /\ load.pc = "lsof" /\ load.sound => "active" \in been \/ (~ agent.up /\ ~ files.db /\ ~ load.pid)
    /\ E!ReportIsTrue

LogInv == E!TypeOK /\ Shows(tail, agent, files) /\ Loaded

LEMMA LogInvInit == E!Init => LogInv
<1> SUFFICES ASSUME E!Init PROVE LogInv
  OBVIOUS
<1>1. Shows(tail, agent, files)
  BY DEF E!Init, Shows, E!Down, Holding, Nothing, Rests
<1>2. Loaded
  BY DEF E!Init, Loaded, E!ReportIsTrue, E!Resting, E!Down
<1> QED
  BY <1>1, <1>2, LogInit DEF LogInv

LEMMA LogInvNext == LogInv /\ [E!Next]_E!vars => LogInv'
<1> SUFFICES ASSUME LogInv, [E!Next]_E!vars PROVE LogInv'
  OBVIOUS
<1>0. E!TypeOK /\ Shows(tail, agent, files) /\ Loaded
  BY DEF LogInv
<1>1. E!TypeOK'
  BY <1>0, LogTypes
<1>2. /\ load \in LoadType /\ agent \in AgentType /\ been \subseteq E!State
      /\ files \in [row : BOOLEAN, lock : BOOLEAN, db : BOOLEAN]
  BY <1>0 DEF E!TypeOK, LoadType, AgentType
<1>3. ASSUME Shows(tail', agent', files'), Loaded' PROVE LogInv'
  BY <1>1, <1>3 DEF LogInv, Shows, TurnLogged, Rests, Account, Follows, Holding
<1>4. CASE \/ E!Launch \/ E!TurnStart \/ E!ToolStart \/ E!ToolComplete \/ E!AskStart \/ E!AskComplete
           \/ E!PermissionRequested \/ E!PermissionCompleted \/ E!UserRequested \/ E!TurnEnd
           \/ E!Shutdown \/ E!Die
  <2>1. /\ Shows(tail', agent', files')
        /\ agent.up \/ (agent'.up /\ files'.db = files.db /\ E!Truth(agent', tail') = "active")
        /\ agent'.up \/ agent'.killed \/ tail' # <<>>
        /\ UNCHANGED load /\ E!Observed
    BY <1>0, <1>4, AgentShows
  <2>2. load.pc # "idle" => E!Truth(agent', tail') \in been' /\ been \subseteq been'
    BY <2>1 DEF E!Observed
  <2>3. load.pc = "lsof" /\ load.sound => "active" \in been'
    BY <1>0, <2>1, <2>2 DEF Loaded
  <2>4. Loaded'
    BY <1>0, <2>1, <2>2, <2>3 DEF Loaded, E!ReportIsTrue
  <2> QED
    BY <1>3, <2>1, <2>4
<1>5. ASSUME UNCHANGED <<tail, agent, files>>, Loaded' PROVE LogInv'
  BY <1>0, <1>3, <1>5
<1>6. CASE E!LoadRecent
  <2>1. Loaded'
    BY <1>0, <1>2, <1>6 DEF E!LoadRecent, Loaded, LoadType, E!ReportIsTrue
  <2> QED
    BY <1>5, <1>6, <2>1 DEF E!LoadRecent
<1>7. ~ files.lock /\ load.pc # "idle" => "inactive" \in been \/ "exited" \in been
  <2>1. ~ files.lock => ~ agent.up
    BY <1>0 DEF Shows
  <2> QED
    BY <1>0, <2>1 DEF Loaded, E!Truth
<1>8. CASE E!DiscoverLiveSessions
  <2>1. Loaded'
    <3>1. CASE load.listed \/ files.lock
      BY <1>0, <1>2, <1>8, <3>1 DEF E!DiscoverLiveSessions, Loaded, LoadType, E!ReportIsTrue
    <3>2. CASE ~ (load.listed \/ files.lock)
      BY <1>0, <1>2, <1>7, <1>8, <3>2 DEF E!DiscoverLiveSessions, Loaded, LoadType, E!ReportIsTrue
    <3> QED
      BY <3>1, <3>2
  <2> QED
    BY <1>5, <1>8, <2>1 DEF E!DiscoverLiveSessions
<1>9. CASE E!readInusePID
  <2>1. ~ agent.up /\ ~ agent.killed /\ tail = <<>> => ~ files.lock
    BY <1>0 DEF Shows
  <2>2. Loaded'
    BY <1>0, <1>2, <1>7, <1>9, <2>1 DEF E!readInusePID, Loaded, LoadType, E!ReportIsTrue
  <2> QED
    BY <1>5, <1>9, <2>2 DEF E!readInusePID
<1>10. CASE E!ReadEvents
  <2> DEFINE s == E!classifyFromEvents(tail)
  <2>1. /\ load.pc = "events" /\ UNCHANGED <<tail, agent, files, been>>
        /\ load' = [load EXCEPT !.pc = IF s = "unknown" THEN "lsof" ELSE "done",
                                !.state = s, !.sound = E!Sound(agent, tail)]
    BY <1>10 DEF E!ReadEvents
  <2>2. E!Sound(agent, tail) =>
           IF s = "unknown"
           THEN E!Truth(agent, tail) = "active" \/ (~ agent.up /\ tail = <<>> /\ ~ files.db)
           ELSE s = E!Truth(agent, tail)
    BY <1>0, SoundReading
  <2> HIDE DEF s
  <2>3. /\ load'.listed = load.listed /\ load'.pid = load.pid /\ load'.state = s
        /\ load'.sound = E!Sound(agent, tail)
        /\ load'.pc = IF s = "unknown" THEN "lsof" ELSE "done"
    BY <1>2, <2>1 DEF LoadType
  <2>4. ~ agent.killed \/ ~ E!Sound(agent, tail)
    BY DEF E!Sound
  <2>5. /\ E!Truth(agent, tail) \in been /\ load.listed
        /\ ~ load.pid => "inactive" \in been \/ "exited" \in been
        /\ ~ agent.up /\ ~ agent.killed /\ tail = <<>> => ~ load.pid
    BY <1>0, <2>1 DEF Loaded
  <2>6. Loaded'
    <3>1. E!Truth(agent, tail)' = E!Truth(agent, tail)
      BY <2>1
    <3>2. CASE s = "unknown"
      BY <2>1, <2>2, <2>3, <2>4, <2>5, <3>1, <3>2 DEF Loaded, E!ReportIsTrue
    <3>3. CASE s # "unknown"
      BY <2>1, <2>2, <2>3, <2>4, <2>5, <3>1, <3>3 DEF Loaded, E!ReportIsTrue
    <3> QED
      BY <3>2, <3>3
  <2> QED
    BY <1>5, <2>1, <2>6
<1>11. CASE E!LockedSet
  <2>1. PICK locked \in {files.db, FALSE} :
           load' = [load EXCEPT !.pc = "done", !.state = E!IdleState(load.pid, locked)]
    BY <1>11 DEF E!LockedSet
  <2>2. load.pc = "lsof" /\ UNCHANGED <<tail, agent, files, been>>
    BY <1>11 DEF E!LockedSet
  <2>3. /\ load'.pc = "done" /\ load'.listed = load.listed /\ load'.pid = load.pid
        /\ load'.sound = load.sound /\ load'.state = E!IdleState(load.pid, locked)
    BY <1>2, <2>1 DEF LoadType
  <2>4. load.sound => E!IdleState(load.pid, locked) \in been
                      \/ (E!IdleState(load.pid, locked) = "inactive" /\ "exited" \in been)
    <3>1. CASE locked \/ load.pid
      <4>1. load.sound => "active" \in been
        BY <1>0, <2>2, <3>1 DEF Loaded
      <4> QED
        BY <3>1, <4>1 DEF E!IdleState
    <3>2. CASE ~ (locked \/ load.pid)
      <4>1. "inactive" \in been \/ "exited" \in been
        BY <1>0, <2>2, <3>2 DEF Loaded
      <4> QED
        BY <3>2, <4>1 DEF E!IdleState
    <3> QED
      BY <3>1, <3>2
  <2>5. Loaded'
    BY <1>0, <2>2, <2>3, <2>4 DEF Loaded, E!ReportIsTrue
  <2> QED
    BY <1>5, <2>2, <2>5
<1>12. CASE E!Shown
  <2>1. Loaded'
    BY <1>0, <1>12 DEF E!Shown, E!Resting, Loaded, E!ReportIsTrue
  <2> QED
    BY <1>5, <1>12, <2>1 DEF E!Shown
<1>13. CASE UNCHANGED E!vars
  <2>1. UNCHANGED <<tail, agent, files, load, been>>
    BY <1>13 DEF E!vars
  <2>2. Loaded'
    BY <1>0, <2>1 DEF Loaded, E!ReportIsTrue
  <2> QED
    BY <1>5, <2>1, <2>2
<1> QED
  BY <1>4, <1>6, <1>8, <1>9, <1>10, <1>11, <1>12, <1>13 DEF E!Next

LEMMA LogInductive == E!Spec => []LogInv
<1> QED
  BY LogInvInit, LogInvNext, PTL DEF E!Spec

(* EventLog.tla, however long the log, however much of it is seen and      *)
(* however much an agent runs at once: as long as the log can tell what a  *)
(* running agent is at, classifyFromEvents finds it.  A question is never  *)
(* missed, and an agent at work is not taken for an idle one.              *)
THEOREM LogIsTold == E!Spec => []LogTells
<1>1. LogInv => LogTells
  <2> SUFFICES ASSUME LogInv, agent.turn, E!Tells(agent, tail)
               PROVE  IF E!Asking(agent) THEN E!classifyFromEvents(tail) = "waiting"
                      ELSE \/ E!classifyFromEvents(tail) = "working"
                           \/ E!classifyFromEvents(tail) = "waiting" /\ E!Blurred(agent, tail)
                           \/ E!Tied(tail)
    BY DEF LogTells, E!LogTells
  <2>1. tail \in Seq(E!Event) /\ agent \in AgentType /\ MaxOpen \in Nat
    BY LogAssumption DEF LogInv, E!TypeOK, AgentType, E!EventLogAssumption
  <2>2. TurnLogged(tail, Holding(agent))
    BY DEF LogInv, Shows, E!Tells
  <2> QED
    BY <2>1, <2>2, TurnClassified
<1> QED
  BY <1>1, LogInductive, PTL

(* EventLog.tla: whatever the agent does while a load reads row, lock,     *)
(* events and database one after the other, the load reports something the *)
(* session has been since it began, and lists what ran all along.          *)
THEOREM ReportsAreTrue == E!Spec => []ReportIsTrue
<1>1. LogInv => ReportIsTrue
  BY DEF LogInv, Loaded, ReportIsTrue
<1> QED
  BY <1>1, LogInductive, PTL

-----------------------------------------------------------------------------
(* RemotePanes: which panes show which remote sessions.                    *)

LEMMA FirstPane ==
    ASSUME Q!RemotePanesAssumption, NEW ps \in SUBSET Q!Pane, ps # {}
    PROVE  Q!First(ps) \in ps
<1> DEFINE R == OpToRel(<, Nat)
<1>1. IsWellFoundedOn(R, Nat)
  BY NatLessThanWellFounded
<1>2. ps \subseteq Nat
  BY DEF Q!Pane, Q!RemotePanesAssumption
<1>3. PICK p \in ps : \A q \in ps : ~ (<<q, p>> \in R)
  <2> HIDE DEF R
  <2> QED
    BY <1>1, <1>2, WFMin, Zenon
<1>4. \A q, n \in Nat : q < n => <<q, n>> \in R
  BY DEF OpToRel
<1>5. \A q \in ps : p <= q
  <2> HIDE DEF R
  <2> SUFFICES ASSUME NEW q \in ps, q < p PROVE FALSE
    BY <1>2
  <2> QED
    BY <1>2, <1>3, <1>4, Zenon
<1> QED
  BY <1>5 DEF Q!First

(* A session is given no pane, or the first of some panes.                 *)
LEMMA GivenSome ==
    ASSUME Q!RemotePanesAssumption, NEW target \in [RSession -> 0..Panes], NEW s \in RSession,
           NEW ps \in SUBSET Q!Pane
    PROVE  LET given == IF ps = {} THEN target ELSE [target EXCEPT ![s] = Q!First(ps)]
           IN  /\ given \in [RSession -> 0..Panes]
               /\ \A t \in RSession \ {s} : given[t] = target[t]
               /\ given[s] = target[s] \/ given[s] \in ps
<1>1. CASE ps = {}
  BY <1>1
<1>2. CASE ps # {}
  <2>1. Q!First(ps) \in ps
    BY <1>2, FirstPane
  <2>2. Q!Pane \subseteq 0..Panes
    BY DEF Q!Pane, Q!RemotePanesAssumption
  <2> QED
    BY <1>2, <2>1, <2>2
<1> QED
  BY <1>1, <1>2

LEMMA PanesInit == Q!RemotePanesAssumption /\ Q!Init => Q!IInv
<1> SUFFICES ASSUME Q!RemotePanesAssumption, Q!Init PROVE Q!IInv
  OBVIOUS
<1>1. Q!TypeOK
  BY DEF Q!TypeOK, Q!Init, Q!Bare, Q!Resting, Q!Load, Q!RemotePanesAssumption
<1>2. find.todo = {} /\ \A s \in RSession : find.target[s] = 0
  BY DEF Q!Init, Q!Resting
<1> QED
  BY <1>1, <1>2 DEF Q!IInv, Q!GivenInTurn, Q!RemotePanesAreOwn

(* One iteration: nobody else is given what the session is given.          *)
LEMMA PanesResolve ==
    ASSUME Q!RemotePanesAssumption, Q!IInv, NEW s \in RSession, Q!ResolveRemotePanes(s)
    PROVE  Q!IInv'
<1>0. find \in Q!Load
  BY DEF Q!IInv, Q!TypeOK
<1>1. /\ find.pc = "assign" /\ s \in find.todo
      /\ find.todo \subseteq find.listed
      /\ UNCHANGED pane
  BY DEF Q!ResolveRemotePanes, Q!IInv, Q!GivenInTurn
<1> DEFINE connected == {p \in Q!Pane : find.remote[p] = HomeOf[s]}
           fitting == {p \in connected : /\ Q!MatchTitle(find.titles[p], s)
                                         /\ \A t \in RSession : find.target[t] # p}
           only == Q!ListedOf(HomeOf[s]) = {s}
           ps == IF only THEN connected ELSE fitting
           given == IF ps = {} THEN find.target ELSE [find.target EXCEPT ![s] = Q!First(ps)]
<1>2. find' = [find EXCEPT !.todo = @ \ {s}, !.target = given]
  BY DEF Q!ResolveRemotePanes, Q!AssignFirst, Q!assignByTitle
<1>3. /\ given \in [RSession -> 0..Panes]
      /\ \A t \in RSession \ {s} : given[t] = find.target[t]
      /\ given[s] = find.target[s] \/ given[s] \in ps
  BY <1>0, GivenSome DEF Q!Load
<1> HIDE DEF given
<1>4. /\ find' \in Q!Load
      /\ find'.todo = find.todo \ {s} /\ find'.target = given
      /\ find'.pc = find.pc /\ find'.listed = find.listed
      /\ find'.titles = find.titles /\ find'.remote = find.remote
  BY <1>0, <1>2, <1>3 DEF Q!Load
<1>5. Q!TypeOK'
  BY <1>1, <1>4 DEF Q!IInv, Q!TypeOK
<1>6. \A r \in Remote \cup Home : Q!ListedOf(r)' = Q!ListedOf(r)
  BY <1>4 DEF Q!ListedOf
<1>7. find.target[s] = 0
  BY <1>0, <1>1 DEF Q!IInv, Q!GivenInTurn, Q!Load
<1>8. Q!GivenInTurn'
  BY <1>1, <1>3, <1>4, <1>7 DEF Q!IInv, Q!GivenInTurn
<1>9. \A t \in RSession : HomeOf[t] \in Home /\ find.target[t] \in 0..Panes /\ given[t] \in 0..Panes
  BY <1>0, <1>3 DEF Q!RemotePanesAssumption, Q!Load
(* Whatever it is given is of its remote, and nobody's yet.                *)
<1>10. ASSUME given[s] > 0
       PROVE  /\ find.remote[given[s]] = HomeOf[s]
              /\ only \/ Q!MatchTitle(find.titles[given[s]], s)
              /\ \A t \in RSession \ {s} : find.target[t] # given[s]
  <2>1. given[s] \in ps
    BY <1>3, <1>7, <1>10
  <2>2. CASE only
    <3>1. find.remote[given[s]] = HomeOf[s]
      BY <2>1, <2>2
    <3>2. ASSUME NEW t \in RSession \ {s}, find.target[t] = given[s] PROVE FALSE
      <4>1. find.remote[find.target[t]] = HomeOf[t] /\ t \in find.listed
        BY <1>9, <1>10, <3>2 DEF Q!IInv, Q!RemotePanesAreOwn, Q!GivenInTurn
      <4>2. t \in Q!ListedOf(HomeOf[s])
        BY <3>1, <3>2, <4>1 DEF Q!ListedOf
      <4> QED
        BY <2>2, <4>2
    <3> QED
      BY <2>2, <3>1, <3>2
  <2>3. CASE ~ only
    BY <2>1, <2>3
  <2> QED
    BY <2>2, <2>3
<1>11. Q!RemotePanesAreOwn'
  <2> SUFFICES ASSUME NEW t \in RSession, given[t] > 0
               PROVE  /\ \A u \in RSession \ {t} : given[u] # given[t]
                      /\ find.remote[given[t]] = HomeOf[t]
                      /\ \/ Q!ListedOf(HomeOf[t]) = {t}
                         \/ Q!MatchTitle(find.titles[given[t]], t)
    BY <1>4, <1>6, <1>9 DEF Q!RemotePanesAreOwn, Q!MatchTitle
  <2>1. CASE t = s
    BY <1>3, <1>10, <2>1
  <2>2. CASE t # s
    <3>1. given[t] = find.target[t]
      BY <1>3, <2>2
    <3>2. /\ \A u \in RSession \ {t} : find.target[u] # find.target[t]
          /\ find.remote[given[t]] = HomeOf[t]
          /\ \/ Q!ListedOf(HomeOf[t]) = {t}
             \/ Q!MatchTitle(find.titles[given[t]], t)
      BY <3>1 DEF Q!IInv, Q!RemotePanesAreOwn
    <3>3. given[s] # given[t]
      BY <1>9, <1>10, <2>2, <3>1
    <3> QED
      BY <1>3, <3>1, <3>2, <3>3
  <2> QED
    BY <2>1, <2>2
<1> QED
  BY <1>5, <1>8, <1>11 DEF Q!IInv

LEMMA PanesNext == Q!RemotePanesAssumption /\ Q!IInv /\ [Q!Next]_Q!vars => Q!IInv'
<1> SUFFICES ASSUME Q!RemotePanesAssumption, Q!IInv, [Q!Next]_Q!vars PROVE Q!IInv'
  OBVIOUS
<1>0. /\ pane \in [Q!Pane -> [to : Home \cup {None}, deep : BOOLEAN, title : RSession \cup {None}]]
      /\ find \in Q!Load
      /\ find.todo \subseteq find.listed
      /\ Panes \in Nat
  BY DEF Q!IInv, Q!TypeOK, Q!GivenInTurn, Q!RemotePanesAssumption
(* The user's steps leave the load alone.                                  *)
<1>1. ASSUME UNCHANGED find, Q!TypeOK' PROVE Q!IInv'
  BY <1>1 DEF Q!IInv, Q!GivenInTurn, Q!RemotePanesAreOwn, Q!ListedOf, Q!MatchTitle
(* Before panes are given, and once a load is over, nobody has one.        *)
<1>2. ASSUME Q!TypeOK', find'.todo \subseteq find'.listed, \A s \in RSession : find'.target[s] = 0
      PROVE  Q!IInv'
  BY <1>2 DEF Q!IInv, Q!GivenInTurn, Q!RemotePanesAreOwn
<1>3. ASSUME find.pc # "assign" PROVE \A s \in RSession : find.target[s] = 0
  BY <1>0, <1>3 DEF Q!IInv, Q!GivenInTurn, Q!Load
<1>4. /\ Q!Resting \in Q!Load /\ Q!Resting.todo = {} /\ Q!Resting.listed = {}
      /\ \A s \in RSession : Q!Resting.target[s] = 0
      /\ Q!Resting.near \in [Q!Pane -> Home \cup {None}]
  BY <1>0 DEF Q!Resting, Q!Load
<1>5. ASSUME NEW p \in Q!Pane, NEW r \in Home, NEW deep \in BOOLEAN, Q!Connect(p, r, deep)
      PROVE  Q!IInv'
  <2>1. Q!TypeOK'
    BY <1>0, <1>5 DEF Q!Connect, Q!TypeOK
  <2> QED
    BY <1>1, <1>5, <2>1 DEF Q!Connect
<1>6. ASSUME NEW p \in Q!Pane, Q!Disconnect(p) PROVE Q!IInv'
  <2>1. Q!TypeOK'
    BY <1>0, <1>6 DEF Q!Disconnect, Q!TypeOK, Q!Bare
  <2> QED
    BY <1>1, <1>6, <2>1 DEF Q!Disconnect
<1>7. ASSUME NEW p \in Q!Pane, NEW s \in RSession, Q!Show(p, s) PROVE Q!IInv'
  <2>1. Q!TypeOK'
    BY <1>0, <1>7 DEF Q!Show, Q!TypeOK
  <2> QED
    BY <1>1, <1>7, <2>1 DEF Q!Show
<1>8. ASSUME NEW listed \in SUBSET RSession, Q!Fetched(listed) PROVE Q!IInv'
  <2>1. /\ find' \in Q!Load /\ find'.todo = listed /\ find'.listed = listed
        /\ find'.target = Q!Resting.target
    BY <1>4, <1>8 DEF Q!Fetched, Q!Load
  <2>2. Q!TypeOK'
    BY <1>0, <1>8, <2>1 DEF Q!Fetched, Q!TypeOK
  <2> QED
    BY <1>2, <1>4, <2>1, <2>2
<1>9. CASE Q!ListPanesWithTitle
  <2>1. [p \in Q!Pane |-> pane[p].title] \in [Q!Pane -> RSession \cup {None}]
    BY <1>0
  <2>2. /\ find' \in Q!Load /\ find'.todo = find.todo /\ find'.listed = find.listed
        /\ find'.target = find.target
    BY <1>0, <1>9, <2>1 DEF Q!ListPanesWithTitle, Q!Load
  <2>3. Q!TypeOK'
    BY <1>0, <1>9, <2>2 DEF Q!ListPanesWithTitle, Q!TypeOK
  <2> QED
    BY <1>0, <1>2, <1>3, <1>9, <2>2, <2>3 DEF Q!ListPanesWithTitle
<1>10. CASE Q!buildProcessTree
  <2>1. [p \in Q!Pane |-> IF pane[p].deep THEN None ELSE pane[p].to] \in [Q!Pane -> Home \cup {None}]
    BY <1>0
  <2>2. /\ find' \in Q!Load /\ find'.todo = find.todo /\ find'.listed = find.listed
        /\ find'.target = find.target
    BY <1>0, <1>10, <2>1 DEF Q!buildProcessTree, Q!Load
  <2>3. Q!TypeOK'
    BY <1>0, <1>10, <2>2 DEF Q!buildProcessTree, Q!TypeOK
  <2> QED
    BY <1>0, <1>2, <1>3, <1>10, <2>2, <2>3 DEF Q!buildProcessTree
<1>11. CASE Q!FindRemotes
  <2>1. PICK remote \in [Q!Pane -> Home \cup {None}] :
           find' = [find EXCEPT !.pc = "assign", !.remote = remote, !.near = Q!Resting.near]
    BY <1>11 DEF Q!FindRemotes
  <2>2. /\ find' \in Q!Load /\ find'.todo = find.todo /\ find'.listed = find.listed
        /\ find'.target = find.target
    BY <1>0, <1>4, <2>1 DEF Q!Load
  <2>3. Q!TypeOK'
    BY <1>0, <1>11, <2>2 DEF Q!FindRemotes, Q!TypeOK
  <2> QED
    BY <1>0, <1>2, <1>3, <1>11, <2>2, <2>3 DEF Q!FindRemotes
<1>12. CASE Q!Rest
  <2>1. Q!TypeOK'
    BY <1>0, <1>4, <1>12 DEF Q!Rest, Q!TypeOK
  <2> QED
    BY <1>2, <1>4, <1>12, <2>1 DEF Q!Rest
<1>13. ASSUME NEW s \in RSession, Q!ResolveRemotePanes(s) PROVE Q!IInv'
  BY <1>13, PanesResolve
<1>14. CASE UNCHANGED Q!vars
  <2>1. Q!TypeOK'
    BY <1>0, <1>14 DEF Q!vars, Q!TypeOK
  <2> QED
    BY <1>1, <1>14, <2>1 DEF Q!vars
<1> QED
  BY <1>5, <1>6, <1>7, <1>8, <1>9, <1>10, <1>11, <1>12, <1>13, <1>14 DEF Q!Next

LEMMA PanesInductive == Q!Spec => []Q!IInv
<1>1. Q!Init => Q!IInv
  BY PanesAssumption, PanesInit
<1>2. Q!IInv /\ [Q!Next]_Q!vars => Q!IInv'
  BY PanesAssumption, PanesNext
<1> QED
  BY <1>1, <1>2, PTL DEF Q!Spec

(* RemotePanes.tla: whatever is connected while a load goes on, no pane is *)
(* given to two sessions, and none to a session of another remote.         *)
THEOREM PanesAreOwn == Q!Spec => []RemotePanesAreOwn
<1>1. Q!IInv => RemotePanesAreOwn
  BY DEF Q!IInv, RemotePanesAreOwn
<1> QED
  BY <1>1, PanesInductive, PTL

-----------------------------------------------------------------------------
(* Remotes: what processes fetch from them, and install there.             *)

(* A result stays one when a remote is warned about or listed.              *)
LEMMA ResultUpdated ==
    ASSUME NEW x \in F!Result
    PROVE  /\ \A pc \in {"idle", "fetching", "returned"} : [x EXCEPT !.pc = pc] \in F!Result
           /\ \A r \in Remote : /\ [x EXCEPT !.warned = @ \cup {r}] \in F!Result
                               /\ [x EXCEPT !.out = @ \cup {r}] \in F!Result
  BY DEF F!Result

LEMMA EmptyResult == F!Empty \in F!Result
  BY DEF F!Result, F!Empty

(* Whoever is warned about has ended.                                      *)
LEMMA WarnedTypes ==
    ASSUME F!TypeOK, NEW f \in Fetcher, NEW r \in Remote, F!Warned(f, r)
    PROVE  call' \in [Fetcher -> [Remote -> F!Phase]] /\ result' \in [Fetcher -> F!Result]
<1>1. result \in [Fetcher -> F!Result]
  BY DEF F!TypeOK
<1>2. result' = [result EXCEPT ![f].warned = @ \cup {r}]
  BY DEF F!Warned
<1>3. call' \in [Fetcher -> [Remote -> F!Phase]]
  BY DEF F!Warned, F!Goes, F!TypeOK, F!Phase
<1> QED
  BY <1>1, <1>2, <1>3, ResultUpdated

LEMMA FetchInit == F!Init => F!IInv
<1> SUFFICES ASSUME F!Init PROVE F!IInv
  OBVIOUS
<1>1. F!TypeOK
  <2>1. call \in [Fetcher -> [Remote -> F!Phase]] /\ result \in [Fetcher -> F!Result]
    BY EmptyResult DEF F!Init, F!Phase
  <2>2. checks \in 0..MaxCheck
    BY FetchAssumption DEF F!RemotesAssumption, F!Init
  <2> QED
    BY <2>1, <2>2 DEF F!Init, F!TypeOK, F!Bare
<1>2. F!Accounted
  BY DEF F!Init, F!Accounted, F!Empty
<1>3. F!ScriptsApart
  BY DEF F!Init, F!ScriptsApart, F!Trusted
<1> QED
  BY <1>1, <1>2, <1>3 DEF F!IInv

LEMMA FetchTypes == F!TypeOK /\ [F!Next]_F!vars => F!TypeOK'
<1> SUFFICES ASSUME F!TypeOK, [F!Next]_F!vars PROVE F!TypeOK'
  OBVIOUS
<1> DEFINE Called == call' \in [Fetcher -> [Remote -> F!Phase]] /\ result' \in [Fetcher -> F!Result]
<1>0. ASSUME Called, UNCHANGED <<record, script, host, answered, overlap, checks>> PROVE F!TypeOK'
  BY <1>0 DEF F!TypeOK, F!Phase
<1>1. ASSUME NEW f \in Fetcher, F!FetchAll(f) \/ F!Return(f) \/ F!Leave(f) PROVE F!TypeOK'
  <2> USE ResultUpdated, EmptyResult DEF F!TypeOK, F!installed, F!Phase
  <2>1. CASE F!FetchAll(f)
    BY <2>1 DEF F!FetchAll
  <2>2. CASE F!Return(f)
    BY <2>2 DEF F!Return
  <2>3. CASE F!Leave(f)
    BY <2>3 DEF F!Leave
  <2> QED
    BY <1>1, <2>1, <2>2, <2>3
<1>2. ASSUME NEW f \in Fetcher, NEW r \in Remote, NEW pc \in F!Phase, F!Goes(f, r, pc)
      PROVE  call' \in [Fetcher -> [Remote -> F!Phase]]
  BY <1>2 DEF F!TypeOK, F!Goes, F!Phase
<1>3. ASSUME NEW f \in Fetcher, NEW r \in Remote,
             \/ F!Fails(f, r) \/ F!remoteBinaryInPath(f, r) \/ F!LoadUpdateState(f, r)
             \/ F!remoteBinaryExists(f, r) \/ F!DetectRuntime(f, r) \/ F!ResolveRelease(f, r)
      PROVE  F!TypeOK'
  <2>1. UNCHANGED <<record, script, host, answered, overlap, checks>>
    BY <1>3 DEF F!Fails, F!remoteBinaryInPath, F!LoadUpdateState, F!remoteBinaryExists,
                F!DetectRuntime, F!ResolveRelease, F!installed
  <2>2. F!Warned(f, r) \/ (UNCHANGED result /\ \E pc \in F!Phase : F!Goes(f, r, pc))
    BY <1>3 DEF F!Fails, F!remoteBinaryInPath, F!LoadUpdateState, F!remoteBinaryExists,
                F!DetectRuntime, F!ResolveRelease, F!Phase
  <2>3. result \in [Fetcher -> F!Result]
    BY DEF F!TypeOK
  <2> QED
    BY <1>0, <1>2, <2>1, <2>2, <2>3, WarnedTypes
<1>4. ASSUME NEW f \in Fetcher, NEW r \in Remote, F!Truncate(f, r) \/ F!Write(f, r)
      PROVE  F!TypeOK'
  BY <1>2, <1>4 DEF F!TypeOK, F!Truncate, F!Write, F!installed, F!Phase
<1>5. ASSUME NEW f \in Fetcher, NEW r \in Remote, F!ListRemote(f, r) PROVE F!TypeOK'
  <2>1. UNCHANGED <<record, script, host, overlap, checks>>
    BY <1>5 DEF F!ListRemote, F!installed
  <2>2. CASE F!Warned(f, r) /\ UNCHANGED answered
    BY <1>0, <2>1, <2>2, WarnedTypes
  <2>3. CASE /\ F!Goes(f, r, "ended")
             /\ result' = [result EXCEPT ![f].out = @ \cup {r}]
             /\ answered' = [answered EXCEPT ![f] = @ \cup {r}]
    <3>1. answered' \in [Fetcher -> SUBSET Remote] /\ result \in [Fetcher -> F!Result]
      BY <2>3 DEF F!TypeOK
    <3>2. result' \in [Fetcher -> F!Result]
      BY <2>3, <3>1, ResultUpdated
    <3>3. call' \in [Fetcher -> [Remote -> F!Phase]]
      BY <1>2, <2>3 DEF F!Phase
    <3> QED
      BY <2>1, <3>1, <3>2, <3>3 DEF F!TypeOK, F!Phase
  <2> QED
    BY <1>5, <2>2, <2>3 DEF F!ListRemote
<1>6. ASSUME NEW f \in Fetcher, NEW r \in Remote, F!InstallRemoteBinary(f, r) PROVE F!TypeOK'
  BY <1>6 DEF F!TypeOK, F!InstallRemoteBinary
<1>7. ASSUME NEW f \in Fetcher, NEW r \in Remote,
             F!CurlEnds(f, r) \/ F!TarBegins(f, r) \/ F!TarEnds(f, r)
      PROVE  F!TypeOK'
  <2> USE DEF F!TypeOK, F!Step
  <2>1. CASE F!CurlEnds(f, r)
    BY <2>1 DEF F!CurlEnds
  <2>2. CASE F!TarBegins(f, r)
    BY <2>2 DEF F!TarBegins
  <2>3. CASE F!TarEnds(f, r)
    <3>1. script' \in [Fetcher -> [Remote -> {"none", "curl", "tar", "unpack", "rm"}]]
      BY <2>3 DEF F!TarEnds
    <3> DEFINE bin == IF host[r].by = f THEN "whole" ELSE host[r].bin
               by == IF host[r].by = f THEN None ELSE host[r].by
    <3>2. bin \in {"none", "partial", "whole"} /\ by \in Fetcher \cup {None}
      OBVIOUS
    <3>3. host' = [host EXCEPT ![r].bin = bin, ![r].by = by]
      BY <2>3 DEF F!TarEnds
    <3> HIDE DEF bin, by
    <3>4. host' \in [Remote -> [tar : {"none", "partial", "whole"}, bin : {"none", "partial", "whole"},
                                by : Fetcher \cup {None}]]
      BY <3>2, <3>3
    <3> QED
      BY <2>3, <3>1, <3>4 DEF F!TarEnds
  <2> QED
    BY <1>7, <2>1, <2>2, <2>3
<1>8. ASSUME NEW f \in Fetcher, NEW r \in Remote, F!ScriptEnds(f, r) PROVE F!TypeOK'
  BY <1>2, <1>8 DEF F!TypeOK, F!ScriptEnds, F!Step, F!Phase
<1>9. ASSUME NEW f \in Fetcher, NEW r \in Remote, F!ScriptFails(f, r) PROVE F!TypeOK'
  <2>1. /\ script' \in [Fetcher -> [Remote -> {"none", "curl", "tar", "unpack", "rm"}]]
        /\ host' \in [Remote -> [tar : {"none", "partial", "whole"}, bin : {"none", "partial", "whole"},
                                  by : Fetcher \cup {None}]]
        /\ UNCHANGED <<record, answered, overlap, checks>>
    BY <1>9 DEF F!TypeOK, F!ScriptFails
  <2>2. F!Warned(f, r) \/ UNCHANGED <<call, result>>
    BY <1>9 DEF F!ScriptFails, F!InstallFails
  <2>3. Called
    BY <2>2, WarnedTypes DEF F!TypeOK, F!Phase
  <2> QED
    BY <2>1, <2>3 DEF F!TypeOK, F!Phase
<1>10. ASSUME NEW r \in Remote, F!GrowsOld(r) PROVE F!TypeOK'
  BY <1>10, FetchAssumption DEF F!TypeOK, F!GrowsOld, F!installed, F!RemotesAssumption
<1>11. CASE UNCHANGED F!vars
  BY <1>11 DEF F!TypeOK, F!vars
<1> QED
  BY <1>1, <1>3, <1>4, <1>5, <1>6, <1>7, <1>8, <1>9, <1>10, <1>11 DEF F!Next

(* Every goroutine's end is in the result it belongs to.                   *)
LEMMA FetchAccounted == F!TypeOK /\ F!Accounted /\ [F!Next]_F!vars => F!Accounted'
<1> SUFFICES ASSUME F!TypeOK, F!Accounted, [F!Next]_F!vars PROVE F!Accounted'
  OBVIOUS
<1> DEFINE Accounts(f) ==
             IF result[f].pc = "idle" THEN result[f] = F!Empty /\ \A r \in Remote : call[f][r] = "idle"
             ELSE /\ result[f].out = answered[f]
                  /\ result[f].warned = {r \in Remote : call[f][r] = "ended"} \ answered[f]
                  /\ \A r \in answered[f] : call[f][r] = "ended"
                  /\ result[f].pc = "returned" => F!Ended(f)
<1>0. /\ \A f \in Fetcher : Accounts(f)
      /\ (\A f \in Fetcher : Accounts(f)') => F!Accounted'
  BY DEF F!Accounted
(* What does not end a goroutine or change a result changes nothing here.  *)
<1>a. ASSUME NEW f \in Fetcher, NEW r \in Remote, call[f][r] \notin {"idle", "ended"},
             NEW pc \in F!Phase \ {"idle", "ended"}, F!Goes(f, r, pc), UNCHANGED <<result, answered>>
      PROVE  F!Accounted'
  <2>1. ASSUME NEW g \in Fetcher PROVE Accounts(g)'
    BY <1>0, <1>a DEF F!Goes, F!Ended, F!TypeOK, F!Phase
  <2> QED
    BY <1>0, <2>1
<1>b. ASSUME NEW f \in Fetcher, NEW r \in Remote, call[f][r] \notin {"idle", "ended"},
             F!Warned(f, r), UNCHANGED answered
      PROVE  F!Accounted'
  <2>1. ASSUME NEW g \in Fetcher PROVE Accounts(g)'
    BY <1>0, <1>b DEF F!Warned, F!Goes, F!Ended, F!TypeOK, F!Phase, F!Result
  <2> QED
    BY <1>0, <2>1
<1>c. ASSUME UNCHANGED <<call, result, answered>> PROVE F!Accounted'
  BY <1>c DEF F!Accounted, F!Ended
<1>1. ASSUME NEW f \in Fetcher, F!FetchAll(f) \/ F!Return(f) \/ F!Leave(f) PROVE F!Accounted'
  <2> SUFFICES ASSUME NEW g \in Fetcher PROVE Accounts(g)'
    BY <1>0
  <2> USE <1>0 DEF F!TypeOK, F!Ended
  <2>1. CASE F!FetchAll(f)
    <3>1. CASE g = f
      <4>1. result'[f] = [F!Empty EXCEPT !.pc = "fetching"] /\ answered'[f] = {}
            /\ \A r \in Remote : call'[f][r] = "find"
        BY <2>1 DEF F!FetchAll
      <4> QED
        BY <3>1, <4>1 DEF F!Empty
    <3>2. CASE g # f
      BY <2>1, <3>2 DEF F!FetchAll
    <3> QED
      BY <3>1, <3>2
  <2>2. CASE F!Return(f)
    BY <2>2 DEF F!Return, F!Result
  <2>3. CASE F!Leave(f)
    BY <2>3 DEF F!Leave, F!Empty
  <2> QED
    BY <1>1, <2>1, <2>2, <2>3
<1>2. ASSUME NEW f \in Fetcher, NEW r \in Remote,
             \/ F!Fails(f, r) \/ F!remoteBinaryInPath(f, r) \/ F!LoadUpdateState(f, r)
             \/ F!remoteBinaryExists(f, r) \/ F!DetectRuntime(f, r) \/ F!ResolveRelease(f, r)
             \/ F!Truncate(f, r) \/ F!Write(f, r)
      PROVE  F!Accounted'
  <2>1. UNCHANGED answered /\ call[f][r] \notin {"idle", "ended"}
    BY <1>2 DEF F!Fails, F!remoteBinaryInPath, F!LoadUpdateState, F!remoteBinaryExists,
                F!DetectRuntime, F!ResolveRelease, F!Truncate, F!Write
  <2>2. \/ F!Warned(f, r)
        \/ UNCHANGED result /\ \E pc \in F!Phase \ {"idle", "ended"} : F!Goes(f, r, pc)
    BY <1>2 DEF F!Fails, F!remoteBinaryInPath, F!LoadUpdateState, F!remoteBinaryExists,
                F!DetectRuntime, F!ResolveRelease, F!Truncate, F!Write, F!Phase
  <2> QED
    BY <1>a, <1>b, <2>1, <2>2
<1>3. ASSUME NEW f \in Fetcher, NEW r \in Remote, F!ListRemote(f, r) PROVE F!Accounted'
  <2>1. call[f][r] = "list"
    BY <1>3 DEF F!ListRemote
  <2>2. CASE F!Warned(f, r) /\ UNCHANGED answered
    BY <1>b, <2>1, <2>2
  <2>3. CASE /\ F!Goes(f, r, "ended")
             /\ result' = [result EXCEPT ![f].out = @ \cup {r}]
             /\ answered' = [answered EXCEPT ![f] = @ \cup {r}]
    <3>1. Accounts(f)'
      <4>1. result'[f] = [result[f] EXCEPT !.out = @ \cup {r}] /\ answered'[f] = answered[f] \cup {r}
        BY <2>3 DEF F!TypeOK
      <4>2. call'[f][r] = "ended" /\ \A q \in Remote \ {r} : call'[f][q] = call[f][q]
        BY <2>3 DEF F!TypeOK, F!Goes
      <4> QED
        BY <1>0, <2>1, <4>1, <4>2 DEF F!Ended, F!TypeOK, F!Result
    <3>2. ASSUME NEW g \in Fetcher \ {f} PROVE Accounts(g)'
      BY <1>0, <2>3 DEF F!Goes, F!Ended, F!TypeOK
    <3> QED
      BY <1>0, <3>1, <3>2
  <2> QED
    BY <1>3, <2>2, <2>3 DEF F!ListRemote
<1>4. ASSUME NEW f \in Fetcher, NEW r \in Remote, F!ScriptEnds(f, r) \/ F!ScriptFails(f, r)
      PROVE  F!Accounted'
  <2>1. UNCHANGED answered
    BY <1>4 DEF F!ScriptEnds, F!ScriptFails
  <2>2. \/ call[f][r] = "install" /\ (F!Warned(f, r) \/ (F!Goes(f, r, "truncate") /\ UNCHANGED result))
        \/ UNCHANGED <<call, result>>
    BY <1>4 DEF F!ScriptEnds, F!ScriptFails, F!InstallFails
  <2> QED
    BY <1>a, <1>b, <1>c, <2>1, <2>2 DEF F!Phase
<1>5. ASSUME NEW f \in Fetcher, NEW r \in Remote,
             \/ F!InstallRemoteBinary(f, r)
             \/ F!CurlEnds(f, r) \/ F!TarBegins(f, r) \/ F!TarEnds(f, r)
      PROVE  F!Accounted'
  BY <1>c, <1>5 DEF F!InstallRemoteBinary, F!CurlEnds, F!TarBegins, F!TarEnds
<1>6. ASSUME NEW r \in Remote, F!GrowsOld(r) PROVE F!Accounted'
  BY <1>c, <1>6 DEF F!GrowsOld
<1>7. CASE UNCHANGED F!vars
  BY <1>c, <1>7 DEF F!vars
<1> QED
  BY <1>1, <1>2, <1>3, <1>4, <1>5, <1>6, <1>7 DEF F!Next

(* Where no installation met another, each script stands where it can.     *)
LEMMA FetchApart == F!IInv /\ [F!Next]_F!vars => F!ScriptsApart'
<1> SUFFICES ASSUME F!IInv, [F!Next]_F!vars PROVE F!ScriptsApart'
  OBVIOUS
<1> DEFINE Used == {"exists", "truncate", "write", "list"}
           Apart(r) ==
             /\ \A f, g \in Fetcher : script[f][r] # "none" /\ script[g][r] # "none" => f = g
             /\ \A f \in Fetcher : /\ script[f][r] = "unpack" => host[r].by = f
                                   /\ script[f][r] = "rm" => host[r].bin = "whole"
             /\ F!Trusted(r) => host[r].bin = "whole" /\ \A f \in Fetcher : script[f][r] = "none"
<1>t. F!TypeOK
  BY DEF F!IInv
<1>0. /\ \A r \in Remote \ (InPath \cup overlap) : Apart(r)
      /\ (\A r \in Remote \ (InPath \cup overlap') : Apart(r)') => F!ScriptsApart'
  BY DEF F!IInv, F!ScriptsApart
(* What leaves scripts and hosts and trusts no more remotes than before.   *)
<1>a. ASSUME UNCHANGED <<script, host, overlap>>,
             \A r \in Remote : record'[r] = "fresh" => F!Trusted(r),
             \A f \in Fetcher, r \in Remote : call'[f][r] \in Used => F!Trusted(r) \/ r \in InPath
      PROVE  F!ScriptsApart'
  <2>1. \A r \in Remote \ (InPath \cup overlap) : F!Trusted(r)' => F!Trusted(r)
    BY <1>a DEF F!Trusted
  <2> QED
    BY <1>0, <1>a, <2>1
(* What concerns a script on one remote only.                              *)
<1>b. ASSUME NEW r \in Remote,
             \A q \in Remote \ {r} : host'[q] = host[q] /\ \A f \in Fetcher : script'[f][q] = script[f][q],
             UNCHANGED record, overlap \subseteq overlap',
             \A f \in Fetcher, q \in Remote \ {r} : call'[f][q] = call[f][q],
             r \notin InPath \cup overlap' => Apart(r)'
      PROVE  F!ScriptsApart'
  <2>1. \A q \in Remote \ {r} : F!Trusted(q)' = F!Trusted(q)
    BY <1>b DEF F!Trusted
  <2>2. \A q \in Remote \ (InPath \cup overlap') : q # r => Apart(q)'
    BY <1>0, <1>b, <2>1
  <2> QED
    BY <1>0, <1>b, <2>2
<1> USE <1>t DEF F!TypeOK
<1>1. ASSUME NEW f \in Fetcher, F!FetchAll(f) \/ F!Return(f) \/ F!Leave(f) PROVE F!ScriptsApart'
  <2>1. UNCHANGED <<script, host, overlap, record>>
        /\ \A g \in Fetcher, r \in Remote : call'[g][r] \in Used => call[g][r] = call'[g][r]
    BY <1>1 DEF F!FetchAll, F!Return, F!Leave, F!installed
  <2> QED
    BY <1>a, <2>1 DEF F!Trusted
<1>2. ASSUME NEW f \in Fetcher, NEW r \in Remote, NEW pc \in F!Phase, F!Goes(f, r, pc),
             pc \in Used => F!Trusted(r) \/ r \in InPath, UNCHANGED <<script, host, overlap>>,
             \A q \in Remote : record'[q] = "fresh" => F!Trusted(q)
      PROVE  F!ScriptsApart'
  <2>1. ASSUME NEW g \in Fetcher, NEW q \in Remote, call'[g][q] \in Used
        PROVE  F!Trusted(q) \/ q \in InPath
    <3>1. CASE g = f /\ q = r
      BY <1>2, <2>1, <3>1 DEF F!Goes
    <3>2. CASE ~(g = f /\ q = r)
      <4>1. call'[g][q] = call[g][q]
        BY <1>2, <3>2 DEF F!Goes
      <4> QED
        BY <2>1, <4>1 DEF F!Trusted
    <3> QED
      BY <3>1, <3>2
  <2> QED
    BY <1>a, <1>2, <2>1
<1>3. ASSUME NEW q \in Remote, record[q] = "fresh" PROVE F!Trusted(q)
  BY <1>3 DEF F!Trusted
<1>4. ASSUME NEW f \in Fetcher, NEW r \in Remote,
             \/ F!Fails(f, r) \/ F!remoteBinaryInPath(f, r) \/ F!LoadUpdateState(f, r)
             \/ F!remoteBinaryExists(f, r) \/ F!DetectRuntime(f, r) \/ F!ResolveRelease(f, r)
             \/ F!ListRemote(f, r)
      PROVE  F!ScriptsApart'
  <2>1. UNCHANGED <<script, host, overlap, record>>
    BY <1>4 DEF F!Fails, F!remoteBinaryInPath, F!LoadUpdateState, F!remoteBinaryExists,
                F!DetectRuntime, F!ResolveRelease, F!ListRemote, F!installed
  <2>2. \E pc \in F!Phase : F!Goes(f, r, pc) /\ (pc \in Used => F!Trusted(r) \/ r \in InPath)
    BY <1>4 DEF F!Fails, F!remoteBinaryInPath, F!LoadUpdateState, F!remoteBinaryExists,
                F!DetectRuntime, F!ResolveRelease, F!ListRemote, F!Warned, F!Phase, F!Trusted
  <2> QED
    BY <1>2, <1>3, <2>1, <2>2
<1>5. ASSUME NEW f \in Fetcher, NEW r \in Remote, F!Truncate(f, r) \/ F!Write(f, r)
      PROVE  F!ScriptsApart'
  <2>1. F!Trusted(r) /\ \E pc \in F!Phase : F!Goes(f, r, pc)
    BY <1>5 DEF F!Truncate, F!Write, F!Trusted, F!Phase
  <2>2. UNCHANGED <<script, host, overlap>> /\ \A q \in Remote \ {r} : record'[q] = record[q]
    BY <1>5 DEF F!Truncate, F!Write, F!installed
  <2> QED
    BY <1>2, <1>3, <2>1, <2>2
<1>6. ASSUME NEW r \in Remote, F!GrowsOld(r) PROVE F!ScriptsApart'
  <2>1. /\ UNCHANGED <<call, script, host, overlap>>
        /\ \A q \in Remote : record'[q] = "fresh" => record[q] = "fresh"
    BY <1>6 DEF F!GrowsOld, F!installed
  <2> QED
    BY <1>a, <1>3, <2>1 DEF F!Trusted
<1>7. ASSUME NEW f \in Fetcher, NEW r \in Remote, F!InstallRemoteBinary(f, r) PROVE F!ScriptsApart'
  <2>1. ASSUME r \notin InPath \cup overlap' PROVE Apart(r)'
    <3>1. /\ call[f][r] = "install" /\ record[r] # "fresh" /\ script'[f][r] = "curl"
          /\ \A g \in Fetcher \ {f} : ~F!Uses(g, r) /\ script'[g][r] = "none"
      BY <1>7, <2>1 DEF F!InstallRemoteBinary, F!Uses
    <3>2. ~F!Trusted(r)'
      BY <1>7, <3>1 DEF F!InstallRemoteBinary, F!Trusted, F!Uses
    <3> QED
      BY <3>1, <3>2
  <2> QED
    BY <1>b, <1>7, <2>1 DEF F!InstallRemoteBinary
<1>8. ASSUME NEW f \in Fetcher, NEW r \in Remote,
             \/ F!CurlEnds(f, r) \/ F!TarBegins(f, r) \/ F!TarEnds(f, r)
             \/ F!ScriptEnds(f, r) \/ F!ScriptFails(f, r)
      PROVE  F!ScriptsApart'
  <2>1. /\ UNCHANGED <<record, overlap>> /\ script[f][r] # "none"
        /\ \A q \in Remote \ {r} : host'[q] = host[q]
        /\ \A g \in Fetcher, q \in Remote : g # f \/ q # r =>
              script'[g][q] = script[g][q] /\ call'[g][q] = call[g][q]
    BY <1>8 DEF F!CurlEnds, F!TarBegins, F!TarEnds, F!ScriptEnds, F!ScriptFails, F!Step, F!Goes,
                F!InstallFails, F!Warned
  <2>2. ASSUME r \notin InPath \cup overlap' PROVE Apart(r)'
    <3>1. /\ Apart(r) /\ ~F!Trusted(r)
          /\ \A g \in Fetcher \ {f} : script[g][r] = "none" /\ script'[g][r] = "none"
      BY <1>0, <2>1, <2>2
    <3>2. CASE F!CurlEnds(f, r) \/ F!TarBegins(f, r) \/ F!TarEnds(f, r)
      <4>1. UNCHANGED call
        BY <3>2 DEF F!CurlEnds, F!TarBegins, F!TarEnds
      <4>2. ~F!Trusted(r)'
        BY <2>1, <3>1, <4>1 DEF F!Trusted
      <4>3. /\ script'[f][r] = "unpack" => host'[r].by = f
            /\ script'[f][r] = "rm" => host'[r].bin = "whole"
        <5>1. CASE F!CurlEnds(f, r)
          BY <5>1 DEF F!CurlEnds, F!Step
        <5>2. CASE F!TarBegins(f, r)
          BY <5>2 DEF F!TarBegins, F!Step
        <5>3. CASE F!TarEnds(f, r)
          BY <3>1, <5>3 DEF F!TarEnds, F!Step
        <5> QED
          BY <3>2, <5>1, <5>2, <5>3
      <4> QED
        BY <3>1, <4>2, <4>3
    <3>3. CASE F!ScriptEnds(f, r)
      <4>1. host'[r].bin = "whole" /\ script'[f][r] = "none"
        BY <3>1, <3>3 DEF F!ScriptEnds, F!Step
      <4> QED
        BY <3>1, <4>1
    <3>4. CASE F!ScriptFails(f, r)
      <4>1. script'[f][r] = "none"
        BY <3>4 DEF F!ScriptFails
      <4>2. call'[f][r] \in {call[f][r], "ended"}
        BY <3>4 DEF F!ScriptFails, F!InstallFails, F!Warned, F!Goes
      <4>3. ~F!Trusted(r)'
        BY <2>1, <3>1, <4>2 DEF F!Trusted
      <4> QED
        BY <3>1, <4>1, <4>3
    <3> QED
      BY <1>8, <3>2, <3>3, <3>4
  <2> QED
    BY <1>b, <2>1, <2>2
<1>9. CASE UNCHANGED F!vars
  BY <1>a, <1>3, <1>9 DEF F!vars, F!Trusted, F!installed
<1> QED
  BY <1>1, <1>4, <1>5, <1>6, <1>7, <1>8, <1>9 DEF F!Next

LEMMA FetchInductive == F!Spec => []F!IInv
<1>1. F!IInv /\ [F!Next]_F!vars => F!IInv'
  BY FetchTypes, FetchAccounted, FetchApart DEF F!IInv
<1> QED
  BY <1>1, FetchInit, PTL DEF F!Spec

(* When FetchAll returns every remote is listed or warned about (FetchAll).  *)
THEOREM EveryRemoteIsAccounted == F!Spec => []EveryRemoteAccounted
<1>1. F!IInv => EveryRemoteAccounted
  <2> SUFFICES ASSUME F!IInv, NEW f \in Fetcher, result[f].pc = "returned"
               PROVE  result[f].out = answered[f] /\ result[f].warned = Remote \ answered[f]
    BY DEF EveryRemoteAccounted, F!EveryRemoteAccounted
  <2> QED
    BY DEF F!IInv, F!Accounted, F!Ended
<1> QED
  BY <1>1, FetchInductive, PTL

(* What is used or recorded is whole.                                        *)
THEOREM WholeBinary == F!Spec => []RunsWholeBinary
<1>1. F!IInv => RunsWholeBinary
  BY DEF F!IInv, F!ScriptsApart, F!Trusted, RunsWholeBinary, F!RunsWholeBinary
<1> QED
  BY <1>1, FetchInductive, PTL

-----------------------------------------------------------------------------
(* A behaviour of the composition is one of each of its parts: what the    *)
(* theorems say of a part they say of what the runs check.                 *)
THEOREM DiscoveryIsTheirs == DiscoverySpec => Spec /\ E!Spec /\ Q!Spec /\ F!Spec
<1>1. DiscoveryInit => Init /\ E!Init /\ Q!Init /\ F!Init
  BY DEF DiscoveryInit
<1>2. [DiscoveryNext]_<<vars, logVars, paneVars, fetchVars, part>> =>
         [Next]_vars /\ [E!Next]_E!vars /\ [Q!Next]_Q!vars /\ [F!Next]_F!vars
  <2> SUFFICES ASSUME [DiscoveryNext]_<<vars, logVars, paneVars, fetchVars, part>>
               PROVE  [Next]_vars /\ [E!Next]_E!vars /\ [Q!Next]_Q!vars /\ [F!Next]_F!vars
    OBVIOUS
  <2> USE DEF logVars, paneVars, fetchVars, E!vars, Q!vars, F!vars
  <2> QED
    BY DEF DiscoveryNext
<1> QED
  BY <1>1, <1>2, PTL DEF DiscoverySpec, Spec, E!Spec, Q!Spec, F!Spec

(* In whatever part, types are kept.                                       *)
THEOREM TypesAreKept == DiscoverySpec => []TypesHold
<1>1. DiscoveryInit => part \in Parts
  BY DEF DiscoveryInit
<1>2. part \in Parts /\ [DiscoveryNext]_<<vars, logVars, paneVars, fetchVars, part>> => (part \in Parts)'
  BY DEF DiscoveryNext
<1>3. Spec => []IInv
  BY InitIInv, NextIInv, PTL DEF Spec
<1>4. E!Spec => []E!TypeOK
  BY LogInit, LogTypes, PTL DEF E!Spec
<1>5. IInv /\ E!TypeOK /\ Q!IInv /\ F!IInv /\ part \in Parts => TypesHold
  BY PartsAssumption DEF IInv, Q!IInv, F!IInv, TypesHold
<1> QED
  BY <1>1, <1>2, <1>3, <1>4, <1>5, DiscoveryIsTheirs, PanesInductive, FetchInductive, PTL
     DEF DiscoverySpec
=============================================================================
