----------------------------- MODULE TermStream -----------------------------
(***************************************************************************)
(* What one terminal of internal/webterm shows its browsers: readLoop and  *)
(* waitLoop broadcast chunks of output and the "[process exited]" marker,  *)
(* first into the ring buffer and then, under t.mu, to every subscriber;   *)
(* Subscribe replays the ring and then joins the subscribers.  Ring and    *)
(* subscribers are guarded by different locks, and neither side holds both *)
(* at once, so a broadcast and a Subscribe interleave.                     *)
(*                                                                         *)
(* Output is a series of numbered chunks; the ring holds whole chunks.     *)
(* Reads may return buffered output after the process has exited.  A write *)
(* to a client that blocks is modelled in WebTerm.                         *)
(***************************************************************************)
EXTENDS Naturals, Sequences

CONSTANTS Client,     (* WebSocket connections; each subscribes once        *)
          MaxChunk,   (* bound: chunks of output                            *)
          Capacity    (* chunks the ring buffer holds                       *)

ASSUME TermStreamAssumption == MaxChunk \in Nat /\ Capacity \in Nat \ {0}

Marker == 0           (* "\r\n[process exited]\r\n"                         *)

VARIABLES
    ring,      (* ringBuffer.buf                                            *)
    subs,      (* Terminal.subs                                             *)
    exited,    (* Terminal.exited                                           *)
    reader,    (* readLoop: the last chunk read, and where it is            *)
    waiter,    (* where waitLoop is                                         *)
    client     (* connections: where they are, what was written to them,    *)
               (* and how much of that was replay                           *)

vars == <<ring, subs, exited, reader, waiter, client>>

Item == 0..MaxChunk

TypeOK ==
    /\ ring \in Seq(Item)
    /\ subs \in SUBSET Client
    /\ exited \in BOOLEAN
    /\ reader \in [chunk : 0..MaxChunk, pc : {"read", "ring", "fan"}]
    /\ waiter \in {"wait", "ring", "fan", "close", "done"}
    /\ client \in [Client -> [pc : {"new", "check", "marker", "add", "live", "gone"},
                              got : Seq(Item), replayed : Nat]]

Init ==
    /\ ring = <<>>
    /\ subs = {}
    /\ exited = FALSE
    /\ reader = [chunk |-> 0, pc |-> "read"]
    /\ waiter = "wait"
    /\ client = [c \in Client |-> [pc |-> "new", got |-> <<>>, replayed |-> 0]]

-----------------------------------------------------------------------------
(* ringBuffer.Write drops the oldest beyond capacity.                      *)
Kept(buf) ==
    IF Len(buf) > Capacity
    THEN SubSeq(buf, Len(buf) - Capacity + 1, Len(buf))
    ELSE buf

(* broadcast, under t.mu: every subscriber is written to; one whose        *)
(* connection is gone fails and is dropped.                                *)
FanOut(item) ==
    /\ client' = [c \in Client |->
                    IF c \in subs /\ client[c].pc = "live"
                    THEN [client[c] EXCEPT !.got = Append(@, item)]
                    ELSE client[c]]
    /\ subs' = {c \in subs : client[c].pc = "live"}

(* readLoop: Read, ring.Write, fan-out.                                    *)
Read ==
    /\ reader.pc = "read" /\ reader.chunk < MaxChunk
    /\ reader' = [chunk |-> reader.chunk + 1, pc |-> "ring"]
    /\ UNCHANGED <<ring, subs, exited, waiter, client>>

ReadRing ==
    /\ reader.pc = "ring"
    /\ ring' = Kept(Append(ring, reader.chunk))
    /\ reader' = [reader EXCEPT !.pc = "fan"]
    /\ UNCHANGED <<subs, exited, waiter, client>>

ReadFan ==
    /\ reader.pc = "fan"
    /\ FanOut(reader.chunk)
    /\ reader' = [reader EXCEPT !.pc = "read"]
    /\ UNCHANGED <<ring, exited, waiter>>

(* waitLoop: Wait returns and exited is set, then the marker is broadcast, *)
(* then exitCh is closed.                                                  *)
Exit ==
    /\ waiter = "wait"
    /\ exited' = TRUE
    /\ waiter' = "ring"
    /\ UNCHANGED <<ring, subs, reader, client>>

ExitRing ==
    /\ waiter = "ring"
    /\ ring' = Kept(Append(ring, Marker))
    /\ waiter' = "fan"
    /\ UNCHANGED <<subs, exited, reader, client>>

ExitFan ==
    /\ waiter = "fan"
    /\ FanOut(Marker)
    /\ waiter' = "close"
    /\ UNCHANGED <<ring, exited, reader>>

ExitClose ==
    /\ waiter = "close"
    /\ waiter' = "done"
    /\ UNCHANGED <<ring, subs, exited, reader, client>>

-----------------------------------------------------------------------------
Replay_afterJoin(c) ==
    /\ \/ /\ client[c].pc = "new"
          /\ client' = [client EXCEPT ![c].pc = "live"]
          /\ subs' = subs \cup {c}
       \/ /\ client[c].pc = "live" /\ client[c].replayed = 0
          /\ client' = [client EXCEPT ![c].got = @ \o ring,
                                      ![c].replayed = Len(ring)]
          /\ UNCHANGED subs
    /\ UNCHANGED <<ring, exited, reader, waiter>>

(* Subscribe: Snapshot, and the replay is written.                         *)
Replay(c) ==
    /\ client[c].pc = "new"
    /\ client' = [client EXCEPT ![c] = [pc |-> "check", got |-> ring,
                                        replayed |-> Len(ring)]]
    /\ UNCHANGED <<ring, subs, exited, reader, waiter>>

NeedsMarker_never == FALSE

NeedsMarker == exited

(* The critical section that joins, unless the process has exited: then    *)
(* t.mu is released for the explicit marker, and taken again to join.      *)
Join(c) ==
    /\ client[c].pc = "check" /\ ~ NeedsMarker
    /\ subs' = subs \cup {c}
    /\ client' = [client EXCEPT ![c].pc = "live"]
    /\ UNCHANGED <<ring, exited, reader, waiter>>

SeeExited(c) ==
    /\ client[c].pc = "check" /\ NeedsMarker
    /\ client' = [client EXCEPT ![c].pc = "marker"]
    /\ UNCHANGED <<ring, subs, exited, reader, waiter>>

WriteMarker(c) ==
    /\ client[c].pc = "marker"
    /\ client' = [client EXCEPT ![c].pc = "add", ![c].got = Append(@, Marker)]
    /\ UNCHANGED <<ring, subs, exited, reader, waiter>>

JoinExited(c) ==
    /\ client[c].pc = "add"
    /\ subs' = subs \cup {c}
    /\ client' = [client EXCEPT ![c].pc = "live"]
    /\ UNCHANGED <<ring, exited, reader, waiter>>

(* The browser goes away, and bridgeTerminal notices and unsubscribes.     *)
Disconnect(c) ==
    /\ client[c].pc = "live"
    /\ client' = [client EXCEPT ![c].pc = "gone"]
    /\ UNCHANGED <<ring, subs, exited, reader, waiter>>

Unsubscribe(c) ==
    /\ client[c].pc = "gone" /\ c \in subs
    /\ subs' = subs \ {c}
    /\ UNCHANGED <<ring, exited, reader, waiter, client>>

Output == Read \/ ReadRing \/ ReadFan

Waiting == ExitRing \/ ExitFan \/ ExitClose

Subscribe(c) ==
    Replay(c) \/ Join(c) \/ SeeExited(c) \/ WriteMarker(c) \/ JoinExited(c)

Next ==
    \/ Output \/ Exit \/ Waiting
    \/ \E c \in Client : Subscribe(c) \/ Disconnect(c) \/ Unsubscribe(c)

Spec == Init /\ [][Next]_vars

-----------------------------------------------------------------------------
(* From position m to n of s every chunk follows the one before it, with   *)
(* only markers in between.                                                *)
OnlyMarkers(s, m, n) == \A k \in m..n : s[k] = Marker

Contiguous(s, m, n) ==
    \A i, j \in m..n :
        i < j /\ Marker \notin {s[i], s[j]} /\ OnlyMarkers(s, i + 1, j - 1) => s[j] = s[i] + 1

(* Output is never reordered, and what is lost or repeated is lost or      *)
(* repeated where the replay ends and live output begins: the replay and   *)
(* the live output are each without a gap, and live output begins at the   *)
(* earliest with the chunk that ends the replay, as it was being broadcast *)
(* while the client subscribed.                                            *)
SeamOnly ==
    \A c \in Client :
        LET got == client[c].got
            seam == client[c].replayed
        IN  /\ Contiguous(got, 1, seam) /\ Contiguous(got, seam + 1, Len(got))
            /\ \A i \in 1..seam, j \in seam + 1..Len(got) : got[j] # Marker => got[j] >= got[i]

(* Why: the ring ends with the chunk last written to it, the live output   *)
(* of who is connected with the one last broadcast.                        *)
Written == IF reader.pc = "ring" THEN reader.chunk - 1 ELSE reader.chunk
Fanned == IF reader.pc = "read" THEN reader.chunk ELSE reader.chunk - 1

EndsWith(s, m, n, last) ==
    \A i \in m..n : s[i] # Marker /\ OnlyMarkers(s, i + 1, n) => s[i] = last

Told(x, written, fanned) ==
    /\ x.replayed <= Len(x.got)
    /\ Contiguous(x.got, 1, x.replayed) /\ Contiguous(x.got, x.replayed + 1, Len(x.got))
    /\ \A i \in 1..x.replayed, j \in x.replayed + 1..Len(x.got) :
          x.got[j] # Marker => x.got[j] >= x.got[i]
    /\ \A i \in 1..Len(x.got) : x.got[i] <= written
    /\ x.pc = "live" => EndsWith(x.got, x.replayed + 1, Len(x.got), fanned)
    /\ x.pc \in {"new", "check", "marker", "add"} => OnlyMarkers(x.got, x.replayed + 1, Len(x.got))

Sequenced ==
    /\ reader.pc # "read" => reader.chunk > 0
    /\ Contiguous(ring, 1, Len(ring)) /\ EndsWith(ring, 1, Len(ring), Written)
    /\ \A i \in 1..Len(ring) : ring[i] <= Written
    /\ \A c \in Client : Told(client[c], Written, Fanned)

(* Whenever Done reports the exit, every connected client has been told:   *)
(* however a Subscribe overlaps the exit, it gets the marker from the      *)
(* fan-out or writes it itself.                                            *)
Marked(c) == \E n \in 1..Len(client[c].got) : client[c].got[n] = Marker

ExitShown ==
    waiter = "done" => \A c \in Client : client[c].pc = "live" => Marked(c)

(* Why: a client joins unmarked only before exited is set, and then the    *)
(* fan-out of the marker finds it.                                         *)
JoinedBeforeExit ==
    /\ exited <=> waiter # "wait"
    /\ \A c \in Client :
           /\ client[c].pc = "live" => c \in subs
           /\ client[c].pc = "marker" => exited
           /\ client[c].pc = "add" => Marked(c)
           /\ client[c].pc = "live" /\ waiter \in {"close", "done"} => Marked(c)

IInv == TypeOK /\ JoinedBeforeExit
=============================================================================
