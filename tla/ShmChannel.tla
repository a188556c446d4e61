----------------------------- MODULE ShmChannel -----------------------------
(***************************************************************************)
(* One shared-memory channel (shm_transport.cpp): a ring of slots that one *)
(* process writes and another reads without locks, the reader skipping to  *)
(* the newest packet.                                                      *)
(*                                                                         *)
(* The steps are the accesses to the shared words and the two ends of a    *)
(* copy. Nothing keeps the writer from the slot that is being read: it may *)
(* lap the reader any number of times within one copy. A segment outlives  *)
(* the processes that map it; Close of the writer removes the name, which  *)
(* by then may lead to the segment of its successor, and a reader that has *)
(* a segment mapped goes on reading it.                                    *)
(*                                                                         *)
(* Abstracted: a packet is the number of its write; sizes, permissions and *)
(* the configuration, which the two ends share, are left out.              *)
(***************************************************************************)
EXTENDS Integers

CONSTANTS
    Capacity,     \* slots of the ring
    MaxPackets,   \* bound: packets that are written
    MaxSegments,  \* bound: segments that are created under the name
    MaxRestarts   \* bound: starts of a writer

ASSUME ChannelAssumption ==
    /\ Capacity \in Nat \ {0}   \* Write divides by it
    /\ {MaxPackets, MaxSegments, MaxRestarts} \subseteq Nat

VARIABLES
    linked,    \* segment that the name leads to, 0 when there is none
    segments,  \* segments created so far
    ring,      \* per segment: header and slots
    writer,    \* writing process: its segment, its place in Write or Init
    closing,   \* processes whose Close has yet to remove the name
    reader,    \* reading process: likewise in Read
    written,   \* packets written so far
    starts,    \* writers started so far
    laps,      \* history: packets in or after writing since Read took the index
    last,      \* history: the newest packet returned by an undisturbed Read
    left,      \* history: packets published before the reader's session
    stale      \* history: calls of Read that a new writer disturbs

channelVars == <<linked, segments, ring, writer, closing, reader, written,
                 starts, laps, last, left, stale>>

Slots == 0..(Capacity - 1)
Segments == 1..MaxSegments
Torn == -1
Contents == {Torn} \cup (0..MaxPackets)   \* 0: never written

NoSegment == [made |-> FALSE, write |-> 0, read |-> 0,
              slot |-> [s \in Slots |-> 0]]
Absent == [at |-> "gone", seg |-> 0, index |-> 0, copy |-> 0]

ChannelTypeOK ==
    /\ linked \in 0..MaxSegments /\ segments \in 0..MaxSegments
    /\ ring \in [Segments -> [made : BOOLEAN, write : Slots, read : Slots,
                              slot : [Slots -> Contents]]]
    /\ writer \in [at : {"gone", "reset", "open", "copy"},
                   seg : 0..MaxSegments, index : Slots, copy : {0}]
    /\ reader \in [at : {"gone", "open", "copy", "store"},
                   seg : 0..MaxSegments, index : Slots, copy : Contents]
    /\ written \in 0..MaxPackets /\ starts \in 0..MaxRestarts
    /\ closing \in Nat
    /\ laps \in 0..MaxPackets
    /\ last \in 0..MaxPackets /\ left \in 0..MaxPackets
    /\ stale \in 0..2

ChannelInit ==
    /\ linked = 0 /\ segments = 0
    /\ ring = [s \in Segments |-> NoSegment]
    /\ writer = Absent /\ reader = Absent
    /\ closing = 0 /\ written = 0 /\ starts = 0
    /\ laps = 0 /\ last = 0 /\ left = 0 /\ stale = 0

-----------------------------------------------------------------------------
\* shm_open: the segment that the name leads to, or a new one. It is made
\* when its capacity is set.
Opened == IF linked # 0 THEN linked ELSE segments + 1

Open ==
    /\ Opened <= MaxSegments
    /\ linked' = Opened
    /\ segments' = IF linked = 0 THEN segments + 1 ELSE segments

\* Init of the writer sets both indices, one after the other, also under a
\* reader that is at work: between the two the reader sees what lies behind
\* the first slot, and a call in progress stores its index over the second.
StartWriter ==
    /\ writer.at = "gone" /\ starts < MaxRestarts
    /\ Open
    /\ writer' = [Absent EXCEPT !.at = "reset", !.seg = Opened]
    /\ ring' = [ring EXCEPT ![Opened].write = 0]
    /\ starts' = starts + 1
    /\ stale' = IF reader.seg # Opened THEN stale
                ELSE IF reader.at = "open" THEN 1 ELSE 2
    /\ UNCHANGED <<closing, reader, written, laps, last, left>>

ResetReadIndex ==
    /\ writer.at = "reset"
    /\ writer' = [writer EXCEPT !.at = "open"]
    /\ ring' = [ring EXCEPT ![writer.seg].read = 0, ![writer.seg].made = TRUE]
    /\ stale' = IF reader.seg # writer.seg THEN stale
                ELSE IF reader.at = "open" THEN 0 ELSE 2
    /\ UNCHANGED <<linked, segments, closing, reader, written, starts, laps,
                   last, left>>

\* Packets that readers may have seen.
Published == IF writer.at = "copy" THEN written - 1 ELSE written

\* Init of the reader: what lies in a segment that was made before is not for
\* this session.
StartReader ==
    /\ reader.at = "gone"
    /\ Open
    /\ reader' = [Absent EXCEPT !.at = "open", !.seg = Opened]
    /\ ring' = [ring EXCEPT ![Opened].read =
                    IF ring[Opened].made THEN ring[Opened].write ELSE 0,
                            ![Opened].write =
                    IF ring[Opened].made THEN @ ELSE 0,
                            ![Opened].made = TRUE]
    /\ laps' = 0 /\ left' = Published /\ stale' = 0
    /\ UNCHANGED <<writer, closing, written, starts, last>>

\* Close of the writer: it writes no more, and its successor may start before
\* it removes the name, whatever that leads to then. A process that dies
\* removes nothing.
CloseWriter ==
    /\ writer.at = "open"
    /\ writer' = Absent
    /\ closing' = closing + 1
    /\ UNCHANGED <<linked, segments, ring, reader, written, starts, laps, last,
                   left, stale>>

Unlink ==
    /\ closing > 0
    /\ closing' = closing - 1
    /\ linked' = 0
    /\ UNCHANGED <<segments, ring, writer, reader, written, starts, laps, last,
                   left, stale>>

WriterDies ==
    /\ writer.at # "gone"
    /\ writer' = Absent
    /\ UNCHANGED <<linked, segments, ring, closing, reader, written, starts,
                   laps, last, left, stale>>

ReaderEnds ==
    /\ reader.at # "gone"
    /\ reader' = Absent
    /\ UNCHANGED <<linked, segments, ring, writer, closing, written, starts,
                   laps, last, left, stale>>

-----------------------------------------------------------------------------
\* The slot of the newest packet.
VariantNextSlot(index) == index

LatestIndex(index) == IF index = 0 THEN Capacity - 1 ELSE index - 1

\* The writer and the reader work in the same segment.
Together == writer.seg = reader.seg

\* Write: the copy into the slot, then the index. A copy that the reader is
\* making of that slot is spoilt.
Write ==
    /\ writer.at = "open" /\ written < MaxPackets
    /\ LET index == ring[writer.seg].write
       IN /\ writer' = [writer EXCEPT !.at = "copy", !.index = index]
          /\ ring' = [ring EXCEPT ![writer.seg].slot[index] = Torn]
    /\ reader' = IF reader.at = "copy" /\ Together
                    /\ LatestIndex(reader.index) = writer'.index
                 THEN [reader EXCEPT !.copy = Torn] ELSE reader
    /\ laps' = IF reader.at = "copy" /\ Together THEN laps + 1 ELSE laps
    /\ written' = written + 1
    /\ UNCHANGED <<linked, segments, closing, starts, last, left, stale>>

NextIndex(index) == (index + 1) % Capacity

Publish ==
    /\ writer.at = "copy"
    /\ writer' = [writer EXCEPT !.at = "open"]
    /\ ring' = [ring EXCEPT ![writer.seg].slot[writer.index] = written,
                            ![writer.seg].write = NextIndex(writer.index)]
    /\ UNCHANGED <<linked, segments, closing, reader, written, starts, laps,
                   last, left, stale>>

-----------------------------------------------------------------------------
\* Read: the indices, the copy, the index.
Seen == ring[reader.seg].write # ring[reader.seg].read

Read ==
    /\ reader.at = "open" /\ Seen
    /\ reader' = [reader EXCEPT !.at = "copy",
                                !.index = ring[reader.seg].write]
    /\ laps' = IF writer.at = "copy" /\ Together THEN 1 ELSE 0
    /\ UNCHANGED <<linked, segments, ring, writer, closing, written, starts,
                   last, left, stale>>

\* What a copy holds at its end: the packet of its slot, or, when the slot was
\* written meanwhile (a data race), parts of several packets or the one that
\* was being written.
CopyResults ==
    LET slot == ring[reader.seg].slot[LatestIndex(reader.index)]
    IN IF reader.copy = Torn THEN {Torn, slot, written} ELSE {slot}

Copy ==
    /\ reader.at = "copy"
    /\ \E copy \in CopyResults :
          reader' = [reader EXCEPT !.at = "store", !.copy = copy]
    /\ UNCHANGED <<linked, segments, ring, writer, closing, written, starts,
                   laps, last, left, stale>>

\* No writer started under this call, and none went around the ring.
NotLapped == laps < Capacity
Undisturbed == stale = 0 /\ NotLapped

Return ==
    /\ reader.at = "store"
    /\ reader' = [reader EXCEPT !.at = "open", !.index = 0, !.copy = 0]
    /\ ring' = [ring EXCEPT ![reader.seg].read = reader.index]
    /\ last' = IF stale < 2 /\ NotLapped /\ reader.copy > last
               THEN reader.copy ELSE last
    /\ laps' = 0
    /\ stale' = IF stale > 0 THEN stale - 1 ELSE 0
    /\ UNCHANGED <<linked, segments, writer, closing, written, starts, left>>

ChannelNext ==
    \/ StartWriter \/ ResetReadIndex \/ CloseWriter \/ Unlink \/ WriterDies
    \/ StartReader \/ ReaderEnds
    \/ Write \/ Publish
    \/ Read \/ Copy \/ Return

ChannelSpec == ChannelInit /\ [][ChannelNext]_channelVars

-----------------------------------------------------------------------------
(* Properties                                                              *)

\* A call of Read during which fewer than Capacity packets are in writing or
\* written hands out a whole packet, newer than all that such calls handed out
\* before: commands and states are neither mixed nor replayed. A writer that
\* starts under a live reader may disturb the call in progress and the next
\* one, no other. The code bounds neither: a reader that is held up within its
\* copy for Capacity periods of the writer takes over a mixed packet.
OnlyNewer == reader.at = "store" /\ Undisturbed => reader.copy > last

\* "A new reader session must not consume commands left by an old process"
\* (shm_transport.cpp:152). The code breaks this: the reader sees the index
\* that a starting writer resets first and takes the last slot for new.
OldStaysUnread == reader.at = "store" => reader.copy \notin 1..left

\* "Reader can also create, any start order is supported"
\* (transport_shm_impl.cpp:60): a reader that starts finds the segment of the
\* writer. The code breaks this: the unlink of a process that ends removes the
\* name from the segment of its successor.
WriterIsFound == writer.at = "open" => linked = writer.seg
=============================================================================
