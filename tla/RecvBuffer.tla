----------------------------- MODULE RecvBuffer -----------------------------
(***************************************************************************)
(* The receive side of a Session: RecvBuffer, ProcessRecv, RegisterRecv    *)
(* and the framing loop PacketSession::OnRecv.                             *)
(*                                                                         *)
(* WSARecv is posted again only after its completion has been handled, so  *)
(* a single thread at a time is in here and a completion is one step.  The *)
(* peer sends a stream of packets; a byte is named by its offset in that   *)
(* stream, so the buffer shows which byte of the stream each cell holds.   *)
(* A packet is at least its header and at most a uint16 long, as           *)
(* MakeSendBuffer builds it.                                               *)
(***************************************************************************)
EXTENDS Integers, Sequences

CONSTANTS HeaderSize,       \* sizeof(PacketHeader)
          MaxPacket,        \* the largest packet size
          BufferSize,       \* Session::BUFFER_SIZE
          BUFFER_COUNT,
          PacketEnds        \* offset in the stream after each packet, in order

Capacity == BufferSize * BUFFER_COUNT

PacketCount == Len(PacketEnds)
\* Where the k-th packet starts.
Start(k) == IF k = 1 THEN 0 ELSE PacketEnds[k - 1]

ASSUME RecvAssumption ==
    /\ HeaderSize \in Nat \ {0} /\ MaxPacket \in Nat /\ BufferSize \in Nat
    /\ HeaderSize <= MaxPacket /\ MaxPacket <= BufferSize
    /\ BUFFER_COUNT \in Nat /\ BUFFER_COUNT >= 3
    /\ PacketEnds \in Seq(Nat)
    /\ \A k \in 1..Len(PacketEnds) :
          LET bytes == PacketEnds[k] - Start(k)
          IN  HeaderSize <= bytes /\ bytes <= MaxPacket

VARIABLES readPos,      \* _readPos
          writePos,     \* _writePos
          buffer,       \* _buffer: the stream offset in each cell, or Junk
          posted,       \* a WSARecv is outstanding
          received,     \* bytes of the stream received so far
          handled,      \* packets handed to OnRecvPacket so far
          closed        \* why the session was disconnected, or "no"

recvVars == <<readPos, writePos, buffer, posted, received, handled, closed>>

Junk == -1
Cells == 0..Capacity - 1
DataSize == writePos - readPos
RecvFreeSize == Capacity - writePos

\* The stream offset of the first unread byte.
Consumed == Start(handled + 1)

\* RecvInit is right after ProcessConnect's first RegisterRecv.
RecvInit == /\ readPos = 0 /\ writePos = 0
            /\ buffer = [i \in Cells |-> Junk]
            /\ posted = TRUE
            /\ received = 0 /\ handled = 0 /\ closed = "no"

-----------------------------------------------------------------------------
\* n bytes of data hold all of the k-th unread packet, header included.
Complete(k, n) == PacketEnds[handled + k] - Consumed <= n

\* OnRecv over n bytes of data stops after k more packets: all of them are
\* complete and the next one is not.
Parses(k, n) ==
    /\ \A i \in 1..k : Complete(i, n)
    /\ handled + k < PacketCount => ~Complete(k + 1, n)

CleanNeeded_Never(w) == FALSE
CleanNeeded_Always(w) == TRUE
\* Clean moves the unread bytes to the front when less than one BufferSize is
\* free behind them.
CleanNeeded(w) == Capacity - w < BufferSize

Moved_SameCell(b, r, i) == b[i]
Moved(b, r, i) == b[r + i]

\* Clean, for cursors r and w and the bytes b.  memcpy of non-overlapping ranges;
\* CleanSafe says they never overlap.
Clean(r, w, b) ==
    IF w = r THEN readPos' = 0 /\ writePos' = 0 /\ buffer' = b
    ELSE IF CleanNeeded(w)
    THEN /\ readPos' = 0 /\ writePos' = w - r
         /\ buffer' = [i \in Cells |-> IF i < w - r THEN Moved(b, r, i) ELSE b[i]]
    ELSE readPos' = r /\ writePos' = w /\ buffer' = b

\* A completion with n > 0 bytes, which the kernel wrote at WritePos.  WSARecv
\* was given FreeSize, so OnWrite accepts n; OnRecv never returns more than it
\* was given, so OnRead accepts it.
ProcessRecv(n) ==
    /\ posted
    /\ n <= RecvFreeSize /\ received + n <= Start(PacketCount + 1)
    /\ received' = received + n
    /\ \E k \in 0..PacketCount - handled :
         /\ Parses(k, DataSize + n)
         /\ handled' = handled + k
         /\ Clean(readPos + (Start(handled + k + 1) - Consumed), writePos + n,
                  [i \in Cells |-> IF i \in writePos..writePos + n - 1
                                   THEN received + (i - writePos) ELSE buffer[i]])
    /\ posted' = FALSE
    /\ UNCHANGED closed

\* A completion with 0 bytes: the peer closed, or WSARecv was given no room.
ProcessRecvZero ==
    /\ posted
    /\ posted' = FALSE
    /\ closed' = IF RecvFreeSize = 0 THEN "no room" ELSE "Recv 0"
    /\ UNCHANGED <<readPos, writePos, buffer, received, handled>>

\* RegisterRecv at the end of ProcessRecv; a session that was closed meanwhile
\* posts nothing.
RegisterRecv ==
    /\ ~posted /\ closed = "no"
    /\ \/ posted' = TRUE /\ UNCHANGED closed
       \/ closed' = "elsewhere" /\ UNCHANGED posted
    /\ UNCHANGED <<readPos, writePos, buffer, received, handled>>

RecvNext == (\E n \in 1..Capacity : ProcessRecv(n)) \/ ProcessRecvZero \/ RegisterRecv

RecvSpec == RecvInit /\ [][RecvNext]_recvVars
-----------------------------------------------------------------------------
(* Properties *)

\* Types; the cursors stay in order inside the buffer.
RecvTypeOK ==
    /\ readPos \in Nat /\ writePos \in Nat
    /\ readPos <= writePos /\ writePos <= Capacity
    /\ buffer \in [Cells -> Nat \cup {Junk}]
    /\ posted \in BOOLEAN
    /\ received \in Nat /\ handled \in 0..PacketCount
    /\ closed \in {"no", "Recv 0", "no room", "elsewhere"}

\* What lies between the cursors is the unread part of the stream, byte for
\* byte, across any splitting of packets over receives and any compaction; the
\* cursors stay in the buffer, so no overflow branch of ProcessRecv is taken; and
\* every complete packet has been handed on.
Faithful ==
    /\ readPos <= writePos /\ writePos <= Capacity
    /\ DataSize = received - Consumed
    /\ \A i \in readPos..writePos - 1 : buffer[i] = Consumed + (i - readPos)
    /\ handled < PacketCount => PacketEnds[handled + 1] - Consumed > DataSize

\* WSARecv is always posted with at least BufferSize of room: a receive never
\* completes with 0 bytes for lack of space, which ProcessRecv would take for
\* the peer's close.
RoomToReceive == /\ posted => RecvFreeSize >= BufferSize
                 /\ closed # "no room"

\* When Clean moves the unread bytes, where they came from (the cell after the
\* parsed packets) and where they go do not overlap: memcpy is enough.
Source == writePos + (received' - received) - DataSize'
CleanSafe == [][readPos' # Source => DataSize' <= Source]_recvVars
=============================================================================
