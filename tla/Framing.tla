------------------------------- MODULE Framing -------------------------------
(***************************************************************************)
(* One direction of the wire, byte by byte (`protocol.py`): a writer at one *)
(* end of a pipe and read_frame, called again and again, at the other.      *)
(* Wire takes the pipes a frame at a time and calls everything this reader  *)
(* refuses "malformed"; here is why it may.                                 *)
(*                                                                          *)
(* The writer is a cell: it may send frames through write_frame, it may     *)
(* write any bytes it likes, and it may die inside a write.                 *)
(***************************************************************************)
EXTENDS Integers, Sequences

CONSTANTS
    MAX_FRAME_BYTES,
    Messages,       \* the bodies that decode to an object with an "m"
    Noise,          \* bytes the cell writes past the protocol
    MaxStream       \* bound: bytes written

HEADER_BYTES == 4
Byte == 0..255

ASSUME LimitAssumption   == MAX_FRAME_BYTES \in Nat \ {0} /\ MAX_FRAME_BYTES < 16777216
ASSUME MessageAssumption == Messages \subseteq Seq(Byte) \ {<<>>}
ASSUME NoiseAssumption   == Noise \subseteq Byte /\ MaxStream \in Nat

VARIABLES
    stream,         \* history: every byte written
    closed,         \* has the writer's end been closed?
    posted,         \* history: the messages written whole
    bare,           \* history: were bytes written past the protocol?
    torn,           \* history: did the writer die inside a frame?
    at,             \* bytes taken from the pipe
    reading,        \* "header", "body", or "ended": what _read_exactly is at
    parts,          \* what it has of that, joined
    length,         \* the length declared for the body
    frames,         \* what read_frame has returned
    cuts,           \* history: where each of those began, and the next
    verdict         \* "open", "clean" for None, or the ProtocolError

writerVars == <<stream, closed, posted, bare, torn>>
readerVars == <<at, reading, parts, length, frames, cuts, verdict>>
vars == <<writerVars, readerVars>>

Init ==
    /\ stream = <<>> /\ closed = FALSE
    /\ posted = <<>> /\ bare = FALSE /\ torn = FALSE
    /\ at = 0 /\ reading = "header" /\ parts = <<>> /\ length = 0
    /\ frames = <<>> /\ cuts = <<0>> /\ verdict = "open"

-----------------------------------------------------------------------------
(* _HEADER, struct ">I".                                                     *)
Pack(n) == <<n \div 16777216, (n \div 65536) % 256, (n \div 256) % 256, n % 256>>
Unpack(h) == ((h[1] * 256 + h[2]) * 256 + h[3]) * 256 + h[4]

(* Faulty Fits: nobody checks what is sent.                                  *)
FitsAnyway(m) == Len(m) < 16777216
Fits(m) == Len(m) =< MAX_FRAME_BYTES

Encode(m) == Pack(Len(m)) \o m

WriteFrame(m) ==
    /\ ~closed /\ Fits(m)
    /\ Len(stream) + Len(Encode(m)) =< MaxStream
    /\ stream' = stream \o Encode(m)
    /\ posted' = Append(posted, m)
    /\ UNCHANGED <<closed, bare, torn, readerVars>>

(* Killed inside write_frame.                                                *)
Tear(m) ==
    /\ ~closed /\ Fits(m)
    /\ \E k \in 1..(Len(Encode(m)) - 1) :
          /\ Len(stream) + k =< MaxStream
          /\ stream' = stream \o SubSeq(Encode(m), 1, k)
    /\ closed' = TRUE /\ torn' = TRUE
    /\ UNCHANGED <<posted, bare, readerVars>>

WriteByte(b) ==
    /\ ~closed /\ Len(stream) < MaxStream
    /\ stream' = Append(stream, b)
    /\ bare' = TRUE
    /\ UNCHANGED <<closed, posted, torn, readerVars>>

Close ==
    /\ ~closed /\ closed' = TRUE
    /\ UNCHANGED <<stream, posted, bare, torn, readerVars>>

-----------------------------------------------------------------------------
(* read_frame.                                                               *)

Wanted    == IF reading = "header" THEN HEADER_BYTES ELSE length
Remaining == Wanted - Len(parts)

End(why) ==
    /\ reading' = "ended" /\ verdict' = why
    /\ UNCHANGED <<at, parts, length, frames, cuts>>

(* stream.read(remaining): whatever has arrived.                             *)
ReadSome ==
    /\ reading # "ended" /\ Remaining > 0
    /\ \E k \in 1..Remaining :
          /\ at + k =< Len(stream)
          /\ at' = at + k
          /\ parts' = parts \o SubSeq(stream, at + 1, at + k)
    /\ UNCHANGED <<reading, length, frames, cuts, verdict>>

AtEOF == closed /\ at = Len(stream)

(* Faulty ReadEOF: a stream that ends inside a header ends all the same.     *)
ReadEOFAnywhere ==
    /\ reading # "ended" /\ Remaining > 0 /\ AtEOF
    /\ End(IF reading = "header" THEN "clean" ELSE "short")

(* Faulty ReadEOF: the end of the stream is waited for like any byte.        *)
ReadEOFIgnored ==
    /\ reading # "ended" /\ Remaining > 0 /\ AtEOF
    /\ UNCHANGED readerVars

ReadEOF ==
    /\ reading # "ended" /\ Remaining > 0 /\ AtEOF
    /\ End(IF reading = "header" /\ parts = <<>> THEN "clean" ELSE "short")

HeaderRead ==
    /\ reading = "header" /\ Remaining = 0
    /\ IF Unpack(parts) = 0 THEN End("empty")
       ELSE IF Unpack(parts) > MAX_FRAME_BYTES THEN End("oversize")
       ELSE /\ reading' = "body" /\ parts' = <<>>
            /\ length' = Unpack(parts)
            /\ UNCHANGED <<at, frames, cuts, verdict>>

(* Faulty BodyRead: a body that does not decode is passed over.              *)
BodyReadSkipping ==
    /\ reading = "body" /\ Remaining = 0
    /\ reading' = "header" /\ parts' = <<>>
    /\ frames' = IF parts \in Messages THEN Append(frames, parts) ELSE frames
    /\ cuts' = Append(cuts, at)
    /\ UNCHANGED <<at, length, verdict>>

BodyRead ==
    /\ reading = "body" /\ Remaining = 0
    /\ IF parts \notin Messages THEN End("undecodable")
       ELSE /\ reading' = "header" /\ parts' = <<>>
            /\ frames' = Append(frames, parts)
            /\ cuts' = Append(cuts, at)
            /\ UNCHANGED <<at, length, verdict>>

-----------------------------------------------------------------------------
Write ==
    \/ \E m \in Messages : WriteFrame(m) \/ Tear(m)
    \/ \E b \in Noise : WriteByte(b)
    \/ Close

Read ==
    /\ ReadSome \/ ReadEOF \/ HeaderRead \/ BodyRead
    /\ UNCHANGED writerVars

Next == Write \/ Read

(* Nobody must write or close; a reader with something to read reads it.     *)
Spec == Init /\ [][Next]_vars /\ WF_vars(Read)

-----------------------------------------------------------------------------
TypeOK ==
    /\ stream \in Seq(Byte) /\ closed \in BOOLEAN
    /\ posted \in Seq(Seq(Byte)) /\ bare \in BOOLEAN /\ torn \in BOOLEAN
    /\ at \in 0..Len(stream)
    /\ reading \in {"header", "body", "ended"}
    /\ parts \in Seq(Byte)
    /\ length \in 0..MAX_FRAME_BYTES
    /\ frames \in Seq(Seq(Byte))
    /\ cuts \in Seq(Nat) /\ Len(cuts) = Len(frames) + 1
    /\ verdict \in {"open", "clean", "short", "empty", "oversize", "undecodable"}

(* The frame at p: its header, and its body if it declares n bytes.          *)
HeaderAt(p)  == SubSeq(stream, p + 1, p + HEADER_BYTES)
BodyAt(p, n) == SubSeq(stream, p + HEADER_BYTES + 1, p + HEADER_BYTES + n)
Here         == cuts[Len(cuts)]
Declared     == Unpack(HeaderAt(Here))

(* What read_frame has returned is the stream cut at the declared lengths,   *)
(* from its first byte, however the bytes arrived (protocol.py:54): a reader *)
(* that once took a byte too many or too few is out of step for good.        *)
FrameIsCut(i) ==
    LET n == cuts[i + 1] - cuts[i] - HEADER_BYTES
    IN  /\ n \in 1..MAX_FRAME_BYTES
        /\ cuts[i + 1] =< at
        /\ Unpack(HeaderAt(cuts[i])) = n
        /\ frames[i] = BodyAt(cuts[i], n)
        /\ frames[i] \in Messages

StreamIsCut == cuts[1] = 0 /\ \A i \in 1..Len(frames) : FrameIsCut(i)

(* How a conversation ends is what the bytes after the last frame say:       *)
(* nothing at all is a clean end, a fragment never is (protocol.py:11), and  *)
(* an oversized claim is refused without a byte of its body (protocol.py:8). *)
VerdictIsTrue ==
    /\ verdict = "clean" => closed /\ Here = Len(stream)
    /\ verdict = "short" =>
          /\ closed /\ Here < Len(stream)
          /\ Here + HEADER_BYTES =< Len(stream) =>
                Len(stream) < Here + HEADER_BYTES + Declared
    /\ verdict = "empty" => Declared = 0
    /\ verdict = "oversize" => at = Here + HEADER_BYTES /\ Declared > MAX_FRAME_BYTES
    /\ verdict = "undecodable" => BodyAt(Here, Declared) \notin Messages

(* Between two ends that both keep to protocol.py every message arrives, in  *)
(* order and once, and only a death inside a frame is an error.              *)
MessagesArrive ==
    ~bare =>
        /\ Len(frames) =< Len(posted)
        /\ frames = SubSeq(posted, 1, Len(frames))
        /\ verdict \in {"open", "clean", "short"} /\ (verdict = "short" => torn)
        /\ verdict = "clean" => ~torn /\ frames = posted

(* Once the writer's end is closed the reader comes to a verdict             *)
(* (protocol.py:63): the loop cannot wait for bytes nobody will send.        *)
ReaderEnds == closed ~> reading = "ended"

=============================================================================
