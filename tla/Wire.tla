-------------------------------- MODULE Wire --------------------------------
(***************************************************************************)
(* The two pipes between the host and one cell (`protocol.py` over the      *)
(* cell's stdin and stdout), one frame at a time.  A frame is a record with *)
(* a kind `m`; the kind "malformed" stands for everything `read_frame`      *)
(* refuses: a short, empty or oversized frame, a body that is not canonical *)
(* JSON, a body that is not an object, an object with no "m".               *)
(***************************************************************************)
EXTENDS Naturals, Sequences

CONSTANT
    PipeFrames      \* frames a pipe holds before a write to it blocks

ASSUME PipeFramesAssumption == PipeFrames \in Nat \ {0}

VARIABLES
    toCell,         \* frames written by the host and not read by the cell yet
    fromCell,       \* frames written by the cell and not read by the host yet
    hostEnd,        \* "open" until the host closes its streams
    cellReads,      \* does anyone hold the cell's end of toCell?
    cellWrites      \* does anyone hold the cell's end of fromCell?

wireVars == <<toCell, fromCell, hostEnd, cellReads, cellWrites>>

WireInit ==
    /\ toCell = <<>>
    /\ fromCell = <<>>
    /\ hostEnd = "open"
    /\ cellReads = TRUE
    /\ cellWrites = TRUE

-----------------------------------------------------------------------------
(* The host's ends.  encode_frame raises ProtocolError for a message that is *)
(* too long, before a byte of it is written.  A write into a full pipe       *)
(* waits; one nobody can read any more raises BrokenPipeError, one to a      *)
(* stream the host has closed ValueError.                                    *)

HostRefusesFrame(long) ==
    /\ long
    /\ UNCHANGED wireVars

HostWrites(frame, long) ==
    /\ ~long
    /\ hostEnd = "open"
    /\ cellReads
    /\ Len(toCell) < PipeFrames
    /\ toCell' = Append(toCell, frame)
    /\ UNCHANGED <<fromCell, hostEnd, cellReads, cellWrites>>

HostWriteBreaks(long) ==
    /\ ~long
    /\ ~cellReads \/ hostEnd = "closed"
    /\ UNCHANGED wireVars

Heard == Head(fromCell)

(* Reads: a frame, the end of the stream, or the ValueError of a stream that *)
(* was closed under the reader.                                              *)
HostReads ==
    /\ hostEnd = "open"
    /\ fromCell # <<>>
    /\ fromCell' = Tail(fromCell)
    /\ UNCHANGED <<toCell, hostEnd, cellReads, cellWrites>>

(* Faulty HostReadsEOF: the host still holds a write end itself.             *)
HostReadsEOFLate ==
    /\ fromCell = <<>>
    /\ ~cellWrites /\ hostEnd = "closed"
    /\ UNCHANGED wireVars

HostReadsEOF ==
    /\ hostEnd = "open"
    /\ fromCell = <<>>
    /\ ~cellWrites
    /\ UNCHANGED wireVars

HostReadBreaks ==
    /\ hostEnd = "closed"
    /\ UNCHANGED wireVars

HostCloses ==
    /\ hostEnd' = "closed"
    /\ UNCHANGED <<toCell, fromCell, cellReads, cellWrites>>

-----------------------------------------------------------------------------
(* The cell's ends.                                                          *)

CellWritesFrame(frame) ==
    /\ cellWrites
    /\ Len(fromCell) < PipeFrames
    /\ fromCell' = Append(fromCell, frame)
    /\ UNCHANGED <<toCell, hostEnd, cellReads, cellWrites>>

Told == Head(toCell)

CellReadsFrame ==
    /\ cellReads
    /\ toCell # <<>>
    /\ toCell' = Tail(toCell)
    /\ UNCHANGED <<fromCell, hostEnd, cellReads, cellWrites>>

CellReadsEOF ==
    /\ cellReads
    /\ toCell = <<>>
    /\ hostEnd = "closed"
    /\ UNCHANGED wireVars

(* Death closes both ends.  What the cell already wrote stays readable; what *)
(* it never read is lost.                                                    *)
CellEndsClose ==
    /\ cellReads' = FALSE
    /\ cellWrites' = FALSE
    /\ toCell' = <<>>
    /\ UNCHANGED <<fromCell, hostEnd>>

=============================================================================
