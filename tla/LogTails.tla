------------------------------- MODULE LogTails --------------------------------
(***************************************************************************)
(* How the logs of instances and containers are read: the last lines of a    *)
(* stream, for Incus plain, for Podman and Docker plain or in frames.         *)
(* Streams come in fragments, of which the last of a line ends in a newline; *)
(* the reader is told of the end or of an error.                             *)
(*                                                                          *)
(* A line stands for its number and its length.  A line ends with its frame. *)
(***************************************************************************)
EXTENDS Naturals, Sequences, SequencesExt

CONSTANTS MaxLines, \* logsTailLines
          MaxBytes, \* logsMaxBytes
          Stream,   \* the length that the stream's name adds to a line
          Lengths,  \* of fragments
          MaxRead   \* bound on the lines of a stream

VARIABLES format, \* "incus", "plain" (Podman or Docker without frames) or "frames"
          pc,     \* "stream": between frames; "read": in a line; "done"
          raw,    \* length of the line so far, newline included
          discard,
          tail,   \* the tail of the stream: lines and bytes
          frame,  \* the tail of the frame
          passed, \* the lines that went by
          framed, \* those of the frame
          cut,    \* a frame was longer than the bounds allow
          open    \* length of the present line, also when it is discarded

logTailsVars == <<format, pc, raw, discard, tail, frame, passed, framed, cut, open>>

LogTailsAssumption ==
    /\ {MaxLines, MaxBytes, Stream, MaxRead} \subseteq Nat
    /\ Lengths \subseteq Nat \ {0}

newLogLines == [lines |-> <<>>, bytes |-> 0]

\* Podman and Docker count the name of the stream, Incus keeps none.
logLineSize(line) == IF format = "incus" THEN line.length ELSE line.length + Stream

Fits(t) == Len(t.lines) <= MaxLines /\ t.bytes <= MaxBytes

DropFirst(t) == [lines |-> Tail(t.lines), bytes |-> t.bytes - logLineSize(Head(t.lines))]

More(t, line) == [lines |-> Append(t.lines, line), bytes |-> t.bytes + logLineSize(line)]

\* Mutant: at most one line is dropped for each one that is added.
addDropsOne(t, line) ==
    LET more == More(t, line)
    IN  IF logLineSize(line) > MaxBytes THEN t
        ELSE IF Fits(more) THEN more ELSE DropFirst(more)

\* Appends a line and drops lines from the front until the rest fits.
add(t, line) ==
    LET more == More(t, line)
        trimmed[k \in 0..Len(more.lines)] ==
          IF k = 0 THEN more
          ELSE IF Fits(trimmed[k - 1]) THEN trimmed[k - 1] ELSE DropFirst(trimmed[k - 1])
    IN  IF logLineSize(line) > MaxBytes THEN t ELSE trimmed[Len(more.lines)]

-----------------------------------------------------------------------------
Init ==
    /\ format \in {"incus", "plain", "frames"}
    /\ pc = IF format = "frames" THEN "stream" ELSE "read"
    /\ raw = 0 /\ discard = FALSE /\ open = 0
    /\ tail = newLogLines /\ frame = newLogLines
    /\ passed = <<>> /\ framed = <<>> /\ cut = FALSE

Number == Len(passed) + Len(framed) + 1

\* A line is complete: it is kept unless it was discarded.  stripped is what
\* TrimRight takes off, whole the length with the newline.
LineEnds(whole, kept, stripped) ==
    LET line == [number |-> Number, length |-> kept - stripped]
        past == [number |-> Number, length |-> open + whole - stripped,
                 whole |-> open + whole]
        into(t) == IF kept = 0 THEN t ELSE add(t, line)
    IN  /\ raw' = 0 /\ discard' = FALSE /\ open' = 0
        /\ IF format = "frames"
           THEN /\ frame' = into(frame) /\ framed' = Append(framed, past)
                /\ UNCHANGED <<tail, passed>>
           ELSE /\ tail' = into(tail) /\ passed' = Append(passed, past)
                /\ UNCHANGED <<frame, framed>>

\* One turn of the read loop.
readLines(length, newline) ==
    LET fits == ~discard /\ raw + length <= MaxBytes
    IN  /\ pc = "read" /\ Number <= MaxRead
        /\ IF newline
           THEN LineEnds(length, IF fits THEN raw + length ELSE 0, 1)
           ELSE /\ raw' = IF fits THEN raw + length ELSE 0
                /\ discard' = ~fits
                /\ open <= MaxBytes /\ open' = open + length
                /\ UNCHANGED <<tail, frame, passed, framed>>
        /\ UNCHANGED <<format, pc, cut>>

\* The end of a stream without frames ends its last line.
ReadEnds ==
    /\ pc = "read" /\ format # "frames"
    /\ pc' = "done"
    /\ IF open > 0 THEN LineEnds(0, IF discard THEN 0 ELSE raw, 0)
       ELSE UNCHANGED <<raw, discard, open, tail, frame, passed, framed>>
    /\ UNCHANGED <<format, cut>>

\* An error leaves the unfinished line out, and with it the frame.
ReadFails ==
    /\ pc = "read"
    /\ pc' = "done"
    /\ frame' = newLogLines /\ framed' = <<>>
    /\ UNCHANGED <<format, raw, discard, open, tail, passed, cut>>

\* A header, or what is none: the stream's end, or bytes that are no header.
FrameHeader ==
    /\ pc = "stream"
    /\ pc' \in {"read", "done"}
    /\ frame' = newLogLines /\ framed' = <<>>
    /\ raw' = 0 /\ discard' = FALSE /\ open' = 0
    /\ UNCHANGED <<format, tail, passed, cut>>

\* The frame's last line has ended as at the end of a stream.
FrameLines ==
    IF open > 0 /\ ~discard THEN add(frame, [number |-> Number, length |-> raw]) ELSE frame

\* A line that fits at all, newline included.
Short(line) == line.whole <= MaxBytes /\ logLineSize(line) <= MaxBytes

readMultiplexedLogLines ==
    /\ pc = "read" /\ format = "frames"
    /\ pc' = "stream"
    /\ tail' = FoldLeft(add, tail, FrameLines.lines)
    /\ LET all == framed \o (IF open = 0 THEN <<>>
                             ELSE <<[number |-> Number, length |-> open, whole |-> open]>>)
       IN  /\ passed' = passed \o all
           /\ cut' = (cut \/ Len(FrameLines.lines) < Len(SelectSeq(all, Short)))
    /\ frame' = newLogLines /\ framed' = <<>>
    /\ raw' = 0 /\ discard' = FALSE /\ open' = 0
    /\ UNCHANGED format

Next ==
    \/ \E length \in Lengths, newline \in BOOLEAN : readLines(length, newline)
    \/ ReadEnds \/ ReadFails \/ FrameHeader \/ readMultiplexedLogLines

Spec == Init /\ [][Next]_logTailsVars

-----------------------------------------------------------------------------
(* Properties                                                               *)

\* The bounds as one would define them: of the lines that fit at all, newline
\* included, as many of the last as fit together.
Reference(lines) ==
    LET kept == SelectSeq(lines, Short)
        From(i) == SubSeq(kept, i, Len(kept))
        Bytes(s) == FoldLeft(LAMBDA sum, l : sum + logLineSize(l), 0, s)
        Good(i) == Len(From(i)) <= MaxLines /\ Bytes(From(i)) <= MaxBytes
    IN  From(CHOOSE i \in 1..(Len(kept) + 1) :
               Good(i) /\ \A j \in 1..(i - 1) : ~Good(j))

\* At any time the tail holds exactly the last complete lines of the stream that
\* fit the two bounds, and a line too long vanishes whole.  A frame that alone
\* exceeds the bounds is cut on its own, which may leave a gap after lines of an
\* earlier frame; even then the lines are in order and within the
\* bounds, because the count of bytes is right.
TailIsExact ==
    LET lengths(s) == [i \in DOMAIN s |-> <<s[i].number, s[i].length>>] IN
    /\ cut \/ lengths(tail.lines) = lengths(Reference(passed))
    /\ \A i, j \in DOMAIN tail.lines : i < j => tail.lines[i].number < tail.lines[j].number
    /\ tail.bytes = FoldLeft(LAMBDA sum, l : sum + logLineSize(l), 0, tail.lines)
    /\ Fits(tail)

==============================================================================
