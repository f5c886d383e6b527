------------------------------ MODULE LastLine ------------------------------
(***************************************************************************)
(* How a worker's result line is picked out of its output                  *)
(* (internal/proc/lastline.go).  The output reaches the writer in chunks   *)
(* cut anywhere; Write consumes a chunk line by line, one step per turn of *)
(* its loop, and keeps a bounded part of it.  The process reads Line when  *)
(* the last Write is done.                                                 *)
(*                                                                         *)
(* A byte is a newline, a blank or something else; "" is <<>>.             *)
(***************************************************************************)
EXTENDS Integers, Sequences

CONSTANTS
    Bytes,          \* bound: the bytes of an output
    Newline,
    Blanks,         \* what TrimSpace removes
    MaxResult,      \* the longest line kept
    MaxChunk,       \* bound: bytes in one Write
    MaxOutput       \* bound: bytes in all

ASSUME LastLineBound ==
    /\ Newline \in Bytes
    /\ Blanks \subseteq Bytes \ {Newline}
    /\ MaxResult \in Nat
    /\ MaxChunk \in Nat
    /\ MaxOutput \in Nat

VARIABLES
    buf,    \* partial line so far
    long,   \* the partial line already exceeded MaxResult
    last,   \* the kept line
    rest,   \* what the Write under way has not consumed
    out     \* history: all the chunks, concatenated

vars == <<buf, long, last, rest, out>>

Init ==
    /\ buf = <<>>
    /\ long = FALSE
    /\ last = <<>>
    /\ rest = <<>>
    /\ out = <<>>

TrimSpace(s) ==
    LET solid == {i \in DOMAIN s : s[i] \notin Blanks}
    IN  IF solid = {} THEN <<>>
        ELSE SubSeq(s, CHOOSE i \in solid : \A j \in solid : i <= j,
                       CHOOSE i \in solid : \A j \in solid : i >= j)

\* take(b): what buf and long become.
TooLong(b) == long \/ Len(buf) + Len(b) > MaxResult

Taken(b) == IF TooLong(b) THEN <<>> ELSE buf \o b

\* Mutant: a line that is too long leaves the one before it.
EndLineKeeps(b, l) == IF ~l /\ TrimSpace(b) # <<>> THEN TrimSpace(b) ELSE last

\* endLine: the kept line after a line b that was too long if l.
EndLine(b, l) ==
    IF l THEN <<>> ELSE IF TrimSpace(b) # <<>> THEN TrimSpace(b) ELSE last

\* IndexByte(rest, '\n'), 0 when there is none.
NextNewline ==
    IF \E i \in DOMAIN rest : rest[i] = Newline
    THEN CHOOSE i \in DOMAIN rest :
            rest[i] = Newline /\ \A j \in 1 .. i - 1 : rest[j] # Newline
    ELSE 0

\* The copying goroutine of os/exec hands over the next chunk.
Write(b) ==
    /\ rest = <<>>
    /\ Len(out) + Len(b) <= MaxOutput
    /\ rest' = b
    /\ out' = out \o b
    /\ UNCHANGED <<buf, long, last>>

\* The loop found a newline: take what is before it and end the line.
WriteLine ==
    LET i == NextNewline
        b == SubSeq(rest, 1, i - 1)
    IN  /\ i > 0
        /\ last' = EndLine(Taken(b), TooLong(b))
        /\ long' = FALSE
        /\ buf' = <<>>
        /\ rest' = SubSeq(rest, i + 1, Len(rest))
        /\ UNCHANGED out

\* Mutant: a chunk without a newline is kept whatever its length.
WritePartUnchecked ==
    /\ rest # <<>>
    /\ NextNewline = 0
    /\ buf' = IF long THEN buf ELSE buf \o rest
    /\ rest' = <<>>
    /\ UNCHANGED <<long, last, out>>

\* No newline is left: take the rest of the chunk.
WritePart ==
    /\ rest # <<>>
    /\ NextNewline = 0
    /\ buf' = Taken(rest)
    /\ long' = TooLong(rest)
    /\ rest' = <<>>
    /\ UNCHANGED <<last, out>>

\* Line: a partial line at the end of the output counts as a line.
Line == IF long \/ buf # <<>> THEN EndLine(buf, long) ELSE last

Chunks == UNION {[1 .. n -> Bytes] : n \in 1 .. MaxChunk}

Next ==
    \/ \E b \in Chunks : Write(b)
    \/ WriteLine
    \/ WritePart

Spec == Init /\ [][Next]_vars
-----------------------------------------------------------------------------
\* The lines of an output s: each starts at the front or after a newline and
\* goes up to the next one or to the end.
Starts(s) == {1} \cup {i + 1 : i \in {j \in DOMAIN s : s[j] = Newline}}

LineFrom(s, i) ==
    LET end == CHOOSE j \in i .. Len(s) + 1 :
                  /\ j = Len(s) + 1 \/ s[j] = Newline
                  /\ \A k \in i .. j - 1 : s[k] # Newline
    IN  SubSeq(s, i, end - 1)

\* Where the lines of s start that are not blank, and those that are blank and
\* nevertheless too long.
Solid(s)     == {i \in Starts(s) : TrimSpace(LineFrom(s, i)) # <<>>}
LongBlank(s) == {i \in Starts(s) : /\ TrimSpace(LineFrom(s, i)) = <<>>
                                   /\ Len(LineFrom(s, i)) > MaxResult}

\* "Last non-empty line [...], at most 64 bytes" (README): of an output as a
\* whole, its last line that is not blank, or nothing if that one is too long.
Result(s) ==
    LET final == LineFrom(s, CHOOSE i \in Solid(s) : \A j \in Solid(s) : i >= j)
    IN  IF Solid(s) = {} \/ Len(final) > MaxResult THEN <<>> ELSE TrimSpace(final)

\* "A longer line is not truncated but invalidates the result" (MaxResult): also
\* one that is blank, which README does not say.
Invalidated(s) == \E i \in LongBlank(s) : \A j \in Solid(s) : j < i

\* lastLine: wherever the output is cut into chunks, Line is the result of the
\* whole output, or nothing if a blank line over the limit comes after it.
LineIsResult == rest = <<>> => Line = IF Invalidated(out) THEN <<>> ELSE Result(out)

\* lastLine: "at most MaxResult bytes of a partial line are held", of any
\* output, and neither is a longer line ever kept.
MemoryBounded == Len(buf) <= MaxResult /\ Len(last) <= MaxResult
=============================================================================
