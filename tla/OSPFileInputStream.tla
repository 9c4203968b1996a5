------------------------- MODULE OSPFileInputStream -------------------------
(***************************************************************************)
(* class OSPFileInputStream: readBytes hands out the bytes of a pipe or    *)
(* socket in any portions the caller asks for, from a buffer of buf_size   *)
(* bytes that fill_buffer refills with select() and read().                *)
(*                                                                         *)
(* The bytes of the stream are numbered 1, 2, 3 ... and 0 is a byte that   *)
(* was never in the stream; the data themselves are of no interest.        *)
(***************************************************************************)
EXTENDS Integers

CONSTANTS
    buf_size,
    Lengths,       \* portions that the caller may ask for
    StreamLength,  \* bytes the other side writes in all (bounds the run)
    Signals,       \* whether signals interrupt select()
    UINT           \* 2^32: the modulus of unsigned int

ASSUME StreamAssumption ==
    /\ buf_size \in Nat \ {0} /\ StreamLength \in Nat
    /\ Lengths \subseteq Nat \ {0} /\ UINT \in Nat /\ Signals \in BOOLEAN
    /\ StreamLength + buf_size < UINT
    /\ \A l \in Lengths : l + StreamLength + buf_size < UINT

VARIABLES
    arrived,   \* bytes the other side has written
    closed,    \* the other side has closed its end
    taken,     \* bytes that read() has returned
    failed,    \* read() has returned -1
    buffer, buf_pos, buf_mark,
    pc,        \* "idle", "loop" in readBytes, "fill" in fill_buffer
    dest,      \* the caller's memory, from index 0
    offset, length,   \* variables of readBytes
    asked,     \* its length argument
    start,     \* bytes of the stream that were consumed before this call
    fill       \* parameters and variables of fill_buffer

file   == <<arrived, closed, taken, failed>>
stream == <<buffer, buf_pos, buf_mark>>
args   == <<offset, length, asked, start>>
vars   == <<file, stream, pc, dest, args, fill>>

UnsignedRange == 0 .. UINT - 1
signed(n)     == n  \* mutant of unsigned: int counters
unsigned(n)   == n % UINT

MaxIndex == StreamLength + 2 * buf_size
DestIndices == 0 .. 2 * MaxIndex
Bytes == 0 .. StreamLength

TypeOK ==
    /\ arrived \in Bytes /\ taken \in 0..arrived
    /\ closed \in BOOLEAN /\ failed \in BOOLEAN
    /\ buffer \in [0 .. buf_size - 1 -> Bytes]
    /\ buf_pos \in UnsignedRange /\ buf_mark \in UnsignedRange
    /\ pc \in {"idle", "loop", "fill"}
    /\ dest \in [DestIndices -> Bytes]
    /\ offset \in UnsignedRange /\ length \in UnsignedRange
    /\ asked \in Lengths \cup {0} /\ start \in Bytes
    /\ fill \in [direct : BOOLEAN, offset : UnsignedRange, length : UnsignedRange,
                 min : UnsignedRange, bytes_read : UnsignedRange]

Init ==
    /\ arrived = 0 /\ closed = FALSE /\ taken = 0 /\ failed = FALSE
    /\ buffer = [i \in 0 .. buf_size - 1 |-> 0] /\ buf_pos = 0 /\ buf_mark = 0
    /\ pc = "idle" /\ dest = [i \in DestIndices |-> 0]
    /\ offset = 0 /\ length = 0 /\ asked = 0 /\ start = 0
    /\ fill = [direct |-> FALSE, offset |-> 0, length |-> 0, min |-> 0,
               bytes_read |-> 0]

-----------------------------------------------------------------------------
(* The other side.                                                         *)

Write ==
    /\ ~closed
    /\ arrived' \in arrived + 1 .. StreamLength
    /\ UNCHANGED <<closed, taken, failed, stream, pc, dest, args, fill>>

Close ==
    /\ closed' = TRUE /\ ~closed
    /\ UNCHANGED <<arrived, taken, failed, stream, pc, dest, args, fill>>

-----------------------------------------------------------------------------
(* readBytes                                                               *)

available_bytes == unsigned(buf_mark - buf_pos)

\* Bytes of the stream that the caller has been given.
position == taken - available_bytes

readBytes(n) ==
    /\ pc = "idle" /\ position + n <= StreamLength
    /\ offset' = 0 /\ length' = n /\ asked' = n
    /\ start' = IF failed THEN 0 ELSE position
    /\ dest' = [i \in DestIndices |-> 0]
    /\ pc' = "loop"
    /\ UNCHANGED <<file, stream, fill>>

\* memcpy of n bytes from the buffer; past its end there is other memory.
copied(n) ==
    [i \in DestIndices |->
        IF i \in offset .. offset + n - 1
        THEN LET k == buf_pos + i - offset
             IN  IF k \in DOMAIN buffer THEN buffer[k] ELSE 0
        ELSE dest[i]]

\* There is enough in the buffer.
CopyAll ==
    /\ pc = "loop" /\ available_bytes >= length
    /\ dest' = copied(length)
    /\ buf_pos' = unsigned(buf_pos + length)
    /\ pc' = "idle"
    /\ UNCHANGED <<file, buffer, buf_mark, args, fill>>

\* Mutant of CopyPart: buf_mark is not reset with buf_pos.
CopyPartKeepsMark ==
    LET rest == length - available_bytes
    IN  /\ pc = "loop" /\ available_bytes < length
        /\ dest' = copied(available_bytes)
        /\ offset' = offset + available_bytes
        /\ length' = rest
        /\ fill' = [direct |-> FALSE, offset |-> buf_mark,
                    length |-> buf_size, min |-> rest, bytes_read |-> 0]
        /\ buf_pos' = 0
        /\ pc' = "fill"
        /\ UNCHANGED <<file, buffer, buf_mark, asked, start>>

\* What there is is copied and the buffer is empty; a rest that does not fit
\* into it is read straight into the caller's memory.
CopyPart ==
    LET rest == length - available_bytes
    IN  /\ pc = "loop" /\ available_bytes < length
        /\ dest' = copied(available_bytes)
        /\ offset' = offset + available_bytes
        /\ length' = rest
        /\ buf_pos' = 0 /\ buf_mark' = 0
        /\ fill' = IF rest > buf_size
                   THEN [direct |-> TRUE, offset |-> offset', length |-> rest,
                         min |-> rest, bytes_read |-> 0]
                   ELSE [direct |-> FALSE, offset |-> 0, length |-> buf_size,
                         min |-> rest, bytes_read |-> 0]
        /\ pc' = "fill"
        /\ UNCHANGED <<file, buffer, asked, start>>

-----------------------------------------------------------------------------
(* fill_buffer                                                             *)

\* Its return, and what readBytes does with it.
fillReturns(bytes_read) ==
    \/ fill.direct /\ pc' = "idle" /\ UNCHANGED buf_mark
    \/ ~fill.direct /\ pc' = "loop" /\ buf_mark' = bytes_read

\* Mutant of continuesWith: the loop waits until the buffer is full.
continuesUntilFull(bytes_read) ==
    \/ bytes_read >= fill.length /\ fillReturns(bytes_read)
    \/ bytes_read < fill.length /\ UNCHANGED <<pc, buf_mark>>

continuesWith(bytes_read) ==
    \/ bytes_read >= fill.min /\ fillReturns(bytes_read)
    \/ bytes_read < fill.min /\ UNCHANGED <<pc, buf_mark>>

advanced(n) == [direct |-> fill.direct, offset |-> unsigned(fill.offset + n),
                length |-> fill.length, min |-> fill.min,
                bytes_read |-> unsigned(fill.bytes_read + n)]

\* The third argument of read().
count == unsigned(fill.length - fill.offset)

stored(memory, n) ==
    [i \in DOMAIN memory |-> IF i \in fill.offset .. fill.offset + n - 1
                             THEN taken + 1 + i - fill.offset ELSE memory[i]]

\* select() reports data, and read() takes some of them.
ReadSome(n) ==
    /\ pc = "fill" /\ n <= count /\ n <= arrived - taken
    /\ taken' = taken + n
    /\ dest'   = IF fill.direct THEN stored(dest, n) ELSE dest
    /\ buffer' = IF fill.direct THEN buffer ELSE stored(buffer, n)
    /\ fill' = advanced(n)
    /\ continuesWith(unsigned(fill.bytes_read + n))
    /\ UNCHANGED <<arrived, closed, failed, buf_pos, args>>

\* read() returns 0 at the end of the stream, and when it is asked for 0
\* bytes.  The loop is left with what has been read.
ReadNothing ==
    /\ pc = "fill"
    /\ \/ closed /\ arrived = taken
       \/ count = 0 /\ arrived > taken
    /\ fillReturns(fill.bytes_read)
    /\ UNCHANGED <<file, buffer, buf_pos, dest, args, fill>>

\* A signal interrupts select(): like the end of the stream.
SelectFails ==
    /\ pc = "fill" /\ Signals
    /\ fillReturns(fill.bytes_read)
    /\ UNCHANGED <<file, buffer, buf_pos, dest, args, fill>>

\* The connection is reset: read() returns -1, which is added like a count.
ReadFails ==
    /\ pc = "fill" /\ closed
    /\ failed' = TRUE
    /\ fill' = advanced(-1)
    /\ continuesWith(unsigned(fill.bytes_read - 1))
    /\ UNCHANGED <<arrived, closed, taken, buffer, buf_pos, dest, args>>

Step ==
    \/ CopyAll \/ CopyPart
    \/ \E n \in 1..StreamLength : ReadSome(n)
    \/ ReadNothing \/ SelectFails \/ ReadFails

Next == Write \/ Close \/ (\E n \in Lengths : readBytes(n)) \/ Step

Spec == Init /\ [][Next]_vars

\* The thread in readBytes runs on, and select() reports the data that has
\* arrived unless a signal interrupts it every time.
FairSpec == /\ Spec
            /\ WF_vars(CopyAll \/ CopyPart)
            /\ WF_vars(ReadNothing)
            /\ SF_vars(\E n \in 1..StreamLength : ReadSome(n))

-----------------------------------------------------------------------------
(* Properties                                                              *)

\* The reference: bytes in, bytes out.  When readBytes returns, the caller's
\* memory holds the next bytes of the stream, none lost, repeated or made up,
\* however the stream cuts them into portions and signals interrupt select(),
\* unless read() has failed.  All that was asked for is there, except that a
\* portion larger than the buffer may have bytes missing at its end: they are
\* the ones that the next call begins with.
DeliversStream ==
    LET delivered == position - start
    IN  pc = "idle" /\ ~failed =>
            /\ delivered \in 0..asked
            /\ asked <= buf_size => delivered = asked
            /\ \A i \in 0 .. delivered - 1 : dest[i] = start + i + 1

\* The loops of readBytes and fill_buffer wait for no byte beyond those the
\* caller asks for: once these have been written the call returns.
DeliversInTime ==
    \A n \in 1..StreamLength :
        arrived >= n /\ start + asked = n ~> pc = "idle" \/ failed \/ start + asked # n
=============================================================================
