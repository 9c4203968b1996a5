---------------------- MODULE OSPFileInputStream_proofs ---------------------
(***************************************************************************)
(* The invariants of OSPFileInputStream, for every size of the buffer,     *)
(* every length of the stream and every portion the caller may ask for, as *)
(* long as their sum is below 2^32.                                        *)
(***************************************************************************)
EXTENDS OSPFileInputStream, TLAPS

\* readBytes has copied offset bytes of those asked for, and lacks length.
ArgsInv == pc # "idle" => offset + length = asked

\* The bytes from buf_pos to buf_mark are the last that were taken.
Buffered ==
    /\ buf_pos <= buf_mark /\ buf_mark <= buf_size
    /\ \A k \in buf_pos .. buf_mark - 1 : buffer[k] = taken - buf_mark + k + 1

\* The first n bytes of the caller's memory are the next ones of the stream.
Given(n) == \A i \in 0 .. n - 1 : dest[i] = start + i + 1

\* The loop of readBytes is only entered again for a rest that fits the buffer.
Looping ==
    pc = "loop" =>
        /\ start + offset = taken - (buf_mark - buf_pos)
        /\ start + asked <= StreamLength
        /\ Given(offset)
        /\ offset = 0 \/ length <= buf_size

\* fill_buffer works on the rest.  Reading into the caller's memory it never
\* asks read() for more than the rest, as what it starts behind is shorter.
Filling ==
    pc = "fill" =>
        /\ buf_pos = 0 /\ buf_mark = 0
        /\ start + offset = taken - fill.bytes_read
        /\ start + asked <= StreamLength
        /\ fill.min = length /\ fill.bytes_read < length
        /\ Given(offset)

FillingDirect ==
    pc = "fill" /\ fill.direct =>
        /\ offset <= buf_size /\ buf_size < length
        /\ fill.length = length
        /\ fill.offset = offset + fill.bytes_read /\ fill.offset <= length
        /\ Given(offset + fill.bytes_read)

FillingBuffer ==
    pc = "fill" /\ ~fill.direct =>
        /\ length <= buf_size
        /\ fill.length = buf_size
        /\ fill.offset = fill.bytes_read
        /\ \A k \in 0 .. fill.bytes_read - 1 :
              buffer[k] = taken - fill.bytes_read + k + 1

Unfailed == Buffered /\ Looping /\ Filling /\ FillingDirect /\ FillingBuffer

\* The inductive invariant.  Once read() has failed only the types are left.
IInv == TypeOK /\ ArgsInv /\ (~failed => Unfailed /\ DeliversStream)

-----------------------------------------------------------------------------
(* Arithmetic modulo 2^32.                                                 *)

\* A counter of readBytes is below 2^32 whatever is added to it or taken off.
LEMMA UnsignedType == ASSUME NEW x \in Int PROVE unsigned(x) \in UnsignedRange
  BY StreamAssumption DEF unsigned, UnsignedRange

\* A count below 2^32 does not wrap around.
LEMMA UnsignedSmall ==
    ASSUME NEW x \in Nat, x < UINT PROVE unsigned(x) = x
  BY StreamAssumption DEF unsigned

\* The buffer, every portion asked for and every byte of the stream have a
\* number below 2^32.
LEMMA Widths ==
    /\ buf_size \in Nat \ {0} /\ StreamLength \in Nat /\ UINT \in Nat \ {0}
    /\ buf_size \in UnsignedRange
    /\ \A n \in Lengths : n \in Nat \ {0} /\ n \in UnsignedRange
    /\ \A n \in Bytes : n \in Nat /\ n \in UnsignedRange
  BY StreamAssumption DEF UnsignedRange, Bytes

\* What is available is below 2^32, and the difference of mark and position
\* while the buffer is in order.
LEMMA Available ==
    ASSUME TypeOK
    PROVE  /\ available_bytes \in UnsignedRange
           /\ position \in Int /\ position <= StreamLength
           /\ Buffered => available_bytes = buf_mark - buf_pos
<1>1. /\ buf_mark \in Nat /\ buf_pos \in Nat /\ buf_mark < UINT
      /\ taken \in Int /\ taken <= StreamLength
  BY Widths DEF TypeOK, UnsignedRange, Bytes
<1>2. available_bytes \in UnsignedRange
  BY <1>1, UnsignedType DEF available_bytes
<1>3. ASSUME Buffered PROVE available_bytes = buf_mark - buf_pos
  <2>1. buf_mark - buf_pos \in Nat /\ buf_mark - buf_pos < UINT
    BY <1>1, <1>3, Widths DEF Buffered
  <2>2. QED
    BY <2>1, UnsignedSmall DEF available_bytes
<1>4. QED
  BY <1>1, <1>2, <1>3, Widths DEF position, UnsignedRange

-----------------------------------------------------------------------------
(* The actions: types.                                                     *)

\* memcpy, out of the buffer or past its end, gives the caller bytes.
LEMMA CopiedType ==
    ASSUME TypeOK, NEW n \in Int
    PROVE  copied(n) \in [DestIndices -> Bytes]
<1>1. ASSUME NEW i \in DestIndices, NEW k \in DOMAIN buffer PROVE buffer[k] \in Bytes
  BY DEF TypeOK
<1>2. 0 \in Bytes
  BY Widths DEF Bytes
<1>3. \A i \in DestIndices : dest[i] \in Bytes
  BY DEF TypeOK
<1>4. QED
  BY <1>1, <1>2, <1>3 DEF copied

\* read() puts bytes of the stream into whatever memory it is given.
LEMMA StoredType ==
    ASSUME TypeOK, NEW n \in Nat, n <= arrived - taken,
           NEW I \in SUBSET Int, NEW memory \in [I -> Bytes]
    PROVE  stored(memory, n) \in [I -> Bytes]
<1>1. ASSUME NEW i \in I PROVE stored(memory, n)[i] \in Bytes
  BY Widths DEF stored, TypeOK, Bytes, UnsignedRange
<1>2. QED
  BY <1>1 DEF stored

\* read() changes the n bytes from fill.offset on and no others.
LEMMA StoredAt ==
    ASSUME NEW n, NEW memory, NEW i \in DOMAIN memory
    PROVE  /\ i \in fill.offset .. fill.offset + n - 1
                 => stored(memory, n)[i] = taken + 1 + i - fill.offset
           /\ i \notin fill.offset .. fill.offset + n - 1
                 => stored(memory, n)[i] = memory[i]
  BY DEF stored

\* fill_buffer's counters stay below 2^32, also when -1 is added to them.
LEMMA AdvancedType ==
    ASSUME TypeOK, NEW n \in Int
    PROVE  advanced(n) \in [direct : BOOLEAN, offset : UnsignedRange, length : UnsignedRange,
                            min : UnsignedRange, bytes_read : UnsignedRange]
  <1>1. fill.offset + n \in Int /\ fill.bytes_read + n \in Int
    BY DEF TypeOK, UnsignedRange
  <1>2. unsigned(fill.offset + n) \in UnsignedRange /\ unsigned(fill.bytes_read + n) \in UnsignedRange
    BY <1>1, UnsignedType
  <1>3. QED
    BY <1>2 DEF TypeOK, advanced

\* fill_buffer returns to the loop of readBytes or to its end.
LEMMA FillReturnsType ==
    ASSUME TypeOK, NEW n \in UnsignedRange, fillReturns(n)
    PROVE  pc' \in {"idle", "loop"} /\ buf_mark' \in UnsignedRange
  BY DEF TypeOK, fillReturns

\* Every step keeps the types.
LEMMA TypeStep ==
    ASSUME IInv, [Next]_vars PROVE TypeOK' /\ ArgsInv'
<1> USE DEF IInv
<1>1. CASE UNCHANGED vars
  BY <1>1 DEF TypeOK, ArgsInv, vars, file, stream, args
<1>2. CASE Write \/ Close
  <2>1. arrived' \in Bytes /\ taken' \in 0..arrived' /\ closed' \in BOOLEAN
    <3>1. CASE Write
      BY <3>1, Widths DEF Write, TypeOK, Bytes
    <3>2. CASE Close
      BY <3>2 DEF Close, TypeOK
    <3>3. QED
      BY <1>2, <3>1, <3>2
  <2>2. QED
    BY <1>2, <2>1 DEF Write, Close, TypeOK, ArgsInv, stream, args
<1>3. ASSUME NEW n \in Lengths, readBytes(n) PROVE TypeOK' /\ ArgsInv'
  <2>1. start' \in Bytes
    <3>1. CASE failed
      BY <1>3, <3>1, Widths DEF readBytes, Bytes
    <3>2. CASE ~failed
      BY <1>3, <3>2, Available, Widths DEF readBytes, Bytes, DeliversStream, TypeOK
    <3>3. QED
      BY <3>1, <3>2
  <2>2. dest' \in [DestIndices -> Bytes]
    BY <1>3, Widths DEF readBytes, Bytes
  <2>3. offset' \in UnsignedRange /\ length' \in UnsignedRange /\ asked' \in Lengths
    BY <1>3, Widths DEF readBytes, UnsignedRange
  <2>4. QED
    BY <1>3, <2>1, <2>2, <2>3, Widths DEF readBytes, TypeOK, ArgsInv, file, stream
<1>4. CASE CopyAll
  <2>1. dest' \in [DestIndices -> Bytes]
    BY <1>4, CopiedType, Widths DEF CopyAll, TypeOK, UnsignedRange
  <2>2. buf_pos' \in UnsignedRange
    <3>1. buf_pos + length \in Int
      BY DEF TypeOK, UnsignedRange
    <3>2. QED
      BY <1>4, <3>1, UnsignedType DEF CopyAll
  <2>3. QED
    BY <1>4, <2>1, <2>2 DEF CopyAll, TypeOK, ArgsInv, file, args
<1>5. CASE CopyPart
  <2>1. /\ length - available_bytes \in UnsignedRange
        /\ offset + available_bytes \in UnsignedRange
        /\ offset + available_bytes + (length - available_bytes) = asked
    <3>1. /\ length \in 0 .. UINT - 1 /\ offset \in 0 .. UINT - 1 /\ UINT \in Nat
          /\ available_bytes \in 0 .. UINT - 1 /\ available_bytes < length
          /\ offset + length = asked /\ asked \in 0 .. UINT - 1
      <4>1. asked \in 0 .. UINT - 1 /\ UINT \in Nat
        BY Widths DEF TypeOK, UnsignedRange
      <4>2. QED
        BY <1>5, <4>1, Available DEF CopyPart, TypeOK, ArgsInv, UnsignedRange
    <3>2. QED
      BY <3>1 DEF UnsignedRange
  <2>2. dest' \in [DestIndices -> Bytes]
    BY <1>5, CopiedType, Available, Widths DEF CopyPart, UnsignedRange
  <2>3. 0 \in UnsignedRange
    BY Widths DEF UnsignedRange
  <2>4. fill' \in [direct : BOOLEAN, offset : UnsignedRange, length : UnsignedRange,
                   min : UnsignedRange, bytes_read : UnsignedRange]
    BY <1>5, <2>1, <2>3, Widths DEF CopyPart
  <2>5. QED
    BY <1>5, <2>1, <2>2, <2>3, <2>4 DEF CopyPart, TypeOK, ArgsInv, file
<1>6. ASSUME NEW n \in 1..StreamLength, ReadSome(n) PROVE TypeOK' /\ ArgsInv'
  <2>1. n \in Nat /\ n <= arrived - taken
    BY <1>6, Widths DEF ReadSome
  <2>2. taken' \in 0..arrived'
    BY <1>6, <2>1 DEF ReadSome, TypeOK, Bytes
  <2>3. DestIndices \in SUBSET Int /\ 0..(buf_size - 1) \in SUBSET Int
    BY Widths DEF DestIndices, MaxIndex
  <2>4. stored(dest, n) \in [DestIndices -> Bytes]
    BY <2>1, <2>3, StoredType DEF TypeOK
  <2>5. stored(buffer, n) \in [0..(buf_size - 1) -> Bytes]
    BY <2>1, <2>3, StoredType DEF TypeOK
  <2>6. unsigned(fill.bytes_read + n) \in UnsignedRange
    <3>1. fill.bytes_read + n \in Int
      BY <2>1 DEF TypeOK, UnsignedRange
    <3>2. QED
      BY <3>1, UnsignedType
  <2>7. pc' \in {"idle", "loop", "fill"} /\ buf_mark' \in UnsignedRange
    BY <1>6, <2>6, FillReturnsType DEF ReadSome, continuesWith, TypeOK
  <2>8. fill' = advanced(n) /\ n \in Int
    BY <1>6, <2>1 DEF ReadSome
  <2>9. QED
    BY <1>6, <2>2, <2>4, <2>5, <2>7, <2>8, AdvancedType
       DEF ReadSome, TypeOK, ArgsInv, args
<1>7. CASE ReadNothing \/ SelectFails
  <2>1. fill.bytes_read \in UnsignedRange
    BY DEF TypeOK
  <2>2. pc' \in {"idle", "loop", "fill"} /\ buf_mark' \in UnsignedRange
    BY <1>7, <2>1, FillReturnsType DEF ReadNothing, SelectFails
  <2>3. QED
    BY <1>7, <2>2 DEF ReadNothing, SelectFails, TypeOK, ArgsInv, file, args
<1>8. CASE ReadFails
  <2>1. -1 \in Int
    OBVIOUS
  <2>2. fill.bytes_read - 1 \in Int
    BY DEF TypeOK, UnsignedRange
  <2>3. pc' \in {"idle", "loop", "fill"} /\ buf_mark' \in UnsignedRange
    BY <1>8, <2>2, UnsignedType, FillReturnsType DEF ReadFails, continuesWith, TypeOK
  <2>4. fill' \in [direct : BOOLEAN, offset : UnsignedRange, length : UnsignedRange,
                   min : UnsignedRange, bytes_read : UnsignedRange]
    BY <1>8, <2>1, AdvancedType DEF ReadFails
  <2>5. QED
    BY <1>8, <2>3, <2>4 DEF ReadFails, TypeOK, ArgsInv, args
<1>9. QED
  BY <1>1, <1>2, <1>3, <1>4, <1>5, <1>6, <1>7, <1>8 DEF Next, Step

-----------------------------------------------------------------------------
(* The actions: the bytes, as long as read() has not failed.               *)

Intact == IInv /\ ~failed

\* What the variables of the stream are, as integers.
Numeric ==
    /\ buf_size \in Nat /\ 0 < buf_size /\ StreamLength \in Nat /\ UINT \in Nat
    /\ buf_size < UINT
    /\ buf_pos \in Nat /\ buf_mark \in Nat /\ offset \in Nat /\ length \in Nat
    /\ buf_mark < UINT /\ length < UINT
    /\ asked \in Nat /\ start \in Nat /\ taken \in Nat /\ taken <= StreamLength
    /\ fill.offset \in Nat /\ fill.length \in Nat /\ fill.min \in Nat
    /\ fill.bytes_read \in Nat /\ fill.direct \in BOOLEAN
    /\ DOMAIN buffer = 0 .. buf_size - 1 /\ DOMAIN dest = DestIndices

\* The type invariant, for arithmetic.
LEMMA Ranges == TypeOK => Numeric
  BY Widths DEF Numeric, TypeOK, UnsignedRange, Bytes

\* A new call begins with the byte after the last one that was given out.
LEMMA ReadBytesDelivers ==
    ASSUME Intact, NEW n \in Lengths, readBytes(n) PROVE Unfailed' /\ DeliversStream'
<1>0. TypeOK /\ Numeric
  BY Ranges DEF Intact, IInv
<1> USE <1>0 DEF Intact, IInv, Numeric
<1>1. n \in Nat
  BY Widths
<1>2. Buffered' /\ Filling' /\ FillingDirect' /\ FillingBuffer' /\ DeliversStream'
  BY DEF Unfailed, readBytes, Buffered, Filling, FillingDirect, FillingBuffer,
         DeliversStream, file, stream
<1>3. Looping'
  BY <1>1, Available DEF Unfailed, readBytes, Looping, Given, position, file, stream
<1>4. QED
  BY <1>2, <1>3 DEF Unfailed

\* What is copied out of the buffer are the next bytes of the stream.
LEMMA CopyAllDelivers ==
    ASSUME Intact, CopyAll PROVE Unfailed' /\ DeliversStream'
<1>0. TypeOK /\ Numeric
  BY Ranges DEF Intact, IInv
<1> USE <1>0 DEF Intact, IInv, Numeric
<1>1. available_bytes = buf_mark - buf_pos /\ Buffered
  BY Available DEF Unfailed
<1>2. /\ start + offset = taken - (buf_mark - buf_pos)
      /\ start + asked <= StreamLength /\ offset + length = asked
      /\ Given(offset)
  BY DEF CopyAll, Unfailed, Looping, ArgsInv
<1>3. buf_pos' = buf_pos + length /\ buf_pos' <= buf_mark
  BY <1>1, UnsignedSmall DEF CopyAll, Buffered, UnsignedRange
<1>4. Buffered'
  BY <1>1, <1>3 DEF CopyAll, Buffered, file
<1>5. TypeOK'
  BY TypeStep DEF Next, Step
<1>6. (position - start)' = asked
  <2>1. available_bytes' = buf_mark - (buf_pos + length)
    <3>1. buf_mark' = buf_mark /\ buf_pos' = buf_pos + length
      BY <1>3 DEF CopyAll
    <3>2. buf_mark' - buf_pos' \in Nat /\ buf_mark' - buf_pos' < UINT
      BY <1>1, <1>3, <3>1 DEF Buffered, UnsignedRange
    <3>3. QED
      BY <3>1, <3>2, UnsignedSmall DEF available_bytes
  <2>2. QED
    BY <1>2, <2>1 DEF CopyAll, position, file, args
<1>7. \A i \in 0 .. asked - 1 : dest'[i] = start + i + 1
  <2> TAKE i \in 0 .. asked - 1
  <2>1. i \in DestIndices
    BY <1>2 DEF DestIndices, MaxIndex
  <2>2. CASE i < offset
    BY <1>2, <2>1, <2>2 DEF CopyAll, copied, Given
  <2>3. CASE i >= offset
    <3>1. /\ i \in offset .. offset + length - 1
          /\ buf_pos + i - offset \in buf_pos .. buf_mark - 1
          /\ buf_pos + i - offset \in DOMAIN buffer
      BY <1>1, <1>2, <1>3, <2>3 DEF Buffered
    <3>2. dest'[i] = buffer[buf_pos + i - offset]
      BY <2>1, <3>1 DEF CopyAll, copied
    <3>3. buffer[buf_pos + i - offset] = taken - buf_mark + (buf_pos + i - offset) + 1
      BY <1>1, <3>1 DEF Buffered
    <3>4. QED
      BY <1>2, <3>2, <3>3
  <2>4. QED
    BY <2>2, <2>3
<1>8. QED
  BY <1>4, <1>6, <1>7
  DEF CopyAll, Unfailed, Looping, Filling, FillingDirect, FillingBuffer, DeliversStream, args

\* The rest of a portion is read straight into the caller's memory only when
\* nothing but the buffer's content was copied before, which is shorter than
\* the rest.
LEMMA CopyPartDelivers ==
    ASSUME Intact, CopyPart PROVE Unfailed' /\ DeliversStream'
<1>0. TypeOK /\ Numeric
  BY Ranges DEF Intact, IInv
<1> USE <1>0 DEF Intact, IInv, Numeric
<1> DEFINE available == buf_mark - buf_pos
<1>1. available_bytes = available /\ Buffered /\ available \in Nat /\ available <= buf_size
  BY Available DEF Unfailed, Buffered
<1>2. /\ start + offset = taken - available
      /\ start + asked <= StreamLength /\ offset + length = asked
      /\ Given(offset) /\ (offset = 0 \/ length <= buf_size)
  BY DEF CopyPart, Unfailed, Looping, ArgsInv
<1>3. /\ offset' = offset + available /\ length' = length - available /\ available < length
      /\ start' = start /\ asked' = asked /\ taken' = taken /\ pc' = "fill"
  BY <1>1 DEF CopyPart, file
<1>4. Given(offset)'
  <2> SUFFICES ASSUME NEW i \in 0 .. offset + available - 1
               PROVE  dest'[i] = start + i + 1
    BY <1>3 DEF Given
  <2>1. i \in DestIndices
    BY <1>1, <1>2, <1>3 DEF DestIndices, MaxIndex
  <2>2. CASE i < offset
    BY <1>1, <1>2, <2>1, <2>2 DEF CopyPart, copied, Given
  <2>3. CASE i >= offset
    <3>1. /\ i \in offset .. offset + available - 1
          /\ buf_pos + i - offset \in buf_pos .. buf_mark - 1
          /\ buf_pos + i - offset \in DOMAIN buffer
      BY <1>1, <1>2, <2>3 DEF Buffered
    <3>2. dest'[i] = buffer[buf_pos + i - offset]
      BY <1>1, <2>1, <3>1 DEF CopyPart, copied
    <3>3. buffer[buf_pos + i - offset] = taken - buf_mark + (buf_pos + i - offset) + 1
      BY <1>1, <3>1 DEF Buffered
    <3>4. QED
      BY <1>2, <3>2, <3>3
  <2>4. QED
    BY <1>1, <2>2, <2>3
<1>5. Buffered' /\ Looping' /\ DeliversStream'
  BY DEF CopyPart, Buffered, Looping, DeliversStream
<1>6. Filling'
  BY <1>1, <1>2, <1>3, <1>4 DEF CopyPart, Filling
<1>7. FillingDirect'
  <2>1. ASSUME fill'.direct
        PROVE  /\ length' > buf_size /\ offset' <= buf_size /\ fill'.length = length'
               /\ fill'.offset = offset' /\ fill'.bytes_read = 0
    BY <1>1, <1>2, <1>3, <2>1 DEF CopyPart
  <2>2. QED
    BY <1>1, <1>3, <1>4, <2>1 DEF FillingDirect, Given
<1>8. FillingBuffer'
  <2>1. ASSUME ~fill'.direct
        PROVE  /\ length' <= buf_size /\ fill'.length = buf_size
               /\ fill'.offset = 0 /\ fill'.bytes_read = 0
    BY <1>1, <1>3, <2>1 DEF CopyPart
  <2>2. QED
    BY <2>1 DEF FillingBuffer
<1>9. QED
  BY <1>5, <1>6, <1>7, <1>8 DEF Unfailed

\* fill_buffer returns with m bytes of what is asked of it in place.
LEMMA FillReturnsDelivers ==
    ASSUME Intact, pc = "fill", ~failed', UNCHANGED <<buf_pos, args>>, NEW m \in Nat,
           fillReturns(m),
           taken' = start + offset + m,
           fill.direct => /\ offset + m <= length
                          /\ \A i \in 0 .. offset + m - 1 : dest'[i] = start + i + 1,
           ~fill.direct => /\ m <= buf_size
                           /\ \A i \in 0 .. offset - 1 : dest'[i] = start + i + 1
                           /\ \A k \in 0 .. m - 1 : buffer'[k] = taken' - m + k + 1
    PROVE  Unfailed' /\ DeliversStream'
<1>0. TypeOK /\ Numeric
  BY Ranges DEF Intact, IInv
<1> USE <1>0 DEF Intact, IInv, Numeric
<1>1. /\ buf_pos = 0 /\ buf_mark = 0 /\ start + asked <= StreamLength
      /\ offset + length = asked
  BY DEF Unfailed, Filling, ArgsInv
<1>2. CASE fill.direct
  <2>1. pc' = "idle" /\ buf_mark' = 0 /\ buf_pos' = 0 /\ start' = start /\ asked' = asked
    BY <1>1, <1>2 DEF fillReturns, args
  <2>2. length > buf_size
    BY <1>2 DEF Unfailed, FillingDirect
  <2>3. available_bytes' = 0
    <3>1. unsigned(0) = 0
      BY UnsignedSmall
    <3>2. QED
      BY <2>1, <3>1 DEF available_bytes
  <2>4. (position - start)' = offset + m
    BY <2>1, <2>3 DEF position
  <2>5. DeliversStream'
    BY <1>1, <1>2, <2>1, <2>2, <2>4 DEF DeliversStream
  <2>6. QED
    BY <2>1, <2>5
    DEF Unfailed, Buffered, Looping, Filling, FillingDirect, FillingBuffer
<1>3. CASE ~fill.direct
  <2>1. /\ pc' = "loop" /\ buf_mark' = m /\ buf_pos' = 0 /\ start' = start /\ asked' = asked
        /\ offset' = offset /\ length' = length
    BY <1>1, <1>3 DEF fillReturns, args
  <2>2. Buffered'
    BY <1>3, <2>1 DEF Buffered
  <2>3. Looping'
    BY <1>1, <1>3, <2>1 DEF Looping, Given, Unfailed, FillingBuffer
  <2>4. QED
    BY <2>1, <2>2, <2>3
       DEF Unfailed, Filling, FillingDirect, FillingBuffer, DeliversStream
<1>4. QED
  BY <1>2, <1>3

\* read() appends to what fill_buffer has read, and never writes beyond what
\* was asked for or beyond the buffer.
LEMMA ReadSomeDelivers ==
    ASSUME Intact, NEW n \in 1..StreamLength, ReadSome(n) PROVE Unfailed' /\ DeliversStream'
<1>0. TypeOK /\ Numeric
  BY Ranges DEF Intact, IInv
<1> USE <1>0 DEF Intact, IInv, Numeric
<1> DEFINE read == fill.bytes_read
<1>1. n \in Nat /\ pc = "fill" /\ taken' = taken + n /\ taken' <= StreamLength
  BY DEF ReadSome, TypeOK, Bytes
<1>2. /\ buf_pos = 0 /\ buf_mark = 0 /\ start + offset = taken - read
      /\ start + asked <= StreamLength /\ offset + length = asked
      /\ fill.min = length /\ read < length /\ Given(offset)
  BY <1>1 DEF Unfailed, Filling, ArgsInv
<1>3. CASE fill.direct
  <2>1. /\ fill.length = length /\ fill.offset = offset + read /\ fill.offset <= length
        /\ length > buf_size /\ offset <= buf_size /\ Given(offset + read)
    BY <1>1, <1>3 DEF Unfailed, FillingDirect
  <2>2. count = length - fill.offset
    BY <2>1, UnsignedSmall DEF count, TypeOK, UnsignedRange
  <2>3. offset + read + n <= length
    BY <2>1, <2>2 DEF ReadSome
  <2>4. /\ unsigned(read + n) = read + n
        /\ unsigned(fill.offset + n) = offset + read + n
    BY <1>1, <2>1, <2>3, UnsignedSmall DEF TypeOK, UnsignedRange
  <2>5. \A i \in 0 .. offset + (read + n) - 1 : dest'[i] = start + i + 1
    <3> TAKE i \in 0 .. offset + (read + n) - 1
    <3>1. i \in DestIndices
      BY <1>1, <1>2, <2>3 DEF DestIndices, MaxIndex
    <3>2. CASE i < fill.offset
      <4>1. dest'[i] = dest[i]
        BY <1>3, <3>1, <3>2, StoredAt DEF ReadSome
      <4>2. QED
        BY <2>1, <3>2, <4>1 DEF Given
    <3>3. CASE i >= fill.offset
      <4>1. i \in fill.offset .. fill.offset + n - 1
        BY <1>1, <2>1, <3>3
      <4>2. dest'[i] = taken + 1 + i - fill.offset
        BY <1>3, <3>1, <4>1, StoredAt DEF ReadSome
      <4>3. i \in Int /\ fill.offset = offset + read
        BY <1>1, <2>1
      <4>4. taken + 1 + i - fill.offset = start + i + 1
        <5>1. start + offset = taken - read
          BY <1>2
        <5>2. /\ taken \in Int /\ start \in Int /\ offset \in Int /\ read \in Int
              /\ i \in Int
          BY <4>3
        <5>3. taken + 1 + i - (offset + read) = start + i + 1
          <6> HIDE <1>0 DEF Intact, IInv, Numeric, read
          <6>1. QED
            BY <5>1, <5>2
        <5>4. QED
          BY <4>3, <5>3
      <4>5. QED
        BY <4>2, <4>4
    <3>4. QED
      BY <3>2, <3>3
  <2>6. CASE unsigned(read + n) >= fill.min
    <3>1. fillReturns(read + n)
      BY <1>2, <2>4, <2>6 DEF ReadSome, continuesWith
    <3>2. UNCHANGED <<buf_pos, args>> /\ ~failed'
      BY DEF ReadSome
    <3>3. /\ read + n \in Nat /\ taken' = start + offset + (read + n)
          /\ offset + (read + n) <= length
      BY <1>1, <1>2, <2>3
    <3>4. QED
      BY <1>1, <1>3, <2>5, <3>1, <3>2, <3>3, FillReturnsDelivers
  <2>7. CASE unsigned(read + n) < fill.min
    <3>1. pc' = pc /\ buf_mark' = buf_mark /\ read + n < length
      BY <1>2, <2>4, <2>7 DEF ReadSome, continuesWith
    <3>2. /\ offset' = offset /\ length' = length /\ asked' = asked /\ start' = start
          /\ buf_pos' = buf_pos
      BY DEF ReadSome, args
    <3>3. /\ fill'.direct /\ fill'.offset = offset + (read + n) /\ fill'.length = length
          /\ fill'.min = length /\ fill'.bytes_read = read + n
      BY <1>2, <1>3, <2>1, <2>4 DEF ReadSome, advanced
    <3>4. Given(offset)' /\ Given(offset + fill.bytes_read)'
      BY <2>5, <3>2, <3>3, <1>1 DEF Given
    <3>5. QED
      BY <1>1, <1>2, <2>1, <2>3, <3>1, <3>2, <3>3, <3>4
      DEF Unfailed, Buffered, Looping, Filling, FillingDirect, FillingBuffer, DeliversStream
  <2>8. QED
    BY <1>2, <2>4, <2>6, <2>7, <1>1
<1>4. CASE ~fill.direct
  <2>1. /\ fill.length = buf_size /\ fill.offset = read /\ length <= buf_size
        /\ \A k \in 0 .. read - 1 : buffer[k] = taken - read + k + 1
    BY <1>1, <1>4 DEF Unfailed, FillingBuffer
  <2>2. count = buf_size - read
    BY <1>2, <2>1, UnsignedSmall DEF count, UnsignedRange
  <2>3. read + n <= buf_size
    BY <2>1, <2>2 DEF ReadSome
  <2>4. /\ unsigned(read + n) = read + n
        /\ unsigned(fill.offset + n) = read + n
    BY <1>1, <2>1, <2>3, UnsignedSmall DEF UnsignedRange
  <2>5. dest' = dest /\ Given(offset)
    BY <1>2, <1>4 DEF ReadSome
  <2>6. \A k \in 0 .. (read + n) - 1 : buffer'[k] = taken' - (read + n) + k + 1
    <3> TAKE k \in 0 .. (read + n) - 1
    <3>1. k \in DOMAIN buffer
      BY <1>1, <2>3
    <3>2. CASE k < read
      <4>1. buffer'[k] = buffer[k]
        BY <1>4, <2>1, <3>1, <3>2, StoredAt DEF ReadSome
      <4>2. k \in 0 .. read - 1
        BY <1>1, <3>2
      <4>3. taken - read + k + 1 = taken' - (read + n) + k + 1
        BY <1>1, <4>2
      <4>4. QED
        BY <2>1, <4>1, <4>2, <4>3
    <3>3. CASE k >= read
      <4>1. k \in fill.offset .. fill.offset + n - 1
        BY <1>1, <2>1, <3>3
      <4>2. buffer'[k] = taken + 1 + k - fill.offset
        BY <1>4, <3>1, <4>1, StoredAt DEF ReadSome
      <4>3. /\ k \in Int /\ fill.offset = read /\ taken' = taken + n
            /\ taken \in Int /\ read \in Int /\ n \in Int
        BY <1>1, <2>1
      <4>4. taken + 1 + k - fill.offset = taken' - (read + n) + k + 1
        BY ONLY <4>3
      <4>5. QED
        BY <4>2, <4>4
    <3>4. QED
      BY <3>2, <3>3
  <2>7. CASE unsigned(read + n) >= fill.min
    <3>1. fillReturns(read + n)
      BY <1>2, <2>4, <2>7 DEF ReadSome, continuesWith
    <3>2. UNCHANGED <<buf_pos, args>> /\ ~failed'
      BY DEF ReadSome
    <3>3. /\ read + n \in Nat /\ taken' = start + offset + (read + n)
      BY <1>1, <1>2
    <3>4. \A i \in 0 .. offset - 1 : dest'[i] = start + i + 1
      BY <2>5 DEF Given
    <3>5. QED
      BY <1>1, <1>4, <2>3, <2>6, <3>1, <3>2, <3>3, <3>4, FillReturnsDelivers
  <2>8. CASE unsigned(read + n) < fill.min
    <3>1. pc' = pc /\ buf_mark' = buf_mark /\ read + n < length
      BY <1>2, <2>4, <2>8 DEF ReadSome, continuesWith
    <3>2. /\ offset' = offset /\ length' = length /\ asked' = asked /\ start' = start
          /\ buf_pos' = buf_pos
      BY DEF ReadSome, args
    <3>3. /\ ~fill'.direct /\ fill'.offset = read + n /\ fill'.length = buf_size
          /\ fill'.min = length /\ fill'.bytes_read = read + n
      BY <1>2, <1>4, <2>1, <2>4 DEF ReadSome, advanced
    <3>4. Given(offset)'
      BY <2>5, <3>2 DEF Given
    <3>5. QED
      BY <1>1, <1>2, <2>1, <2>6, <3>1, <3>2, <3>3, <3>4
      DEF Unfailed, Buffered, Looping, Filling, FillingDirect, FillingBuffer, DeliversStream
  <2>9. QED
    BY <1>2, <2>4, <2>7, <2>8, <1>1
<1>5. QED
  BY <1>3, <1>4

\* At the end of the stream, and when a signal interrupts select(),
\* fill_buffer returns what it has.
LEMMA NothingReadDelivers ==
    ASSUME Intact, ReadNothing \/ SelectFails PROVE Unfailed' /\ DeliversStream'
<1>0. TypeOK /\ Numeric
  BY Ranges DEF Intact, IInv
<1> USE <1>0 DEF Intact, IInv, Numeric
<1>1. /\ pc = "fill" /\ fillReturns(fill.bytes_read) /\ UNCHANGED <<buf_pos, args>>
      /\ ~failed' /\ taken' = taken /\ dest' = dest /\ buffer' = buffer
  BY DEF ReadNothing, SelectFails, file
<1>2. taken = start + offset + fill.bytes_read /\ fill.bytes_read < length /\ Given(offset)
  BY <1>1 DEF Unfailed, Filling
<1>3. CASE fill.direct
  <2>1. offset + fill.bytes_read <= length /\ Given(offset + fill.bytes_read)
    BY <1>1, <1>3 DEF Unfailed, FillingDirect
  <2>2. QED
    BY <1>1, <1>2, <1>3, <2>1, FillReturnsDelivers DEF Given
<1>4. CASE ~fill.direct
  <2>1. /\ fill.bytes_read <= buf_size
        /\ \A k \in 0 .. fill.bytes_read - 1 : buffer[k] = taken - fill.bytes_read + k + 1
    BY <1>1, <1>2, <1>4 DEF Unfailed, FillingBuffer
  <2>2. QED
    BY <1>1, <1>2, <1>4, <2>1, FillReturnsDelivers DEF Given
<1>5. QED
  BY <1>3, <1>4

-----------------------------------------------------------------------------
(* Theorems.                                                               *)

\* Nothing has been asked for or delivered.
LEMMA Initial == Init => IInv
<1> SUFFICES ASSUME Init PROVE IInv
  OBVIOUS
<1>1. available_bytes = 0
  BY UnsignedSmall, Widths DEF Init, available_bytes
<1>2. TypeOK
  <2>1. 0 \in Bytes /\ 0 \in UnsignedRange
    BY Widths DEF Bytes, UnsignedRange
  <2>2. QED
    <3>1. /\ buffer \in [0 .. buf_size - 1 -> Bytes] /\ dest \in [DestIndices -> Bytes]
          /\ fill \in [direct : BOOLEAN, offset : UnsignedRange, length : UnsignedRange,
                       min : UnsignedRange, bytes_read : UnsignedRange]
      BY <2>1 DEF Init
    <3>2. closed \in BOOLEAN /\ failed \in BOOLEAN
      BY DEF Init
    <3>3. taken \in 0..arrived
      BY DEF Init
    <3>4. QED
      BY <2>1, <3>1, <3>2, <3>3 DEF Init, TypeOK
<1>3. Unfailed /\ ArgsInv
  BY Widths
     DEF Init, Unfailed, ArgsInv, Buffered, Looping, Filling, FillingDirect,
         FillingBuffer
<1>4. DeliversStream
  BY <1>1, Widths DEF Init, DeliversStream, position
<1>5. QED
  BY <1>2, <1>3, <1>4 DEF IInv

\* The inductive step.
LEMMA Inductive == IInv /\ [Next]_vars => IInv'
<1> SUFFICES ASSUME IInv, [Next]_vars PROVE IInv'
  OBVIOUS
<1>1. TypeOK' /\ ArgsInv'
  BY TypeStep
<1>2. ASSUME ~failed' PROVE Unfailed' /\ DeliversStream'
  <2>1. Intact
    BY <1>2
       DEF Intact, IInv, TypeOK, vars, file, Next, Step, Write, Close,
           readBytes, CopyAll,
                CopyPart, ReadSome, ReadNothing, SelectFails, ReadFails
  <2>2. CASE UNCHANGED vars \/ Write \/ Close
    BY <2>1, <2>2
       DEF Intact, IInv, vars, file, stream, args, Write, Close, Unfailed,
           Buffered,
       Looping, Filling, FillingDirect, FillingBuffer, Given, DeliversStream, position,
       available_bytes
  <2>3. ~ReadFails
    BY <1>2 DEF ReadFails
  <2>4. QED
    BY <2>1, <2>2, <2>3, ReadBytesDelivers, CopyAllDelivers, CopyPartDelivers,
       ReadSomeDelivers, NothingReadDelivers DEF Next, Step
<1>3. QED
  BY <1>1, <1>2 DEF IInv

\* The invariant holds in every state.
LEMMA Invariance == Spec => []IInv
  BY Initial, Inductive, PTL DEF Spec

\* Every variable keeps its type in all steps of readBytes and fill_buffer, a
\* failing read() included, whose -1 is added to unsigned counters: indices and
\* counts stay below 2^32, and the caller's memory and the buffer hold bytes of
\* the stream.
THEOREM TypeCorrect == Spec => []TypeOK
<1>1. IInv => TypeOK
  BY DEF IInv
<1>2. QED
  BY <1>1, Invariance, PTL

\* For every size of the buffer and every way the stream cuts its bytes into
\* portions: when readBytes returns, the caller has the next bytes of the
\* stream, none lost, repeated or made up, unless read() has failed.
THEOREM BytesInBytesOut == Spec => []DeliversStream
<1>1. IInv => DeliversStream
  BY DEF IInv, DeliversStream
<1>2. QED
  BY <1>1, Invariance, PTL
=============================================================================
