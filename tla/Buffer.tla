------------------------------- MODULE Buffer -------------------------------
(***************************************************************************)
(* muduo::net::Buffer: a vector of bytes with a read and a write index, as *)
(* one thread uses it.  A call that breaks its documented requirement (a   *)
(* retrieve of more than is readable, a prepend of more than fits) is not  *)
(* made; the assertions inside the operations are kept in fault.           *)
(***************************************************************************)
EXTENDS Integers, Sequences

CONSTANTS Byte,             \* the values of a byte
          kCheapPrepend, kInitialSize,
          ExtraSize,        \* sizeof extrabuf in readFd
          MaxReadable,      \* bound: readable bytes
          MaxReserve        \* bound: argument of shrink

ASSUME SizeAssumption ==
  /\ kCheapPrepend \in Nat /\ kInitialSize \in Nat /\ ExtraSize \in Nat
  /\ MaxReadable \in Nat /\ MaxReserve \in Nat
ASSUME ByteAssumption == 0 \in Byte

VARIABLES
  bytes,                    \* buffer_
  readerIndex,              \* readerIndex_
  writerIndex,              \* writerIndex_
  content,                  \* ghost: what was put in and not taken out
  prepended,                \* ghost: bytes prepended since the buffer was empty, at most kCheapPrepend
  fault                     \* has an assertion failed?

bufferVars == <<bytes, readerIndex, writerIndex, content, prepended, fault>>

Strings == UNION {[1 .. n -> Byte] : n \in 0 .. MaxReadable}

BufferInit ==
  /\ bytes = [i \in 1 .. kCheapPrepend + kInitialSize |-> 0]
  /\ readerIndex = kCheapPrepend /\ writerIndex = kCheapPrepend
  /\ content = <<>> /\ prepended = 0 /\ fault = FALSE

readableBytes == writerIndex - readerIndex
writableBytes == Len(bytes) - writerIndex
prependableBytes == readerIndex

\* vector::resize and std::copy
Resized(b, n) == [i \in 1 .. n |-> IF i \in DOMAIN b THEN b[i] ELSE 0]
Copied(b, at, data) ==
  [i \in 1 .. Len(b) |-> IF i - at \in DOMAIN data THEN data[i - at] ELSE b[i]]

Readable(b, r, w) == SubSeq(b, r + 1, w)

\* ensureWritableBytes(len) and makeSpace(len) of the buffer <<b, r, w>>: it has
\* the room, it grows, or its readable bytes move to the front.
Grows(b, r, w, len) == Len(b) - w + r < len + kCheapPrepend

\* Mutant: the readable bytes move to the very front.
ensureMovesToZero(b, r, w, len) ==
  IF Len(b) - w >= len THEN <<b, r, w>>
  ELSE IF Grows(b, r, w, len) THEN <<Resized(b, w + len), r, w>>
  ELSE <<Copied(b, 0, Readable(b, r, w)), 0, w - r>>

\* Mutant: the readable bytes never move.
ensureAlwaysGrows(b, r, w, len) ==
  IF Len(b) - w >= len THEN <<b, r, w>> ELSE <<Resized(b, w + len), r, w>>

ensureWritableBytes(b, r, w, len) ==
  IF Len(b) - w >= len THEN <<b, r, w>>
  ELSE IF Grows(b, r, w, len) THEN <<Resized(b, w + len), r, w>>
  ELSE <<Copied(b, kCheapPrepend, Readable(b, r, w)), kCheapPrepend, kCheapPrepend + w - r>>

\* The assertions of both.
EnsureAsserts(b, r, w, len) ==
  LET e == ensureWritableBytes(b, r, w, len)
  IN /\ Len(b) - w < len /\ ~Grows(b, r, w, len) => kCheapPrepend < r
     /\ Len(e[1]) - e[3] >= len

\* Mutant: the data goes to where the writable bytes began before makeSpace().
AppendedAtOldEnd(b, r, w, data) ==
  LET e == ensureWritableBytes(b, r, w, Len(data))
  IN <<Copied(e[1], w, data), e[2], e[3] + Len(data)>>

\* append(data, len): the buffer after it
Appended(b, r, w, data) ==
  LET e == ensureWritableBytes(b, r, w, Len(data))
  IN <<Copied(e[1], e[3], data), e[2], e[3] + Len(data)>>

\* swap(), and every other assignment to all of the three members
setBuffer(b) == bytes' = b[1] /\ readerIndex' = b[2] /\ writerIndex' = b[3]

\* append(), and what appendInt8, 16 and 32 do with the bytes of a number
append(data) ==
  /\ Len(content) + Len(data) <= MaxReadable
  /\ setBuffer(Appended(bytes, readerIndex, writerIndex, data))
  /\ fault' = ~EnsureAsserts(bytes, readerIndex, writerIndex, Len(data))
  /\ content' = content \o data
  /\ UNCHANGED prepended

\* prepend() and prependInt8, 16 and 32
prepend(data) ==
  /\ Len(content) + Len(data) <= MaxReadable
  /\ Len(data) <= prependableBytes
  /\ readerIndex' = readerIndex - Len(data)
  /\ bytes' = Copied(bytes, readerIndex', data)
  /\ content' = data \o content
  /\ prepended' = IF prepended + Len(data) < kCheapPrepend THEN prepended + Len(data)
                                                          ELSE kCheapPrepend
  /\ UNCHANGED <<writerIndex, fault>>

\* retrieve(), retrieveAll(), retrieveAsString() and retrieveInt8, 16 and 32
retrieve(len) ==
  /\ \/ /\ len < readableBytes
        /\ readerIndex' = readerIndex + len
        /\ UNCHANGED <<writerIndex, prepended>>
     \/ /\ len = readableBytes
        /\ readerIndex' = kCheapPrepend /\ writerIndex' = kCheapPrepend
        /\ prepended' = 0
  /\ content' = SubSeq(content, len + 1, Len(content))
  /\ UNCHANGED <<bytes, fault>>

\* shrink(reserve): the buffer "other" that is swapped in
Fresh == [i \in 1 .. kCheapPrepend + kInitialSize |-> 0]
shrink(reserve) ==
  LET other == ensureWritableBytes(Fresh, kCheapPrepend, kCheapPrepend, readableBytes + reserve)
  IN /\ setBuffer(Appended(other[1], other[2], other[3], Readable(bytes, readerIndex, writerIndex)))
     /\ fault' = ~EnsureAsserts(Fresh, kCheapPrepend, kCheapPrepend, readableBytes + reserve)
     /\ prepended' = 0
     /\ UNCHANGED content

\* readFd(): data is what readv(2) delivers, first into the writable bytes and
\* then into extrabuf, whose part is appended.
readFd(data) ==
  LET n == Len(data)
      first == SubSeq(data, 1, writableBytes)
      rest == SubSeq(data, writableBytes + 1, n)
      full == Copied(bytes, writerIndex, first)
  IN /\ Len(content) + n <= MaxReadable
     /\ n <= writableBytes + ExtraSize
     /\ \/ /\ n <= writableBytes
           /\ bytes' = Copied(bytes, writerIndex, data)
           /\ writerIndex' = writerIndex + n
           /\ UNCHANGED <<readerIndex, fault>>
        \/ /\ n > writableBytes
           /\ setBuffer(Appended(full, readerIndex, Len(bytes), rest))
           /\ fault' = ~EnsureAsserts(full, readerIndex, Len(bytes), Len(rest))
     /\ content' = content \o data
     /\ UNCHANGED prepended

BufferNext ==
  /\ ~fault
  /\ \/ \E data \in Strings : append(data) \/ prepend(data) \/ readFd(data)
     \/ \E len \in 0 .. readableBytes : retrieve(len)
     \/ \E reserve \in 0 .. MaxReserve : shrink(reserve)

BufferSpec == BufferInit /\ [][BufferNext]_bufferVars
-----------------------------------------------------------------------------
\* The picture at the head of Buffer.h: 0 <= readerIndex <= writerIndex <= size.
\* No assertion of makeSpace() or ensureWritableBytes() fails.
IndicesInOrder ==
  /\ ~fault
  /\ readerIndex \in Nat /\ writerIndex \in Nat
  /\ readerIndex <= writerIndex /\ writerIndex <= Len(bytes)

\* What can be read is what was put in and not taken out, in order: no move to
\* the front, no growth and no detour over extrabuf loses or repeats a byte.
ContentKept == Readable(bytes, readerIndex, writerIndex) = content

\* The room that a header needs is always there: kCheapPrepend bytes can be put
\* in front of whatever was appended, less those already prepended.
HeaderFits == readerIndex + prepended >= kCheapPrepend

\* Growing "writerIndex_ + len" instead of moving the data first does not let the
\* vector grow for ever: it is bounded by what was readable at one time.
MaxOf(m, n) == IF m > n THEN m ELSE n
SizeBounded ==
  Len(bytes) <= kCheapPrepend + MaxOf(kInitialSize, MaxReadable + MaxOf(MaxReadable, MaxReserve))
=============================================================================
