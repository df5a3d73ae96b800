------------------------------ MODULE Framing ------------------------------
(***************************************************************************)
(* The framing of the pipe, src/bridge/framing.ts: encodeFrame, and the    *)
(* FrameDecoder at the other end, which is given the bytes in chunks cut   *)
(* anywhere and keeps them in a buffer that it grows and compacts.  It is  *)
(* what lets BridgeLink read whole frames.                                 *)
(*                                                                         *)
(* A payload is its bytes; the JSON in it matters only by being in         *)
(* Malformed or not.  Offsets are the code's, which count from 0.          *)
(***************************************************************************)
EXTENDS Naturals, Sequences

CONSTANTS MaxFrame,  \* maxFrameBytes
          Malformed, \* the payloads that are no JSON in UTF-8
          Unsafe     \* what Buffer.allocUnsafe leaves in a buffer

Byte == 0..255

ASSUME MaxFrameAssumption == MaxFrame \in Nat /\ MaxFrame <= 2147483647

-----------------------------------------------------------------------------
(* Frames.                                                                 *)

\* writeUInt32LE
Header(n) == << n % 256, (n \div 256) % 256, (n \div 65536) % 256,
                (n \div 16777216) % 256 >>

\* readUInt32LE
Length(b, at) ==
    b[at + 1] + 256 * b[at + 2] + 65536 * b[at + 3] + 16777216 * b[at + 4]

\* encodeFrame refuses any other payload.
Encodable(p) == Len(p) <= MaxFrame

Encode(p) == Header(Len(p)) \o p

-----------------------------------------------------------------------------
(* The decoder.                                                            *)

Decoder == {d \in [buffer : Seq(Byte \cup {Unsafe}), read : Nat, write : Nat] :
              d.read <= d.write /\ d.write <= Len(d.buffer)}

NewDecoder == [buffer |-> <<>>, read |-> 0, write |-> 0]

\* The bytes that no frame returned so far has used.
Unread(d) == SubSeq(d.buffer, d.read + 1, d.write)

Larger(m, n) == IF m < n THEN n ELSE m

\* source.copy(target, at, from, to), also onto itself.
Copy(source, target, at, from, to) ==
    [i \in 1..Len(target) |->
       IF at < i /\ i <= at + (to - from) THEN source[from + (i - at)]
                                          ELSE target[i]]

\* The unread bytes move to the start of a buffer.
Moved(d, target) ==
    [buffer |-> Copy(d.buffer, target, 0, d.read, d.write),
     read |-> 0, write |-> d.write - d.read]

\* #append makes room: in a larger buffer, by compacting, or there is enough.
Roomy(d, n) ==
    LET required == d.write - d.read + n
        capacity == Larger(required, Larger(8, 2 * Len(d.buffer)))
    IN  IF Len(d.buffer) < required
        THEN Moved(d, [i \in 1..capacity |-> Unsafe])
        ELSE IF Len(d.buffer) - d.write < n THEN Moved(d, d.buffer)
        ELSE d

\* #append
AppendBytes(d, bytes) ==
    IF bytes = <<>> THEN d
    ELSE LET e == Roomy(d, Len(bytes))
         IN  [buffer |-> Copy(bytes, e.buffer, e.write, 0, Len(bytes)),
              read |-> e.read, write |-> e.write + Len(bytes)]

PayloadLength(d) == Length(d.buffer, d.read)

HasHeader(d) == d.write - d.read >= 4

\* BridgeFrameTooLargeError
TooLarge(d) == HasHeader(d) /\ PayloadLength(d) > MaxFrame

Complete(d) ==
    /\ HasHeader(d) /\ ~TooLarge(d)
    /\ d.write - d.read >= 4 + PayloadLength(d)

Payload(d) == SubSeq(d.buffer, d.read + 5, d.read + 4 + PayloadLength(d))

Skipped(d) == [d EXCEPT !.read = @ + 4 + PayloadLength(d)]

\* push: the frames that are complete by now, the decoder then, or an error,
\* which costs the frames before it too.
Push(d, bytes) ==
    LET a == AppendBytes(d, bytes)
        loop[r \in 0..a.write] ==
          LET e == [a EXCEPT !.read = r]
          IN  IF TooLarge(e) \/ (Complete(e) /\ Payload(e) \in Malformed)
              THEN [frames |-> <<>>, read |-> r, failed |-> TRUE]
              ELSE IF ~Complete(e)
              THEN [frames |-> <<>>, read |-> r, failed |-> FALSE]
              ELSE LET rest == loop[Skipped(e).read]
                   IN  [rest EXCEPT !.frames =
                          IF rest.failed THEN <<>> ELSE <<Payload(e)>> \o @]
        end == loop[a.read]
    IN  [frames |-> end.frames, failed |-> end.failed,
         decoder |-> IF ~end.failed /\ end.read = a.write
                     THEN [a EXCEPT !.read = 0, !.write = 0]
                     ELSE [a EXCEPT !.read = end.read]]
=============================================================================
