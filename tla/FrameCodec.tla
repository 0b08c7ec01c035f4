----------------------------- MODULE FrameCodec -----------------------------
(* The frames between the core process and the desktop application           *)
(* (core/server.go, lib/utils/frame_codec.dart): a length in little-endian   *)
(* order, then that many bytes.  The socket keeps the order of the bytes and *)
(* cuts them anywhere.  Bytes have Base values and a length two bytes, so    *)
(* that MaxLength lies below what a length can say, as 10 MB do.             *)
EXTENDS Naturals, SequencesExt

CONSTANTS
    Base, MaxLength,
    MaxFrames   \* frames that are sent

ASSUME CodecAssumption ==
    Base \in Nat \ {0, 1} /\ MaxLength \in 0 .. Base * Base - 2 /\ MaxFrames \in Nat

Bytes == 0 .. Base - 1
HeaderLength == 2
(* One more than MaxLength is the first length that is too large. *)
Payloads == SeqOf(Bytes, MaxLength + 1)

VARIABLES sent, wire, builder, handed, failed
codecVars == <<sent, wire, builder, handed, failed>>

(* sent: the payloads written; wire: bytes on their way; builder: bytes kept *)
(* for the next chunk; handed: what the decoder gave out; failed: has it     *)
(* thrown a FormatException?                                                 *)
CodecTypeOK ==
    /\ sent \in Seq(Payloads) /\ wire \in Seq(Bytes) /\ builder \in Seq(Bytes)
    /\ handed \in Seq(SeqOf(Bytes, MaxLength)) /\ failed \in BOOLEAN

CodecInit ==
    sent = <<>> /\ wire = <<>> /\ builder = <<>> /\ handed = <<>> /\ failed = FALSE

Encode(data) == <<Len(data) % Base, Len(data) \div Base>> \o data

(* writeFrame: no limit on this side. *)
WriteFrame(data) ==
    /\ Len(sent) < MaxFrames
    /\ sent' = Append(sent, data) /\ wire' = wire \o Encode(data)
    /\ UNCHANGED <<builder, handed, failed>>

LengthAt(buffer, offset) == buffer[offset + 1] + Base * buffer[offset + 2]

TooLarge(n) == n > MaxLength

Throws(buffer) == [frames |-> <<>>, throws |-> TRUE, rest |-> <<>>]

(* Mutant: a frame that is not there yet has lost its header. *)
BreaksAfterHeader(buffer, offset) ==
    [frames |-> <<>>, throws |-> FALSE,
     rest |-> SubSeq(buffer, offset + 1 + HeaderLength, Len(buffer))]

Breaks(buffer, offset) ==
    [frames |-> <<>>, throws |-> FALSE,
     rest |-> SubSeq(buffer, offset + 1, Len(buffer))]

(* One turn of the loop of decode, which from takes up at a later offset.    *)
Turn(buffer, offset, from) ==
    LET left == Len(buffer) - offset
        n == LengthAt(buffer, offset)
        next == offset + HeaderLength + n
    IN IF left < HeaderLength THEN Breaks(buffer, offset)
       ELSE IF TooLarge(n) THEN Throws(buffer)
       ELSE IF left < HeaderLength + n THEN Breaks(buffer, offset)
       ELSE [from[next] EXCEPT
                !.frames = <<SubSeq(buffer, offset + HeaderLength + 1, next)>> \o @]

Loop(buffer) ==
    LET from[offset \in 0 .. Len(buffer)] == Turn(buffer, offset, from) IN from[0]

(* A length that is too large costs the bytes kept and the frames that were  *)
(* whole in the same chunk; decoding goes on with the next chunk.            *)
Decode(chunk) ==
    LET r == Loop(builder \o chunk) IN
    /\ builder' = r.rest
    /\ handed' = IF r.throws THEN handed ELSE handed \o r.frames
    /\ failed' = (failed \/ r.throws)

ReadChunk(n) ==
    /\ n <= Len(wire) /\ Decode(SubSeq(wire, 1, n))
    /\ wire' = SubSeq(wire, n + 1, Len(wire)) /\ UNCHANGED sent

CodecNext ==
    \/ \E data \in Payloads : WriteFrame(data)
    \/ \E n \in 1 .. MaxFrames * (HeaderLength + MaxLength + 1) : ReadChunk(n)

CodecSpec == CodecInit /\ [][CodecNext]_codecVars

-----------------------------------------------------------------------------
Fits(data) == Len(data) <= MaxLength

(* However the stream is cut, the frames come out whole and in order, and    *)
(* all of them once the bytes are there, as long as none is too large.       *)
FramesWhole ==
    (\A i \in DOMAIN sent : Fits(sent[i])) =>
        /\ ~failed /\ IsPrefix(handed, sent)
        /\ wire = <<>> => handed = sent

(* The decoder keeps less than the largest frame for the next chunk, and     *)
(* never a whole one, whatever the stream holds.                             *)
KeepsLittle == Len(builder) < HeaderLength + MaxLength

(* The codec as a whole: frames of bytes, whole and in order, and a buffer   *)
(* that stays small.                                                         *)
CodecInv == CodecTypeOK /\ FramesWhole /\ KeepsLittle
=============================================================================
