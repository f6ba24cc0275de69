------------------------------ MODULE Framing ------------------------------
(***************************************************************************)
(* The framers that split the byte stream of a TCP connection              *)
(* (internal/nodes/network/framing.go), and the loop of tcp-in that feeds  *)
(* one of them with whatever chunks the reads return.  One step appends a  *)
(* chunk, one step is one turn of the loop in Append.                      *)
(*                                                                         *)
(* A byte is a small number.  The length header is one byte: what readUint *)
(* makes of longer ones is not modelled.                                   *)
(***************************************************************************)
EXTENDS Naturals, Sequences

SeqExt == INSTANCE SequencesExt

CONSTANTS FrChunks,  \* the chunks a read may return
          FrDelim,   \* delimiterBytes
          FrSize,    \* fixedLength
          FrMax,     \* maxFrameBytes, here a real cap (0 would mean none)
          FrTotal    \* bound: bytes of the stream

\* A read returns something; NewDelimiterFramer and tcp-in's Init refuse an
\* empty delimiter and a length that is not positive.
ASSUME FrAssumption ==
  /\ FrChunks \subseteq Seq(Nat) /\ <<>> \notin FrChunks
  /\ FrDelim \in Seq(Nat) /\ FrDelim # <<>>
  /\ FrSize \in Nat \ {0} /\ FrMax \in Nat \ {0} /\ FrTotal \in Nat

VARIABLES frMode,    \* the framer: "stream", "delimiter", "length", "whole" (the
                     \* length covers the header) or "fixed"
          frBuf,     \* the framer's buf
          frFresh,   \* stream: the chunk given to Append
          frBusy,    \* Append is in its loop
          frIn,      \* every byte received
          frOut,     \* every frame emitted
          frFailed   \* Append returned an error: tcp-in closes the connection

frVars == <<frMode, frBuf, frFresh, frBusy, frIn, frOut, frFailed>>

FrByte == UNION {{c[i] : i \in 1 .. Len(c)} : c \in FrChunks}

FrTypeOK ==
  /\ frMode \in {"stream", "delimiter", "length", "whole", "fixed"}
  /\ frBuf \in Seq(FrByte) /\ frFresh \in Seq(FrByte) /\ frIn \in Seq(FrByte)
  /\ frOut \in Seq(Seq(FrByte))
  /\ frBusy \in BOOLEAN /\ frFailed \in BOOLEAN

FrInit ==
  /\ frMode \in {"stream", "delimiter", "length", "whole", "fixed"}
  /\ frBuf = <<>> /\ frFresh = <<>> /\ frIn = <<>> /\ frOut = <<>>
  /\ frBusy = FALSE /\ frFailed = FALSE

\* bytes.Index: the places where the delimiter begins.
FrFound(s) ==
  {i \in 1 .. Len(s) : i + Len(FrDelim) - 1 <= Len(s) /\ SubSeq(s, i, i + Len(FrDelim) - 1) = FrDelim}
FrFirst(s) == CHOOSE i \in FrFound(s) : \A j \in FrFound(s) : i <= j

\* A read of tcp-in, handed to Append.
FrRead(chunk) ==
  /\ ~frBusy /\ ~frFailed /\ Len(frIn) + Len(chunk) <= FrTotal
  /\ frBusy' = TRUE
  /\ frIn' = frIn \o chunk
  /\ frFresh' = IF frMode = "stream" THEN chunk ELSE <<>>
  /\ frBuf' = IF frMode = "stream" THEN <<>> ELSE frBuf \o chunk
  /\ UNCHANGED <<frMode, frOut, frFailed>>

\* One frame is cut off: n bytes of frame, of which `skip` precede and
\* `after` follow it.
FrEmit(skip, n, after) ==
  /\ frOut' = Append(frOut, SubSeq(frBuf, skip + 1, skip + n))
  /\ frBuf' = SubSeq(frBuf, skip + n + after + 1, Len(frBuf))
  /\ UNCHANGED <<frBusy, frFailed>>

FrDone == frBusy' = FALSE /\ UNCHANGED <<frOut, frBuf, frFailed>>
FrError == frBusy' = FALSE /\ frFailed' = TRUE /\ UNCHANGED frOut

\* streamFramer.Append: one frame per chunk.
streamFramer ==
  IF Len(frFresh) > FrMax
  THEN FrError /\ UNCHANGED frBuf
  ELSE /\ frOut' = Append(frOut, frFresh)
       /\ frBusy' = FALSE
       /\ UNCHANGED <<frBuf, frFailed>>

\* Mutant: the delimiter stays at the head of the buffer.
delimiterKept ==
  IF FrFound(frBuf) # {} THEN FrEmit(0, FrFirst(frBuf) - 1, 1)
  ELSE IF Len(frBuf) > FrMax THEN FrError /\ frBuf' = <<>> ELSE FrDone

\* delimiterFramer.Append: the cap is only applied to what is left over.
delimiterFramer ==
  IF FrFound(frBuf) # {} THEN FrEmit(0, FrFirst(frBuf) - 1, Len(FrDelim))
  ELSE IF Len(frBuf) > FrMax THEN FrError /\ frBuf' = <<>> ELSE FrDone

\* lengthPrefixFramer.Append.
lengthPrefixFramer(covers) ==
  IF frBuf = <<>> THEN FrDone
  ELSE IF covers /\ frBuf[1] < 1 THEN FrError /\ UNCHANGED frBuf
  ELSE LET size == IF covers THEN frBuf[1] - 1 ELSE frBuf[1]
       IN  IF size > FrMax THEN FrError /\ UNCHANGED frBuf
           ELSE IF Len(frBuf) < 1 + size THEN FrDone
           ELSE FrEmit(1, size, 0)

\* fixedLengthFramer.Append.
fixedLengthFramer == IF Len(frBuf) >= FrSize THEN FrEmit(0, FrSize, 0) ELSE FrDone

FrTurn ==
  /\ frBusy
  /\ CASE frMode = "stream" -> streamFramer
       [] frMode = "delimiter" -> delimiterFramer
       [] frMode = "length" -> lengthPrefixFramer(FALSE)
       [] frMode = "whole" -> lengthPrefixFramer(TRUE)
       [] frMode = "fixed" -> fixedLengthFramer
  /\ UNCHANGED <<frMode, frFresh, frIn>>

FrNext == FrTurn \/ \E chunk \in FrChunks : FrRead(chunk)
-----------------------------------------------------------------------------
FrSpec == FrInit /\ [][FrNext]_frVars

\* What a frame looked like in the stream.
FrWire(f) ==
  CASE frMode = "delimiter" -> f \o FrDelim
    [] frMode = "length" -> <<Len(f)>> \o f
    [] frMode = "whole" -> <<Len(f) + 1>> \o f
    [] OTHER -> f

(***************************************************************************)
(* However the stream is cut into reads, also through a delimiter or       *)
(* header, the frames put back on the wire and followed by the buffer are  *)
(* the bytes received: none is lost, doubled or moved to another frame; no *)
(* frame holds a delimiter, and nothing complete is kept back.             *)
(***************************************************************************)
FrExact ==
  ~frFailed /\ ~frBusy =>
    /\ SeqExt!FlattenSeq([i \in 1 .. Len(frOut) |-> FrWire(frOut[i])]) \o frBuf = frIn
    /\ frMode = "delimiter" => /\ FrFound(frBuf) = {}
                               /\ \A i \in 1 .. Len(frOut) : FrFirst(FrWire(frOut[i])) = Len(frOut[i]) + 1
    /\ frMode = "fixed" => Len(frBuf) < FrSize /\ \A i \in 1 .. Len(frOut) : Len(frOut[i]) = FrSize
    /\ frMode = "length" => frBuf = <<>> \/ Len(frBuf) < 1 + frBuf[1]
    /\ frMode = "whole" => frBuf = <<>> \/ Len(frBuf) < frBuf[1]

\* Between reads the buffer of a connection that is not closed for an error is
\* bounded by maxFrameBytes and a header.
FrBounded ==
  ~frBusy /\ ~frFailed => Len(frBuf) <= IF frMode = "fixed" THEN FrSize - 1 ELSE FrMax + 1

(***************************************************************************)
(* The framers: nothing is lost, and what is kept is bounded.              *)
(***************************************************************************)
FrSound == FrExact /\ FrBounded
=============================================================================
