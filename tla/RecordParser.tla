---------------------------- MODULE RecordParser ----------------------------
(***************************************************************************)
(* The incremental parser of protocol v2: a preface, then records of a     *)
(* two-byte big-endian length and a payload, cut into arbitrary fragments  *)
(* by the socket.  One step is one turn of the loop in consume; input is   *)
(* what the call has not read yet.  The fragments are any byte sequences.  *)
(***************************************************************************)
EXTENDS Integers, Sequences, SequencesExt

CONSTANTS Base,               \* values of a byte; the code's is 256
          PREFACE,            \* preface_bytes()
          MaximumRecordSize,  \* maximum_record_size_
          MaxFragment,        \* longest fragment explored
          MaxStream           \* longest stream explored

Byte == 0 .. Base - 1
RECORD_HEADER_SIZE == 2
MAX_RECORD_SIZE == Base * Base - 1

(* The preface is not empty, and the constructor's check of the limit.     *)
ASSUME ParserAssumption ==
  /\ Base \in Nat \ {0}
  /\ PREFACE \in Seq(Byte) /\ PREFACE # <<>>
  /\ MaximumRecordSize \in 0 .. MAX_RECORD_SIZE
  /\ MaxFragment \in Nat /\ MaxStream \in Nat

VARIABLES phase, preface_offset, header, expected_payload_size, payload,
          failed, finished,
          input,      \* unread rest of the fragment consume was given
          stream,     \* every byte that consume was given and accepted
          delivered   \* the records given to the handler, in order

vars == <<phase, preface_offset, header, expected_payload_size, payload,
          failed, finished, input, stream, delivered>>

(* The state between two turns of the loop: header is the filled part of   *)
(* header_ (header_offset_ is its length) and never complete, and only a   *)
(* payload that still misses bytes is buffered.                            *)
TypeOK ==
  /\ phase \in {"Preface", "Header", "Payload"}
  /\ preface_offset \in 0 .. Len(PREFACE)
  /\ header \in Seq(Byte) /\ Len(header) < RECORD_HEADER_SIZE
  /\ expected_payload_size \in 0 .. MAX_RECORD_SIZE
  /\ payload \in Seq(Byte)
  /\ IF phase = "Payload" THEN Len(payload) < expected_payload_size ELSE payload = <<>>
  /\ failed \in BOOLEAN /\ finished \in BOOLEAN
  /\ input \in Seq(Byte) /\ stream \in Seq(Byte) /\ delivered \in Seq(Seq(Byte))

Init ==
  /\ phase = "Preface" /\ preface_offset = 0
  /\ header = <<>> /\ expected_payload_size = 0 /\ payload = <<>>
  /\ failed = FALSE /\ finished = FALSE
  /\ input = <<>> /\ stream = <<>> /\ delivered = <<>>
-----------------------------------------------------------------------------
Smallest(m, n) == IF m < n THEN m ELSE n
Drop(s, n) == SubSeq(s, n + 1, Len(s))

(* encode_record.                                                          *)
EncodeRecord(record) == <<Len(record) \div Base, Len(record) % Base>> \o record

(* fail: FramingError leaves consume, and the rest of the input is lost.   *)
Fail == failed' = TRUE /\ input' = <<>>

(* Mutant: a handler that returns false only ends the call. *)
DeliverResumably(record, rest, keep) ==
  /\ delivered' = Append(delivered, record)
  /\ UNCHANGED failed
  /\ input' = IF keep THEN rest ELSE <<>>

(* The handler is called with a complete record; false stops the parser    *)
(* and drops the unread bytes.                                             *)
Deliver(record, rest, keep) ==
  /\ delivered' = Append(delivered, record)
  /\ failed' = ~keep
  /\ input' = IF keep THEN rest ELSE <<>>

(* A call of consume with the next fragment.  A parser that failed or      *)
(* finished throws at once.                                                *)
Consume(fragment) ==
  /\ input = <<>>
  /\ IF failed \/ finished
       THEN Fail /\ UNCHANGED stream
       ELSE input' = fragment /\ stream' = stream \o fragment /\ UNCHANGED failed
  /\ UNCHANGED <<phase, preface_offset, header, expected_payload_size, payload,
                 finished, delivered>>

(* The longest prefix of the input that continues the preface.             *)
Matched ==
  LET most == Smallest(Len(input), Len(PREFACE) - preface_offset)
  IN CHOOSE n \in 0 .. most :
       /\ \A i \in 1 .. n : input[i] = PREFACE[preface_offset + i]
       /\ n < most => input[n + 1] # PREFACE[preface_offset + n + 1]

ConsumePreface ==
  /\ phase = "Preface" /\ input # <<>>
  /\ preface_offset' = preface_offset + Matched
  /\ IF Matched < Smallest(Len(input), Len(PREFACE) - preface_offset)
       THEN Fail /\ UNCHANGED phase
       ELSE /\ input' = Drop(input, Matched)
            /\ phase' = IF preface_offset' = Len(PREFACE) THEN "Header" ELSE phase
            /\ UNCHANGED failed
  /\ UNCHANGED <<header, expected_payload_size, payload, finished, stream, delivered>>

(* Mutant: a limit that a record may just exceed. *)
OversizedByMore(size) == size > MaximumRecordSize + 1

(* The announced length exceeds the limit. *)
Oversized(size) == size > MaximumRecordSize

(* header_ after reading count more bytes. *)
HeaderWith(count) == header \o SubSeq(input, 1, count)

ConsumeHeader ==
  LET count == Smallest(Len(input), RECORD_HEADER_SIZE - Len(header))
      filled == HeaderWith(count)
      size == filled[1] * Base + filled[2]
  IN /\ phase = "Header" /\ input # <<>>
     /\ IF Len(filled) < RECORD_HEADER_SIZE
          THEN /\ header' = filled
               /\ input' = Drop(input, count)
               /\ UNCHANGED <<phase, expected_payload_size, payload, failed, delivered>>
          ELSE /\ header' = <<>>
               /\ expected_payload_size' = size
               /\ \/ /\ Oversized(size)
                     /\ Fail
                     /\ UNCHANGED <<phase, payload, delivered>>
                  \/ /\ ~Oversized(size) /\ size = 0
                     /\ payload' = <<>>
                     /\ \E keep \in BOOLEAN : Deliver(<<>>, Drop(input, count), keep)
                     /\ UNCHANGED phase
                  \/ /\ ~Oversized(size) /\ size > 0
                     /\ payload' = <<>> /\ phase' = "Payload"
                     /\ input' = Drop(input, count)
                     /\ UNCHANGED <<failed, delivered>>
     /\ UNCHANGED <<preface_offset, finished, stream>>

(* How many unread bytes belong to the payload. *)
PayloadBytes == Smallest(expected_payload_size - Len(payload), Len(input))

ConsumePayload ==
  LET count == PayloadBytes
      grown == payload \o SubSeq(input, 1, count)
  IN /\ phase = "Payload" /\ input # <<>>
     /\ IF Len(grown) = expected_payload_size
          THEN /\ phase' = "Header" /\ expected_payload_size' = 0 /\ payload' = <<>>
               /\ \E keep \in BOOLEAN : Deliver(grown, Drop(input, count), keep)
          ELSE /\ payload' = grown
               /\ input' = Drop(input, count)
               /\ UNCHANGED <<phase, expected_payload_size, failed, delivered>>
     /\ UNCHANGED <<preface_offset, header, finished, stream>>

(* Mutant: a header cut short by the end of the stream is not noticed. *)
AtPayloadBoundary == phase = "Header"

(* Between two records. *)
AtBoundary == phase = "Header" /\ header = <<>>

(* finish: the end of the stream, clean only at a record boundary.         *)
Finish ==
  /\ input = <<>>
  /\ IF failed \/ (~finished /\ ~AtBoundary)
       THEN failed' = TRUE /\ UNCHANGED finished
       ELSE finished' = TRUE /\ UNCHANGED failed
  /\ UNCHANGED <<phase, preface_offset, header, expected_payload_size, payload,
                 input, stream, delivered>>

Next ==
  \/ \E n \in 1 .. MaxFragment : \E fragment \in [1 .. n -> Byte] :
       Len(stream) + n <= MaxStream /\ Consume(fragment)
  \/ ConsumePreface \/ ConsumeHeader \/ ConsumePayload
  \/ Finish

Spec == Init /\ [][Next]_vars
-----------------------------------------------------------------------------
(* The bytes of the stream that belong to no delivered record yet.         *)
Pending ==
  IF phase = "Payload"
  THEN <<expected_payload_size \div Base, expected_payload_size % Base>> \o payload
  ELSE header

(* However the stream is cut into fragments, the bytes received are the    *)
(* preface, the encodings of exactly the delivered records in order, what  *)
(* is buffered of the next one and what is unread: consume loses, repeats  *)
(* and invents nothing, and bytes are dropped only by a parser that failed *)
(* or that its handler stopped.                                            *)
StreamIsRecords ==
  ~failed => stream =
    IF phase = "Preface"
    THEN SubSeq(PREFACE, 1, preface_offset) \o input
    ELSE PREFACE \o FlattenSeq([i \in DOMAIN delivered |-> EncodeRecord(delivered[i])])
                 \o Pending \o input

(* The parser never buffers or delivers more than the configured limit,    *)
(* whatever length a header announces.                                     *)
BufferIsBounded ==
  /\ Len(payload) <= MaximumRecordSize
  /\ \A i \in DOMAIN delivered : Len(delivered[i]) <= MaximumRecordSize

(* finish accepts an end of stream only if every byte received is          *)
(* part of the preface or of a delivered record.                           *)
CleanEndIsComplete ==
  finished => stream =
    PREFACE \o FlattenSeq([i \in DOMAIN delivered |-> EncodeRecord(delivered[i])])
=============================================================================
