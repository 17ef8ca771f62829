------------------------------- MODULE Buffer -------------------------------
(***************************************************************************)
(* The byte buffer of src/c++/uds/src/uds/buffer.c, used to encode and     *)
(* decode on-disk headers.  A buffer is a record: data is the byte array   *)
(* (data[k + 1] is byte k), start the next byte to get, end the next byte  *)
(* to put, length the size of data.  Each operation returns the result     *)
(* code and the buffer after it; a getter also returns what it got.  A     *)
(* failed operation leaves the buffer as it was, as the code does.         *)
(***************************************************************************)
EXTENDS Integers, Sequences, SequencesExt

Zeros(n) == [k \in 1 .. n |-> 0]

(* wrap_buffer and make_buffer: start 0, end the content length; the data *)
(* of a new buffer is the zeroed memory UDS_ALLOCATE returns.              *)
WrapBuffer(bytes, contentLength) ==
  [data |-> bytes, start |-> 0, end |-> contentLength, length |-> Len(bytes)]
MakeBuffer(size) == WrapBuffer(Zeros(size), 0)

BufferLength(b) == b.length
ContentLength(b) == b.end - b.start
AvailableSpace(b) == b.length - b.end

(* get_buffer_contents: the bytes from start on. *)
GetBufferContents(b) == SubSeq(b.data, b.start + 1, b.length)

(* compact_buffer: move the contents to the front, unless start or end is *)
(* already 0.                                                             *)
CompactBuffer(b) ==
  IF b.start = 0 \/ b.end = 0 THEN b
  ELSE [b EXCEPT !.data = SubSeq(@, b.start + 1, b.end) \o SubSeq(@, b.end - b.start + 1, b.length),
                 !.start = 0, !.end = b.end - b.start]

(* ensure_available_space: the buffer, compacted when short, and whether  *)
(* the bytes fit.                                                         *)
Ensured(b, bytes) == [ok |-> AvailableSpace(b) >= bytes, buf |-> b]
EnsureAvailableSpace(b, bytes) ==
  IF AvailableSpace(b) >= bytes THEN Ensured(b, bytes) ELSE Ensured(CompactBuffer(b), bytes)

Done(res, b, v) == [res |-> res, buf |-> b, value |-> v]

(* reset_buffer_end *)
ResetBufferEnd(b, end) ==
  IF end > b.length THEN Done("BUFFER_ERROR", b, 0)
  ELSE Done("SUCCESS", [b EXCEPT !.end = end, !.start = IF @ > end THEN end ELSE @], 0)

(* get_bytes_from_buffer: the next n bytes. *)
GetBytesFromBuffer(b, n) ==
  IF ContentLength(b) < n THEN Done("BUFFER_ERROR", b, <<>>)
  ELSE Done("SUCCESS", [b EXCEPT !.start = @ + n], SubSeq(b.data, b.start + 1, b.start + n))

(* put_bytes: the bytes after end, the buffer compacted first if short. *)
PutEnsured(e, bytes) ==
  IF ~e.ok THEN Done("BUFFER_ERROR", e.buf, 0)
  ELSE Done("SUCCESS",
            [e.buf EXCEPT !.data = SubSeq(@, 1, e.buf.end) \o bytes \o SubSeq(@, e.buf.end + Len(bytes) + 1, e.buf.length),
                          !.end = @ + Len(bytes)], 0)
PutBytes(b, bytes) == PutEnsured(EnsureAvailableSpace(b, Len(bytes)), bytes)

(* encode_u32_le/encode_u64_le and their decoders: n bytes, least         *)
(* significant first.  Decoding works from the top byte down, so a value  *)
(* whose high bytes are zero never exceeds its own size.                  *)
RECURSIVE EncodeLE(_, _)
EncodeLE(x, n) == IF n = 0 THEN <<>> ELSE <<x % 256>> \o EncodeLE(x \div 256, n - 1)
DecodeLE(s) == FoldRight(LAMBDA byte, acc : byte + 256 * acc, s, 0)

(* get_u32_le_from_buffer and get_u64_le_from_buffer: fail when fewer     *)
(* than n bytes are left, else decode them and advance start.             *)
Decoded(g) == Done(g.res, g.buf, IF g.res = "SUCCESS" THEN DecodeLE(g.value) ELSE 0)
GetLEFromBuffer(b, n) == Decoded(GetBytesFromBuffer(b, n))

(* put_u32_le_into_buffer and put_u64_le_into_buffer. *)
PutLEIntoBuffer(b, n, x) == PutBytes(b, EncodeLE(x, n))

(* A run of puts that stops at the first failure, as the encoders' chains *)
(* of "if (result != UDS_SUCCESS) return result;" do: each put is a pair   *)
(* <<n, x>>, n bytes of x in little-endian order, or n = 0 for the bytes  *)
(* x as they are.                                                         *)
PutAll(b, puts) ==
  FoldLeft(LAMBDA r, p : IF r.res # "SUCCESS" THEN r
                         ELSE IF p[1] = 0 THEN PutBytes(r.buf, p[2])
                         ELSE PutLEIntoBuffer(r.buf, p[1], p[2]),
           Done("SUCCESS", b, 0), puts)

(* A run of gets that stops at the first failure; widths lists the bytes   *)
(* of each field, the value is the sequence of fields got, the first      *)
(* taken as bytes when rawFirst holds.                                    *)
Appended(r, g) == Done(g.res, g.buf, Append(r.value, g.value))
GetNext(r, rawFirst, n) ==
  IF r.res # "SUCCESS" THEN r
  ELSE Appended(r, IF rawFirst /\ r.value = <<>> THEN GetBytesFromBuffer(r.buf, n)
                   ELSE GetLEFromBuffer(r.buf, n))
GetAll(b, rawFirst, widths) ==
  FoldLeft(LAMBDA r, n : GetNext(r, rawFirst, n), Done("SUCCESS", b, <<>>), widths)
====
