------------------------------ MODULE Framing ------------------------------
(***************************************************************************)
(* The byte framing of the greeter pipes (src/src/greeter.c).             *)
(*                                                                         *)
(* Reading: read_cb is called whenever the pipe from the greeter is       *)
(* readable and may get fewer bytes than it asks for.  It first collects  *)
(* the 8-byte header, grows the read buffer to the length the header      *)
(* announces, collects the payload, then decodes and dispatches the       *)
(* message.  The greeter is untrusted: it chooses every length and count. *)
(* Bytes are abstracted to their position in the stream; a frame is its  *)
(* message id, payload length and, for CONTINUE_AUTHENTICATION, the       *)
(* n_secrets field.  Sizes are the 64-bit gsize of the x86_64 build.     *)
(***************************************************************************)
EXTENDS Integers, Sequences, SequencesExt

CONSTANTS
  PayloadLengths, \* payload lengths the greeter may announce
  SecretCounts,   \* n_secrets as the int read_cb stores it (a guint32
                  \* of the wire: 0xFFFFFFFF becomes -1)
  MaxFrames,      \* bound on the frames the greeter sends
  AllocLimit      \* the largest g_malloc/g_realloc sure to succeed

HEADER_SIZE == 8

(* int_length                                                              *)
IntLength == 4

IntMax == 2147483647
ASSUME SecretCounts \subseteq -IntMax - 1 .. IntMax

-----------------------------------------------------------------------------
(* Reading.                                                                *)

Ids == {"continue", "other"}
Frames == [id : Ids, len : PayloadLengths, n : SecretCounts]

(* The largest message and the longest stream the greeter can send.       *)
MaxMessage == HEADER_SIZE + Max(PayloadLengths)
MaxStream == MaxFrames * MaxMessage

VARIABLES
  frames,     \* the frames the greeter has written, in order
  consumed,   \* bytes of the stream read_cb has taken
  nRead,      \* priv->n_read
  bufSize,    \* the size of priv->read_buffer
  delivered,  \* each dispatched message: stream offset and size
  crashed     \* read_cb wrote outside an allocation or g_malloc aborted

vars == <<frames, consumed, nRead, bufSize, delivered, crashed>>

(* Stream offset at which frame i starts.                                  *)
RECURSIVE Start(_)
Start(i) == IF i = 1 THEN 0 ELSE Start(i - 1) + HEADER_SIZE + frames[i - 1].len

Total == Start(Len(frames) + 1)

(* The message being collected starts here.                                *)
MsgStart == consumed - nRead

(* The frame whose header sits at stream offset s, or 0.                   *)
FrameAt(s) == SelectInSeq([i \in 1..Len(frames) |-> Start(i)], LAMBDA x : x = s)

(* read_int at offset int_length of a buffer holding a whole header: the   *)
(* payload length announced by the frame being collected.                  *)
LengthField ==
  IF FrameAt(MsgStart) # 0 THEN frames[FrameAt(MsgStart)].len ELSE 0

TypeOK ==
  /\ frames \in Seq(Frames)
  /\ consumed \in 0..MaxStream
  /\ nRead \in 0..MaxMessage
  /\ bufSize \in HEADER_SIZE..MaxMessage
  /\ delivered \in Seq([start : 0..MaxStream, size : HEADER_SIZE..MaxMessage])
  /\ crashed \in BOOLEAN

(* greeter_init allocates HEADER_SIZE bytes.                               *)
Init ==
  /\ frames = <<>>
  /\ consumed = 0
  /\ nRead = 0
  /\ bufSize = HEADER_SIZE
  /\ delivered = <<>>
  /\ crashed = FALSE

(* The greeter writes a frame to its pipe.                                 *)
GreeterWrite ==
  /\ Len(frames) < MaxFrames
  /\ \E f \in Frames : frames' = Append(frames, f)
  /\ UNCHANGED <<consumed, nRead, bufSize, delivered, crashed>>

(* g_malloc or g_realloc of s bytes: sure to succeed up to AllocLimit,     *)
(* may abort the process above it.                                         *)
AllocAborts(s) == IF s > AllocLimit THEN BOOLEAN ELSE {FALSE}

(* n_to_read: the header, plus the announced payload once the header is   *)
(* in.                                                                      *)
ToRead == HEADER_SIZE + (IF nRead >= HEADER_SIZE THEN LengthField ELSE 0)

(* Variant of Want that asks for the whole message again.                  *)
WantAll(nToRead) == nToRead

(* The count passed to g_io_channel_read_chars.                            *)
Want(nToRead) == nToRead - nRead

(* Variant of Grown that forgets the header.                               *)
GrownPayloadOnly(len) == len

(* The size read_buffer is reallocated to once the header is in.           *)
Grown(len) == HEADER_SIZE + len

(* The CONTINUE_AUTHENTICATION decoding: n_secrets = read_int into an int  *)
(* (0 when the payload is too short), secrets = g_malloc of 8 times       *)
(* n_secrets + 1 bytes, then secrets[0 .. max (n_secrets, 0)] are written. *)
(* The outcomes, TRUE when the daemon dies:                                *)
(*  - n_secrets = -1: g_malloc (0) is NULL and secrets[0] = NULL faults;   *)
(*  - n_secrets < -1: the negative int becomes a size_t near 2^64, and     *)
(*    g_malloc aborts;                                                     *)
(*  - n_secrets = INT_MAX: n_secrets + 1 overflows (undefined), giving     *)
(*    2^34 bytes or a size near 2^64: both outcomes of a large request;    *)
(*  - otherwise 8 * (n_secrets + 1) bytes, which may fail when large.      *)
ContinueOutcomes(f) ==
  LET n == IF f.len >= IntLength THEN f.n ELSE 0 IN
  IF n < 0 THEN {TRUE}
  ELSE IF n >= AllocLimit \div 8 THEN BOOLEAN
  ELSE {FALSE}

(* The outcomes of decoding and handling the message read.                 *)
HandleOutcomes ==
  LET f == frames[FrameAt(MsgStart)] IN
  IF f.id = "continue" THEN ContinueOutcomes(f) ELSE {FALSE}

(* Variant of Dispatch that leaves n_read as it is.                        *)
DispatchNoReset(k) ==
  /\ delivered' = Append(delivered, [start |-> MsgStart, size |-> nRead + k])
  /\ nRead' = nRead + k
  /\ \E c \in HandleOutcomes : crashed' = c
  /\ UNCHANGED bufSize

(* read_cb's dispatch of the complete message, then n_read = 0.            *)
Dispatch(k) ==
  /\ delivered' = Append(delivered, [start |-> MsgStart, size |-> nRead + k])
  /\ nRead' = 0
  /\ \E c \in HandleOutcomes : crashed' = c
  /\ UNCHANGED bufSize

(* One read_cb on G_IO_IN.  g_io_channel_read_chars gets k bytes, at most *)
(* those asked for and those waiting (none when asked for none).  Unless  *)
(* n_read then equals n_to_read, wait for more.  A complete header        *)
(* announcing a payload grows the buffer; the recursive read_cb that      *)
(* follows is the next ReadCb.  Otherwise the message is dispatched.      *)
ReadCb ==
  /\ ~crashed
  /\ consumed < Total
  /\ LET nToRead == ToRead
         ask == Want(nToRead)
     IN \E k \in IF ask = 0 THEN {0} ELSE 1..Min({ask, Total - consumed}) :
          /\ consumed' = consumed + k
          /\ IF nRead + k > bufSize
             THEN crashed' = TRUE /\ UNCHANGED <<nRead, bufSize, delivered>>
             ELSE IF nRead + k # nToRead
             THEN nRead' = nRead + k /\ UNCHANGED <<bufSize, delivered, crashed>>
             ELSE IF nRead + k = HEADER_SIZE /\ LengthField > 0
             THEN /\ nRead' = nRead + k
                  /\ bufSize' = Grown(LengthField)
                  /\ \E abort \in AllocAborts(bufSize') : crashed' = abort
                  /\ UNCHANGED delivered
             ELSE Dispatch(k)
  /\ UNCHANGED frames

Next ==
  \/ GreeterWrite
  \/ ReadCb

Spec == Init /\ [][Next]_vars

-----------------------------------------------------------------------------
(* Properties.                                                             *)

(* read_cb hands the handlers exactly the greeter's frames, whole and in  *)
(* order, however the pipe splits them into reads.                         *)
FramesDelivered ==
  \A i \in 1..Len(delivered) :
    /\ i <= Len(frames)
    /\ delivered[i] = [start |-> Start(i), size |-> HEADER_SIZE + frames[i].len]

(* No frame the greeter sends makes read_cb write outside an allocation   *)
(* or abort the daemon in g_malloc.                                        *)
ReadCbNeverFails == ~crashed

====
