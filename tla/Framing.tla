------------------------------ MODULE Framing ------------------------------
(***************************************************************************)
(* One frame of codec.rs on a byte stream: send_json at one end, recv_json *)
(* at the other, a socket buffer of limited size in between.  Bytes move   *)
(* in chunks of any size; the sender may stop, or end, anywhere, and a     *)
(* peer that is not send_json may announce a length it does not deliver.   *)
(* Bytes are counted, not represented.                                     *)
(***************************************************************************)
EXTENDS Integers

CONSTANTS
    Senders,        \* frames that may be put on the stream (see SendJson)
    MAX_MSG_BYTES,  \* 4 MiB in codec.rs
    LenRange,       \* 2^32: lengths that the header can tell apart
    Capacity        \* bytes the socket holds on the way

HeaderBytes == 4

ASSUME FramingAssumption ==
    /\ MAX_MSG_BYTES \in Nat
    /\ LenRange \in Nat /\ LenRange > MAX_MSG_BYTES
    /\ Capacity \in Nat \ {0}
    /\ \A f \in Senders : /\ f.announced \in 0..LenRange - 1
                          /\ f.size \in Nat
                          /\ f.texts \subseteq 1..f.size

\* What send_json puts on the stream for a value of n bytes: the header holds
\* the length cut to 32 bits.  texts are the lengths of those beginnings of the
\* payload that parse as what the other end expects: of a message, which is an
\* object, only the whole does.
SendJson(n, expected) ==
    [announced |-> n % LenRange, size |-> n, texts |-> IF expected THEN {n} ELSE {}]

VARIABLES
    frame,      \* what the sender is sending
    receiver,   \* who receives it: the server's "handler" or the "agent"
    sent,       \* bytes it has put on the stream
    writer,     \* "sending", "done" (send_json returned Ok) or "failed"
    closed,     \* has the sender closed the stream, or died?
    read,       \* bytes recv_json has taken off it
    reader,     \* "header", "payload", "ok", "error" or "answered"
    dropped     \* has the receiver closed the stream?

vars == <<frame, receiver, sent, writer, closed, read, reader, dropped>>

Total == HeaderBytes + frame.size

TypeOK ==
    /\ frame \in Senders
    /\ receiver \in {"handler", "agent"}
    /\ sent \in 0..Total
    /\ writer \in {"sending", "done", "failed"}
    /\ closed \in BOOLEAN
    /\ read \in 0..sent
    /\ reader \in {"header", "payload", "ok", "error", "answered"}
    /\ dropped \in BOOLEAN

Init ==
    /\ frame \in Senders
    /\ receiver \in {"handler", "agent"}
    /\ sent = 0 /\ writer = "sending" /\ closed = FALSE
    /\ read = 0 /\ reader = "header" /\ dropped = FALSE

Least(a, b) == IF a < b THEN a ELSE b

-----------------------------------------------------------------------------
(* send_json() *)

\* write_all: some bytes of the header, then of the payload, as far as the
\* socket has room.
Write ==
    /\ writer = "sending" /\ ~closed /\ ~dropped
    /\ LET part == IF sent < HeaderBytes THEN HeaderBytes ELSE Total IN
       \E n \in 1..Least(Capacity - (sent - read), part - sent) : sent' = sent + n
    /\ UNCHANGED <<frame, receiver, writer, closed, read, reader, dropped>>

Flush ==
    /\ writer = "sending" /\ ~closed
    /\ sent = Total
    /\ writer' = "done"
    /\ UNCHANGED <<frame, receiver, sent, closed, read, reader, dropped>>

\* The other end is gone: write_all fails.
WriteFails ==
    /\ writer = "sending" /\ ~closed
    /\ dropped /\ sent < Total
    /\ writer' = "failed"
    /\ UNCHANGED <<frame, receiver, sent, closed, read, reader, dropped>>

\* The sender ends or closes its end, wherever it is.
Close ==
    /\ ~closed
    /\ closed' = TRUE
    /\ UNCHANGED <<frame, receiver, sent, writer, read, reader, dropped>>

-----------------------------------------------------------------------------
(* recv_json() *)

\* MUTANT of TooLarge: the limit itself is refused.
TooLargeAtLimit == frame.announced >= MAX_MSG_BYTES

\* MUTANT of TooLarge: any announced length is allocated and read.
TooLargeNever == FALSE

TooLarge == frame.announced > MAX_MSG_BYTES

\* Where the read_exact at work ends.
Wanted ==
    IF reader = "header" THEN HeaderBytes ELSE HeaderBytes + frame.announced

\* MUTANT of Readable: one read is taken to give all that is wanted.
ReadableAssumed == Wanted - read

\* read_exact takes what there is, up to what it wants.
Readable == Least(sent - read, Wanted - read)

Read ==
    /\ reader \in {"header", "payload"}
    /\ \E n \in 1..Readable : read' = read + n
    /\ UNCHANGED <<frame, receiver, sent, writer, closed, reader, dropped>>

CheckLength ==
    /\ reader = "header" /\ read = HeaderBytes
    /\ reader' = IF TooLarge THEN "error" ELSE "payload"
    /\ UNCHANGED <<frame, receiver, sent, writer, closed, read, dropped>>

\* MUTANT of AllRead: what has arrived counts as the payload.
SomeRead == read >= HeaderBytes

AllRead == read = Wanted

\* MUTANT of Parses: the beginning of a value is taken for all of it.
ParsesBeginning == \E n \in frame.texts : frame.announced <= n

\* serde_json::from_slice takes the announced bytes, all of them, for one text.
Parses == frame.announced \in frame.texts

Parse ==
    /\ reader = "payload" /\ AllRead
    /\ reader' = IF Parses THEN "ok" ELSE "error"
    /\ UNCHANGED <<frame, receiver, sent, writer, closed, read, dropped>>

\* MUTANT of ReadEof: a read of no bytes is tried again.
ReadEofAgain ==
    /\ reader \in {"header", "payload"} /\ read < Wanted
    /\ closed /\ read = sent
    /\ UNCHANGED vars

\* read_exact meets the end of the stream: UnexpectedEof.
ReadEof ==
    /\ reader \in {"header", "payload"} /\ read < Wanted
    /\ closed /\ read = sent
    /\ reader' = "error"
    /\ UNCHANGED <<frame, receiver, sent, writer, closed, read, dropped>>

\* handle_connection() answers an error before it returns.  What it says of a
\* frame that send_json is still sending, that it is too large or ends inside
\* a value, is short and waits for nobody.
Answer ==
    /\ receiver = "handler" /\ reader = "error"
    /\ reader' = "answered"
    /\ UNCHANGED <<frame, receiver, sent, writer, closed, read, dropped>>

\* MUTANT of Drop: the connection of a frame that was refused is kept.
DropValueOnly ==
    /\ reader = "ok" /\ ~dropped
    /\ dropped' = TRUE
    /\ UNCHANGED <<frame, receiver, sent, writer, closed, read, reader>>

\* The caller is through with the connection and drops it.
Drop ==
    /\ reader \in {"ok", "answered"} \/ (receiver = "agent" /\ reader = "error")
    /\ ~dropped
    /\ dropped' = TRUE
    /\ UNCHANGED <<frame, receiver, sent, writer, closed, read, reader>>

-----------------------------------------------------------------------------

Receive == Read \/ CheckLength \/ Parse \/ ReadEof \/ Answer \/ Drop

Next == Write \/ Flush \/ WriteFails \/ Close \/ Receive

Spec == Init /\ [][Next]_vars

\* Both ends are scheduled while they can go on; nobody has to close, and a
\* sender that announced more than it has leaves the receiver waiting.
FairSpec == Spec /\ WF_vars(Write \/ Flush \/ WriteFails) /\ WF_vars(Receive)

-----------------------------------------------------------------------------
(* Properties *)

Failed == reader \in {"error", "answered"}

Returned == reader = "ok" \/ Failed

\* recv_json takes nothing that lies behind the frame, no more than
\* MAX_MSG_BYTES whatever length is announced, and gives up a frame that is
\* too large after its header.
BoundedRead ==
    read <= HeaderBytes + (IF frame.announced <= MAX_MSG_BYTES THEN frame.announced ELSE 0)

Arrived == sent >= HeaderBytes + frame.announced

\* The refinement mapping to FrameDelivery: acceptable is a frame whose header
\* announces, within the limit, just the value that was sent.
Delivery == INSTANCE FrameDelivery WITH
    acceptable <- frame.announced \in frame.texts /\ frame.announced <= MAX_MSG_BYTES,
    offered <- IF Arrived THEN "whole" ELSE IF closed THEN "cut" ELSE "part",
    result <- IF reader = "ok" THEN "value" ELSE IF Failed THEN "error" ELSE "none"

\* Whatever the chunks, an acceptable frame comes out whole or not at all, and
\* is refused for no other reason than a stream that ended inside it; a frame
\* whose header was cut to 32 bits is refused, not taken by its beginning.
ImplementsDelivery == Delivery!DeliverySpec

\* recv_json, which has no timeout, returns once the stream has ended, the
\* frame is there, or its header says that it is too large.
ReaderReturns ==
    (\/ closed \/ Arrived
     \/ sent >= HeaderBytes /\ frame.announced > MAX_MSG_BYTES) ~> Returned

\* A value that send_json writes is received, up to and including the limit,
\* however small the socket's buffer, unless the sender ends first.
ValueReceived ==
    (\E n \in 1..MAX_MSG_BYTES : frame = SendJson(n, TRUE)) ~> (reader = "ok" \/ closed)

\* send_json does not hang either: a receiver that refuses the frame with bytes
\* still to come drops the connection, the handler after its answer, and that
\* ends the write.
SenderReturns ==
    (writer = "sending" /\ \E e \in BOOLEAN : frame = SendJson(frame.size, e))
        ~> (writer # "sending" \/ closed)

=============================================================================
