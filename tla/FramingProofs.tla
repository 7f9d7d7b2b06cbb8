--------------------------- MODULE FramingProofs ---------------------------
(***************************************************************************)
(* One frame comes out whole or not at all, whatever its size, the limit,  *)
(* the range of the header, the socket's buffer and the chunks.            *)
(***************************************************************************)
EXTENDS Framing, TLAPS

\* How far recv_json is: where it may read to depends on what it has checked.
Progress ==
    /\ reader = "header" => read <= HeaderBytes
    /\ reader = "payload" =>
          /\ frame.announced <= MAX_MSG_BYTES
          /\ read >= HeaderBytes /\ read <= HeaderBytes + frame.announced
    /\ reader = "ok" => Parses

Inv == TypeOK /\ Progress /\ BoundedRead

\* What is known of the constants, for the frame at hand.
LEMMA FrameFacts ==
    ASSUME frame \in Senders
    PROVE  /\ frame.announced \in Nat /\ frame.size \in Nat
           /\ MAX_MSG_BYTES \in Nat /\ Capacity \in Nat /\ Capacity > 0
           /\ Total \in Nat /\ Total >= HeaderBytes
BY FramingAssumption DEF Total, HeaderBytes

LEMMA InvInit == Init => Inv
<1> SUFFICES ASSUME Init PROVE Inv
  OBVIOUS
<1>0. frame \in Senders
  BY DEF Init
<1>1. Total \in Nat
  BY <1>0, FrameFacts
<1>2. sent \in 0..Total /\ read \in 0..sent
  BY <1>1 DEF Init
<1>3. closed \in BOOLEAN /\ dropped \in BOOLEAN
  BY DEF Init
<1>4. TypeOK
  BY <1>0, <1>2, <1>3 DEF Init, TypeOK
<1> QED
  BY <1>0, <1>4, FrameFacts DEF Init, Inv, Progress, BoundedRead, HeaderBytes

\* The bytes a write puts on the stream belong to the frame.
LEMMA WriteBounds ==
    ASSUME Inv, Write
    PROVE  sent' \in Nat /\ sent' > sent /\ sent' <= Total
<1> frame \in Senders /\ sent \in 0..Total /\ read \in 0..sent
  BY DEF Inv, TypeOK
<1> DEFINE part == IF sent < HeaderBytes THEN HeaderBytes ELSE Total
<1>1. PICK n \in 1..Least(Capacity - (sent - read), part - sent) : sent' = sent + n
  BY DEF Write
<1>2. part \in Int /\ part <= Total
  BY FrameFacts DEF HeaderBytes
<1>3. n <= part - sent
  BY <1>2, FrameFacts DEF Least
<1> HIDE DEF part
<1> QED
  BY <1>1, <1>2, <1>3, FrameFacts

\* Those a read takes have been sent, and are wanted.
LEMMA ReadBounds ==
    ASSUME Inv, Read
    PROVE  read' \in Nat /\ read' > read /\ read' <= sent /\ read' <= Wanted
<1> frame \in Senders /\ sent \in 0..Total /\ read \in 0..sent
  BY DEF Inv, TypeOK
<1>1. PICK n \in 1..Readable : read' = read + n
  BY DEF Read
<1>2. Wanted \in Int
  BY FrameFacts DEF Wanted, HeaderBytes
<1> QED
  BY <1>1, <1>2, FrameFacts DEF Readable, Least

LEMMA InvStep == Inv /\ [Next]_vars => Inv'
<1> SUFFICES ASSUME Inv, [Next]_vars PROVE Inv'
  OBVIOUS
<1>0. frame \in Senders /\ frame' = frame /\ receiver' = receiver
  BY DEF Inv, TypeOK, Next, vars, Write, Flush, WriteFails, Close, Receive, Read,
         CheckLength, Parse, ReadEof, Answer, Drop
<1>t. Total' = Total
  BY <1>0 DEF Total
<1>1. CASE UNCHANGED <<sent, read, reader>>
  <2>1. TypeOK'
    BY <1>0, <1>1, <1>t
       DEF Inv, TypeOK, Next, vars, Write, Flush, WriteFails, Close, Receive, Read,
           CheckLength, Parse, ReadEof, Answer, Drop
  <2> QED
    BY <1>0, <1>1, <2>1 DEF Inv, Progress, BoundedRead, Parses
<1>2. CASE Write
  <2>1. TypeOK'
    BY <1>0, <1>2, <1>t, WriteBounds, FrameFacts DEF Inv, TypeOK, Write
  <2> QED
    BY <1>0, <1>2, <2>1 DEF Inv, Write, Progress, BoundedRead, Parses
<1>3. CASE Read
  <2>1. TypeOK'
    BY <1>0, <1>3, <1>t, ReadBounds, FrameFacts DEF Inv, TypeOK, Read
  <2>2. Progress' /\ BoundedRead'
    BY <1>0, <1>3, ReadBounds, FrameFacts
       DEF Inv, TypeOK, Read, Wanted, Progress, BoundedRead, HeaderBytes
  <2> QED
    BY <2>1, <2>2 DEF Inv
<1>4. CASE CheckLength
  BY <1>0, <1>4, <1>t, FrameFacts
     DEF Inv, TypeOK, CheckLength, TooLarge, Progress, BoundedRead, HeaderBytes
<1>5. CASE Parse
  BY <1>0, <1>5, <1>t, FrameFacts DEF Inv, TypeOK, Parse, Parses, Progress, BoundedRead
<1>6. CASE ReadEof \/ Answer
  BY <1>0, <1>6, <1>t, FrameFacts DEF Inv, TypeOK, ReadEof, Answer, Progress, BoundedRead
<1> QED
  BY <1>1, <1>2, <1>3, <1>4, <1>5, <1>6
     DEF Next, Receive, Flush, WriteFails, Close, Drop, vars

LEMMA Invariant == Spec => []Inv
BY InvInit, InvStep, PTL DEF Spec

\* The two ends keep their types: recv_json never runs ahead of the stream.
THEOREM TypeCorrect == Spec => []TypeOK
<1>1. Inv => TypeOK
  BY DEF Inv
<1> QED
  BY Invariant, <1>1, PTL

\* recv_json reads no more than the limit allows, whatever is announced.
THEOREM ReadIsBounded == Spec => []BoundedRead
<1>1. Inv => BoundedRead
  BY DEF Inv
<1> QED
  BY Invariant, <1>1, PTL

-----------------------------------------------------------------------------

acceptableBar == frame.announced \in frame.texts /\ frame.announced <= MAX_MSG_BYTES
offeredBar == IF Arrived THEN "whole" ELSE IF closed THEN "cut" ELSE "part"
resultBar == IF reader = "ok" THEN "value" ELSE IF Failed THEN "error" ELSE "none"

LEMMA DeliveryInit == Init => Delivery!DeliveryInit
<1> SUFFICES ASSUME Init PROVE Delivery!DeliveryInit
  OBVIOUS
<1>1. ~Arrived
  BY FrameFacts DEF Init, Arrived, HeaderBytes
<1> QED
  BY <1>1 DEF Init, Delivery!DeliveryInit, Failed

\* Every step of the bytes offers more of the frame, returns a result for it, or
\* leaves both alone.
LEMMA DeliveryStep ==
    Inv /\ [Next]_vars
        => [Delivery!DeliveryNext]_<<acceptableBar, offeredBar, resultBar>>
<1> SUFFICES ASSUME Inv, [Next]_vars
             PROVE  [Delivery!DeliveryNext]_<<acceptableBar, offeredBar, resultBar>>
  OBVIOUS
<1> USE DEF acceptableBar, offeredBar, resultBar, Failed
<1>0. frame \in Senders /\ frame' = frame /\ acceptableBar' = acceptableBar
  BY DEF Inv, TypeOK, Next, vars, Write, Flush, WriteFails, Close, Receive, Read,
         CheckLength, Parse, ReadEof, Answer, Drop
<1>1. CASE UNCHANGED <<sent, closed, reader>>
  BY <1>0, <1>1 DEF Arrived
<1>2. CASE Write
  <2>1. Arrived => Arrived'
    BY <1>0, <1>2, WriteBounds, FrameFacts DEF Inv, TypeOK, Arrived, HeaderBytes
  <2>2. resultBar' = resultBar /\ ~closed /\ ~closed'
    BY <1>2 DEF Write
  <2> QED
    BY <1>0, <2>1, <2>2 DEF Delivery!DeliveryNext, Delivery!Complete
<1>3. CASE Close
  <2>1. Arrived' = Arrived /\ resultBar' = resultBar /\ ~closed /\ closed'
    BY <1>0, <1>3 DEF Close, Arrived
  <2> QED
    BY <1>0, <2>1 DEF Delivery!DeliveryNext, Delivery!CutOff
<1>4. CASE CheckLength
  <2>1. offeredBar' = offeredBar /\ resultBar = "none"
    BY <1>0, <1>4 DEF CheckLength, Arrived
  <2>2. CASE TooLarge
    <3>1. ~acceptableBar /\ resultBar' = "error"
      BY <1>0, <1>4, <2>2, FrameFacts DEF CheckLength, TooLarge
    <3> QED
      BY <1>0, <2>1, <3>1 DEF Delivery!DeliveryNext, Delivery!Reject
  <2>3. CASE ~TooLarge
    BY <1>0, <1>4, <2>1, <2>3 DEF CheckLength
  <2> QED
    BY <2>2, <2>3
<1>5. CASE Parse
  <2>1. offeredBar' = offeredBar /\ resultBar = "none"
    BY <1>0, <1>5 DEF Parse, Arrived
  <2>2. offeredBar = "whole"
    BY <1>5, FrameFacts, <1>0 DEF Parse, AllRead, Wanted, Arrived, Inv, TypeOK
  <2>3. frame.announced <= MAX_MSG_BYTES
    BY <1>5 DEF Parse, Inv, Progress
  <2>4. CASE Parses
    <3>1. acceptableBar /\ resultBar' = "value"
      BY <1>5, <2>3, <2>4 DEF Parse, Parses
    <3> QED
      BY <1>0, <2>1, <2>2, <3>1 DEF Delivery!DeliveryNext, Delivery!Deliver
  <2>5. CASE ~Parses
    <3>1. ~acceptableBar /\ resultBar' = "error"
      BY <1>5, <2>5 DEF Parse, Parses
    <3> QED
      BY <1>0, <2>1, <3>1 DEF Delivery!DeliveryNext, Delivery!Reject
  <2> QED
    BY <2>4, <2>5
<1>6. CASE ReadEof
  <2>1. offeredBar' = offeredBar /\ resultBar = "none" /\ resultBar' = "error"
    BY <1>0, <1>6 DEF ReadEof, Arrived
  <2>2. ~Arrived
    BY <1>0, <1>6, FrameFacts DEF ReadEof, Wanted, Arrived, Inv, TypeOK, HeaderBytes
  <2>3. offeredBar = "cut"
    BY <1>6, <2>2 DEF ReadEof
  <2> QED
    BY <1>0, <2>1, <2>3 DEF Delivery!DeliveryNext, Delivery!Reject
<1>7. CASE Answer
  BY <1>0, <1>7 DEF Answer, Arrived
<1> QED
  BY <1>1, <1>2, <1>3, <1>4, <1>5, <1>6, <1>7
     DEF Next, Receive, Flush, WriteFails, Read, Drop, vars

\* codec.rs delivers frames whole or not at all, which is what Server has of
\* send_json and recv_json.
THEOREM DeliveryImplemented == Spec => ImplementsDelivery
<1> QED
  BY Invariant, DeliveryInit, DeliveryStep, PTL
     DEF Spec, ImplementsDelivery, Delivery!DeliverySpec, acceptableBar, offeredBar, resultBar

=============================================================================
