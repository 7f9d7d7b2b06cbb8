--------------------------- MODULE FrameDelivery ---------------------------
(***************************************************************************)
(* What the framing of codec.rs promises: recv_json returns a value only   *)
(* when the whole of an acceptable frame was put on the stream, and fails  *)
(* only when the frame is not acceptable or the stream ended inside it.    *)
(* Server takes frames whole or broken on the strength of this.            *)
(***************************************************************************)

VARIABLES
    acceptable, \* is the frame one that recv_json takes?
    offered,    \* "part", "whole", or "cut": no more bytes will come
    result      \* of recv_json: "none", "value" or "error"

DeliveryInit == acceptable \in BOOLEAN /\ offered = "part" /\ result = "none"

Complete == offered = "part" /\ offered' = "whole" /\ UNCHANGED <<acceptable, result>>

CutOff == offered = "part" /\ offered' = "cut" /\ UNCHANGED <<acceptable, result>>

Deliver ==
    /\ result = "none" /\ offered = "whole" /\ acceptable
    /\ result' = "value"
    /\ UNCHANGED <<acceptable, offered>>

Reject ==
    /\ result = "none"
    /\ offered = "cut" \/ ~acceptable
    /\ result' = "error"
    /\ UNCHANGED <<acceptable, offered>>

DeliveryNext == Complete \/ CutOff \/ Deliver \/ Reject

DeliverySpec == DeliveryInit /\ [][DeliveryNext]_<<acceptable, offered, result>>

=============================================================================
