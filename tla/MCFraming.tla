----------------------------- MODULE MCFraming -----------------------------
(* Instances of Framing: sizes around the limit and around the range of the *)
(* header, and peers that announce more, or less, than they send.           *)
EXTENDS Framing

\* A text of one byte and a blank, or one as long as the limit.
Announce(n, size, texts) ==
    [announced |-> n, size |-> size, texts |-> texts \cap 1..size]

MCSenders ==
    {SendJson(n, expected) : n \in 1..LenRange + 2, expected \in BOOLEAN}
      \cup {SendJson(0, FALSE)}
      \cup {Announce(n, size, texts) : n \in {1, MAX_MSG_BYTES, LenRange - 1},
                                       size \in {0, 2, LenRange + 1},
                                       texts \in {{1, 2}, {MAX_MSG_BYTES}}}

=============================================================================
