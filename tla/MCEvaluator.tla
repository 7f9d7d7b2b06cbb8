---------------------------- MODULE MCEvaluator ----------------------------
(* Instances of Evaluator: names that meet when they are joined, and tokens *)
(* around every length at which the DER encoding changes.                   *)
EXTENDS Evaluator

MCCalls == [vm : {"front", "back"}, module : {<<"a">>, <<"a", "b">>},
            method : {<<"b">>, <<"c">>, <<"b", "c">>}]
WholeModules == {[c EXCEPT !.method = <<>>] : c \in MCCalls}
MCPaths == [vm : {"front", "back"}, path : {"/x", "/y"}, mode : {"read", "write"}]

UpToTwo(S) == {{}} \cup {{x, y} : x, y \in S}

MCGrants ==
    [calls : UpToTwo(MCCalls \cup WholeModules), paths : {{}}]
      \cup [calls : {{}}, paths : UpToTwo(MCPaths)]
      \cup {[calls |-> MCCalls, paths |-> MCPaths]}

\* JWTs of 247 (the shortest claim), 255 to 257, 65535 to 65537, of 65536 plus
\* each of 127 to 257 where the Go decoder changes its mind, and two more.
MCPayloadSizes ==
    {n - (HeaderSize + 2 + SignatureSize) :
        n \in {247, 255, 256, 257, 1000, 65535, 65536, 65537, 65536 + 127,
               65536 + 128, 65536 + 255, 65536 + 256, 65536 + 1000, 3 * 65536}}

\* A peer claims everything.
MCClaimed == {[calls |-> MCCalls, paths |-> MCPaths]}

MCUsizeRange == 2^20

\* Heads for a token of n = 247 bytes that no encoder of DER writes: another
\* tag, a leading zero, no definite length, one more or fewer than there is,
\* and a length that is n in the last 20 bits only; and cut ones.
Odd(n) == {<<5, 129, n>>, <<4, 130, 0, n>>, <<4, 131, 0, 0, n>>, <<4, 128>>,
           <<4, 129, n - 1>>, <<4, 129, n + 1>>, <<4, 127>>, <<4, 131, 16, 0, n>>}
Cut == {<<>>, <<4>>, <<5>>, <<4, 129>>, <<4, 130, 0>>, <<4, 255, 1>>}

MCForms ==
    LET payload(n) == n - (HeaderSize + 2 + SignatureSize) IN
    [head : Odd(247) \cup {<<4, 129, 247>>}, payload : {payload(247)}, rest : {246, 247, 300}]
      \cup [head : {<<4, 131, 1, 0, 0>>}, payload : {payload(65536)}, rest : {65535, 65536}]
      \cup [head : Cut \cup {<<4, 0>>, <<4, 1>>, <<4, 128>>}, payload : {payload(247)}, rest : {0}]

=============================================================================
