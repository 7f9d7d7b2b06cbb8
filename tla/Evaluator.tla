----------------------------- MODULE Evaluator -----------------------------
(***************************************************************************)
(* How a capability claim gets into a certificate and out of it again: the *)
(* JWT of jwt.rs, the DER OCTET STRING that signing.rs puts around it, and *)
(* the two evaluators, Rust and Go, that unwrap, verify and decide.  Both  *)
(* meet the same peer certificate with the CA certificate of their own.    *)
(*                                                                         *)
(* A peer presents what certificate it likes: the evaluators do not check  *)
(* the signature of the certificate, only that of the token in it.         *)
(*                                                                         *)
(* Bytes of content are counted, bytes of a length field are represented.  *)
(* A string is the sequence of its segments between dots, so that joining  *)
(* two with a dot is concatenation.  A Vec that is only searched is a set. *)
(***************************************************************************)
EXTENDS Integers, Sequences, FiniteSets

CONSTANTS
    Grants,         \* what administrators may mean to grant, see CallsAsGranted
    Days,           \* days on which claims may end, and be evaluated
    PayloadSizes,   \* base64 characters of a claim's JSON
    Cas,            \* CA key pairs
    NoPem,          \* a file that does not parse, or has no such extension
    Calls, Paths,   \* what callees are asked for
    Claimed,        \* what peers that sign a token themselves put in
    Forms,          \* extensions that peers make, or that are damaged
    UsizeRange      \* 2^64

\* Everything a grant names is a String; <<>> in place of a method is none,
\* an empty method that is asked for is <<"">>.
RpcCalls == [vm : STRING, module : Seq(STRING), method : Seq(STRING)]
PathAccesses == [vm : STRING, path : STRING, mode : STRING]

\* A form is the bytes before the token, the size of the token's payload and
\* the number of bytes that follow the head: fewer than the token has, or more.
\* Content that is no token stands for one by another signer.
FormTypes == [head : Seq(0..255), payload : Nat, rest : Nat]

\* The number of length bytes that the byte after the tag announces.
LengthBytes(head) == IF head[2] < 128 THEN 0 ELSE head[2] % 128

Complete(head) == Len(head) >= 2 /\ Len(head) = 2 + LengthBytes(head)

ASSUME EvaluatorAssumption ==
    /\ PayloadSizes \subseteq Nat /\ Days \subseteq Nat
    /\ NoPem \notin Cas
    /\ Grants \subseteq [calls : SUBSET RpcCalls, paths : SUBSET PathAccesses]
    /\ Calls \subseteq RpcCalls /\ \A c \in Calls : c.method # <<>>
    /\ Paths \subseteq PathAccesses
    /\ UsizeRange \in Nat /\ UsizeRange >= 65536
    /\ Forms \subseteq FormTypes
    /\ \A f \in Forms : f.rest < UsizeRange /\ (f.rest > 0 => Complete(f.head))

Libraries == {"rust", "go"}

-----------------------------------------------------------------------------
(* caps.rs: grants as host.json and the claim hold them *)

Modes(g, vm, path) == {p.mode : p \in {q \in g.paths : q.vm = vm /\ q.path = path}}

\* One Capability per target.  A method is written "module.method"; a grant
\* without a method is of the whole module.
Capability(g, vm) ==
    LET calls == {c \in g.calls : c.vm = vm} IN
    [target_vm |-> vm,
     rpc_modules |-> {c.module : c \in {d \in calls : d.method = <<>>}},
     rpc_methods |-> {c.module \o c.method : c \in {d \in calls : d.method # <<>>}},
     paths |-> {[path |-> p.path, access |-> Modes(g, vm, p.path)] :
                p \in {q \in g.paths : q.vm = vm}}]

CapClaim(g, exp) == [exp |-> exp, caps |-> {Capability(g, x.vm) : x \in g.calls \cup g.paths}]

-----------------------------------------------------------------------------
(* jwt.rs: header.payload.signature, in base64 *)

HeaderSize == 36        \* of CAP_JWT_HEADER
SignatureSize == 86     \* of the 64 bytes of an ES256 signature

Sign(key, claim, size) == [signer |-> key, claim |-> claim, payload |-> size]

JwtSize(jwt) == HeaderSize + 1 + jwt.payload + 1 + SignatureSize

\* splitn(3, '.') on the first n characters.
Parts(jwt, n) ==
    1 + Cardinality({dot \in {HeaderSize + 1, HeaderSize + jwt.payload + 2} : dot <= n})

\* A signature cut short has not its 64 bytes, and does not verify.
VerifyCapJwt(jwt, n, key) ==
    /\ Parts(jwt, n) = 3
    /\ n = JwtSize(jwt)
    /\ jwt.signer = key

-----------------------------------------------------------------------------
(* signing.rs: the DER helpers *)

OctetString == 4        \* the tag

\* MUTANT of EncodeDerLength: one length byte is used for one length too many.
EncodeDerLengthPast(n) ==
    IF n < 128 THEN <<n>>
    ELSE IF n <= 256 THEN <<129, n % 256>>
    ELSE <<130, (n \div 256) % 256, n % 256>>

\* Each byte pushed is cut to eight bits.
EncodeDerLength(n) ==
    IF n < 128 THEN <<n>>
    ELSE IF n <= 255 THEN <<129, n>>
    ELSE <<130, (n \div 256) % 256, n % 256>>

EncodeDerOctetString(jwt) ==
    [head |-> <<OctetString>> \o EncodeDerLength(JwtSize(jwt)),
     jwt |-> jwt, rest |-> JwtSize(jwt)]

-----------------------------------------------------------------------------
(* Unwrapping: how many of the bytes after the head are taken for the JWT *)

\* The length field as both read it: short, or its bytes from high to low.
Decoded(head) ==
    LET value[i \in 0..LengthBytes(head)] ==
          IF i = 0 THEN 0 ELSE 256 * value[i - 1] + head[2 + i]
    IN  IF head[2] < 128 THEN head[2] ELSE value[LengthBytes(head)]

Refused == [status |-> "error"]
Panicked == [status |-> "panic"]
Accepted(claim) == [status |-> "ok", claim |-> claim]

Judged(jwt, n, key) ==
    IF VerifyCapJwt(jwt, n, key) THEN Accepted(jwt.claim) ELSE Refused

\* An empty extension, or one of another type.
NoOctetString(ext) == ext.head = <<>> \/ ext.head[1] # OctetString

\* MUTANT of FromCertPem: what follows the head is taken, whatever its length.
FromCertPemToEnd(ext, key) ==
    IF key = NoPem \/ ext = NoPem \/ NoOctetString(ext) THEN Refused
    ELSE IF ~Complete(ext.head) THEN Panicked
    ELSE Judged(ext.jwt, ext.rest, key)

\* Evaluator::from_cert_pem: an index past the end of the extension panics, in
\* the head or in the slice behind it; a long length loses its high bytes.
FromCertPem(ext, key) ==
    IF key = NoPem \/ ext = NoPem \/ NoOctetString(ext) THEN Refused
    ELSE IF ~Complete(ext.head) \/ (Decoded(ext.head) % UsizeRange) > ext.rest THEN Panicked
    ELSE Judged(ext.jwt, Decoded(ext.head) % UsizeRange, key)

\* asn1.Unmarshal accepts the shortest form of a length only, and a definite
\* one.  A length that it finds too large is also beyond the end.
Minimal(head) ==
    head[2] >= 128 => /\ LengthBytes(head) > 0
                      /\ head[3] # 0 /\ Decoded(head) >= 128

\* NewEvaluator: asn1.Unmarshal checks tag, form and end, and returns the rest.
NewEvaluator(ext, key) ==
    IF /\ key # NoPem /\ ext # NoPem /\ ~NoOctetString(ext)
       /\ Complete(ext.head) /\ Minimal(ext.head) /\ Decoded(ext.head) <= ext.rest
    THEN Judged(ext.jwt, Decoded(ext.head), key)
    ELSE Refused

-----------------------------------------------------------------------------
(* The decisions, the same in both languages *)

\* MUTANT of MethodMatches: a longer entry is matched by its beginning.
MethodMatchesPrefix(entry, module, method) ==
    \E n \in 1..Len(entry) : SubSeq(entry, 1, n) = module \o method

MethodMatches(entry, module, method) == entry = module \o method

CanCallRpc(claim, vm, module, method) ==
    \E cap \in claim.caps :
        /\ cap.target_vm = vm
        /\ \/ module \in cap.rpc_modules
           \/ \E entry \in cap.rpc_methods : MethodMatches(entry, module, method)

\* MUTANT of CanAccessPath: path and mode are looked up one after the other.
CanAccessPathApart(claim, vm, path, mode) ==
    \E cap \in claim.caps :
        /\ cap.target_vm = vm
        /\ \E p \in cap.paths : p.path = path
        /\ \E p \in cap.paths : mode \in p.access

CanAccessPath(claim, vm, path, mode) ==
    \E cap \in claim.caps :
        /\ cap.target_vm = vm
        /\ \E p \in cap.paths : p.path = path /\ mode \in p.access

-----------------------------------------------------------------------------

VARIABLES
    granted,    \* what the administrator meant to grant
    today,      \* the day of the evaluation, which the code does not look at
    ext,        \* the capability extension of the peer's certificate
    ca,         \* the CA certificate the evaluators are given
    verdict     \* what each made of them

vars == <<granted, today, ext, ca, verdict>>

Pending == [status |-> "none"]

\* The keys of CAs sign what was granted; a key that is not of the CA at hand
\* may be the peer's own, and sign anything.
Grantable(key) == {granted} \cup IF key = ca THEN {} ELSE Claimed

\* sign_csr() has issued the certificate, under this or another CA, or a peer
\* has put a token that it holds into one of its own making; an agent that
\* died may have left either file torn.
Init ==
    /\ granted \in Grants /\ today \in Days
    /\ ca \in Cas \cup {NoPem}
    /\ \/ ext = NoPem
       \/ \E key \in Cas, exp \in Days : \E g \in Grantable(key) :
             \/ \E size \in PayloadSizes :
                   ext = EncodeDerOctetString(Sign(key, CapClaim(g, exp), size))
             \/ \E f \in Forms :
                   ext = [head |-> f.head, rest |-> f.rest,
                          jwt |-> Sign(key, CapClaim(g, exp), f.payload)]
    /\ verdict = [l \in Libraries |-> Pending]

Evaluate(l) ==
    /\ verdict[l] = Pending
    /\ verdict' = [verdict EXCEPT ![l] =
          IF l = "rust" THEN FromCertPem(ext, ca) ELSE NewEvaluator(ext, ca)]
    /\ UNCHANGED <<granted, today, ext, ca>>

Next == \E l \in Libraries : Evaluate(l)

Spec == Init /\ [][Next]_vars

-----------------------------------------------------------------------------
(* Properties *)

AsIssued == ext = EncodeDerOctetString(ext.jwt)

\* "supports lengths up to 2^16-1" (signing.rs): up to there a claim comes out
\* of a certificate of the evaluator's CA as it went in; a longer one, whose
\* length field is cut, is refused, and no length makes the Rust evaluator
\* index past the end.  The hand-written decoder of the one evaluator and the
\* strict one of the other agree.
ReadBack ==
    \A l \in Libraries : verdict[l] # Pending /\ (ext = NoPem \/ AsIssued) =>
        IF ext # NoPem /\ ext.jwt.signer = ca /\ JwtSize(ext.jwt) < 65536
        THEN verdict[l] = Accepted(ext.jwt.claim)
        ELSE verdict[l] = Refused

\* The extension ends before the length that it announces.
CutShort == ~Complete(ext.head) \/ Decoded(ext.head) > ext.rest

\* Whatever extension a peer presents (from_cert_pem() looks at neither the
\* certificate's signature nor the form of the length): a claim that either
\* evaluator accepts is one that the CA at hand signed; what the strict decoder
\* of the Go one accepts, the hand-written one of the Rust one reads in the
\* same way; and that panics on an extension that is cut short only, which the
\* other then refuses.
LibrariesAgree ==
    /\ \A l \in Libraries : verdict[l].status = "ok" =>
          ext.jwt.signer = ca /\ \E exp \in Days : verdict[l].claim = CapClaim(granted, exp)
    /\ verdict["go"].status = "ok" => verdict["rust"] \in {Pending, verdict["go"]}
    /\ verdict["rust"] = Panicked => CutShort /\ verdict["go"] \in {Pending, Refused}

Dotless(c) == Len(c.method) <= 1

\* The calls that an accepted certificate allows are those that were meant,
\* though module and method are joined by a dot on both sides and compared as
\* one string: as long as no method name has a dot (module names may), no
\* method of another module or VM is let in.
CallsAsGranted ==
    \A l \in Libraries :
        verdict[l].status = "ok" /\ (\A d \in granted.calls : Dotless(d)) =>
            \A c \in {d \in Calls : Dotless(d)} :
                CanCallRpc(verdict[l].claim, c.vm, c.module, c.method)
                    <=> c \in granted.calls \/ [c EXCEPT !.method = <<>>] \in granted.calls

\* Likewise for paths: the mode of one path, or of one VM, is not lent to
\* another that the same certificate grants.  A path is granted as it is
\* written ("Exact match for path", lib.rs): an entry is no pattern.
PathsAsGranted ==
    \A l \in Libraries : verdict[l].status = "ok" =>
        \A p \in Paths : CanAccessPath(verdict[l].claim, p.vm, p.path, p.mode)
                             <=> p \in granted.paths

\* "Evaluator validates peer certificates against the CA" (lib.rs), which have
\* an "Expiry timestamp" (caps.rs): what is accepted has not expired.
AcceptedUnexpired ==
    \A l \in Libraries : verdict[l].status = "ok" => today <= verdict[l].claim.exp

=============================================================================
