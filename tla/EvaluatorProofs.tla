-------------------------- MODULE EvaluatorProofs --------------------------
(***************************************************************************)
(* What Evaluator checks for chosen grants and token sizes, proved for all *)
(* of them: a claim comes out of a certificate as it went in, up to the    *)
(* length its DER field can hold, and allows what was meant to be granted; *)
(* and of whatever extension a peer makes up, nothing else is accepted.    *)
(***************************************************************************)
EXTENDS Evaluator, FiniteSetTheorems, SequenceTheorems, WellFoundedInduction, TLAPS

(* The DER length field *)

\* The bytes that encode_der_octet_string() puts before a token of n bytes.
LEMMA HeadIs ==
    ASSUME NEW jwt, NEW n \in Nat, JwtSize(jwt) = n,
           NEW head, head = EncodeDerOctetString(jwt).head
    PROVE  /\ head \in Seq(0..255)
           /\ head[1] = OctetString
           /\ n < 128 => Len(head) = 2 /\ head[2] = n
           /\ n \in 128..255 => Len(head) = 3 /\ head[2] = 129 /\ head[3] = n
           /\ n >= 256 => /\ Len(head) = 4 /\ head[2] = 130
                          /\ head[3] = (n \div 256) % 256
                          /\ head[4] = n % 256
<1> DEFINE field == EncodeDerLength(n)
<1>1. head = <<OctetString>> \o field
  BY DEF EncodeDerOctetString
<1>2. /\ field \in Seq(0..255)
      /\ Len(field) > 0
      /\ n < 128 => Len(field) = 1 /\ field[1] = n
      /\ n \in 128..255 => Len(field) = 2 /\ field[1] = 129 /\ field[2] = n
      /\ n >= 256 => /\ Len(field) = 3 /\ field[1] = 130
                     /\ field[2] = (n \div 256) % 256 /\ field[3] = n % 256
  <2>1. CASE n < 128
    BY <2>1 DEF EncodeDerLength
  <2>2. CASE n \in 128..255
    <3>1. field = <<129, n>>
      BY <2>2 DEF EncodeDerLength
    <3> QED
      BY <2>2, <3>1
  <2>3. CASE n >= 256
    <3>1. (n \div 256) % 256 \in 0..255 /\ n % 256 \in 0..255
      OBVIOUS
    <3>2. field = <<130, (n \div 256) % 256, n % 256>>
      BY <2>3 DEF EncodeDerLength
    <3> QED
      BY <2>3, <3>1, <3>2
  <2> QED
    BY <2>1, <2>2, <2>3
<1>3. <<OctetString>> \in Seq(0..255) /\ Len(<<OctetString>>) = 1
  BY DEF OctetString
<1> HIDE DEF field
<1>4. /\ head \in Seq(0..255) /\ Len(head) = 1 + Len(field)
      /\ \A i \in 1..1 + Len(field) :
            head[i] = IF i <= 1 THEN <<OctetString>>[i] ELSE field[i - 1]
  BY <1>1, <1>2, <1>3, ConcatProperties
<1>5. Len(field) \in Nat
  BY <1>2
<1>6. head[1] = OctetString /\ \A i \in 1..Len(field) : head[i + 1] = field[i]
  BY <1>4, <1>5
<1>7. ASSUME n < 128 PROVE Len(head) = 2 /\ head[2] = n
  <2>1. Len(field) = 1 /\ field[1] = n
    BY <1>2, <1>7
  <2> QED
    BY <1>4, <1>6, <2>1
<1>8. ASSUME n \in 128..255 PROVE Len(head) = 3 /\ head[2] = 129 /\ head[3] = n
  <2>1. Len(field) = 2 /\ field[1] = 129 /\ field[2] = n
    BY <1>2, <1>8
  <2> QED
    BY <1>4, <1>6, <2>1
<1>9. ASSUME n >= 256
      PROVE  /\ Len(head) = 4 /\ head[2] = 130
             /\ head[3] = (n \div 256) % 256 /\ head[4] = n % 256
  <2>1. /\ Len(field) = 3 /\ field[1] = 130
        /\ field[2] = (n \div 256) % 256 /\ field[3] = n % 256
    BY <1>2, <1>9
  <2> HIDE DEF field
  <2>2. /\ Len(head) = 4 /\ head[1 + 1] = field[1]
        /\ head[2 + 1] = field[2] /\ head[3 + 1] = field[3]
    BY <1>4, <1>6, <2>1
  <2> QED
    BY <2>1, <2>2
<1> QED
  BY <1>4, <1>6, <1>7, <1>8, <1>9

\* What the decoding loop makes of no, one and two length bytes.
LEMMA DecodedIs ==
    ASSUME NEW h
    PROVE  /\ h[2] < 128 => Decoded(h) = h[2]
           /\ h[2] = 129 /\ h[3] \in Nat => Decoded(h) = h[3]
           /\ h[2] = 130 /\ h[3] \in Nat /\ h[4] \in Nat
                 => Decoded(h) = 256 * h[3] + h[4]
<1> DEFINE Loop(f) == [i \in 0..LengthBytes(h) |->
                          IF i = 0 THEN 0 ELSE 256 * f[i - 1] + h[2 + i]]
           value == CHOOSE f : f = Loop(f)
<1>1. CASE h[2] < 128
  BY <1>1 DEF Decoded
<1>2. ASSUME h[2] = 129, h[3] \in Nat
      PROVE  Decoded(h) = h[3]
  <2>1. LengthBytes(h) = 1
    BY <1>2 DEF LengthBytes
  <2> DEFINE f == [i \in 0..1 |-> IF i = 0 THEN 0 ELSE h[3]]
  <2>2. f = Loop(f)
    <3>1. \A i \in 0..1 : f[i] = IF i = 0 THEN 0 ELSE 256 * f[i - 1] + h[2 + i]
      BY <1>2
    <3> QED
      BY <2>1, <3>1
  <2>3. value = Loop(value)
    BY <2>2
  <2>4. Decoded(h) = value[1]
    BY <1>2, <2>1 DEF Decoded
  <2> HIDE DEF value
  <2> QED
    BY <1>2, <2>1, <2>3, <2>4
<1>3. ASSUME h[2] = 130, h[3] \in Nat, h[4] \in Nat
      PROVE  Decoded(h) = 256 * h[3] + h[4]
  <2>1. LengthBytes(h) = 2
    BY <1>3 DEF LengthBytes
  <2> DEFINE f == [i \in 0..2 |-> IF i = 0 THEN 0
                                  ELSE IF i = 1 THEN h[3]
                                  ELSE 256 * h[3] + h[4]]
  <2>2. f = Loop(f)
    <3>1. \A i \in 0..2 : f[i] = IF i = 0 THEN 0 ELSE 256 * f[i - 1] + h[2 + i]
      BY <1>3
    <3> QED
      BY <2>1, <3>1
  <2>3. value = Loop(value)
    BY <2>2
  <2>4. Decoded(h) = value[2]
    BY <1>3, <2>1 DEF Decoded
  <2> HIDE DEF value
  <2> QED
    BY <1>3, <2>1, <2>3, <2>4
<1> QED
  BY <1>1, <1>2, <1>3

\* A set of natural numbers that is not empty has a least element.
LEMMA LeastNat ==
    ASSUME NEW T, T \subseteq Nat, T # {}
    PROVE  \E x \in T : \A y \in T : x <= y
<1> DEFINE R == {ss \in Nat \X Nat : ss[1] < ss[2]}
<1>1. R = OpToRel(<, Nat)
  BY Zenon DEF OpToRel
<1>2. IsWellFoundedOn(R, Nat)
  BY <1>1, NatLessThanWellFounded, Zenon
<1>3. PICK x \in T : \A y \in T : ~(<<y, x>> \in R)
  <2> HIDE DEF R
  <2> QED
    BY <1>2, WFMin
<1>4. \A y \in T : ~(y < x)
  BY <1>3
<1> QED
  BY <1>3, <1>4

\* However many length bytes there are, the decoding loop makes a number of them.
LEMMA DecodedNat ==
    ASSUME NEW h \in Seq(0..255), Complete(h)
    PROVE  Decoded(h) \in Nat
<1> DEFINE k == LengthBytes(h)
           Loop(f) == [i \in 0..LengthBytes(h) |->
                          IF i = 0 THEN 0 ELSE 256 * f[i - 1] + h[2 + i]]
           value == CHOOSE f : f = Loop(f)
           Upto(m, f) == /\ f[0] = 0
                         /\ \A i \in 1..m : f[i] = 256 * f[i - 1] + h[2 + i]
<1>0. \A i \in 1..Len(h) : h[i] \in Nat
  <2>1. 0..255 \subseteq Nat
    OBVIOUS
  <2> QED
    BY <2>1, ElementOfSeq, Zenon
<1>1. k \in Nat /\ Len(h) = 2 + k /\ h[2] \in Nat
  <2>1. Len(h) >= 2 /\ Len(h) = 2 + k /\ Len(h) \in Nat
    BY DEF Complete
  <2>2. h[2] \in Nat
    BY <1>0, <2>1
  <2>3. LengthBytes(h) \in Nat
    BY <2>2 DEF LengthBytes
  <2> QED
    BY <2>1, <2>2, <2>3
<1>N. ASSUME NEW i \in 1..k PROVE h[2 + i] \in Nat
  <2>1. 2 + i \in 1..Len(h)
    BY <1>1
  <2> QED
    BY <1>0, <2>1
<1>2. \E f \in [0..k -> Nat] : Upto(k, f)
  <2> DEFINE Good(m) == \E f \in [0..m -> Nat] : Upto(m, f)
             T == {m \in 0..k : ~Good(m)}
  <2>1. Good(0)
    <3>1. [i \in 0..0 |-> 0] \in [0..0 -> Nat] /\ Upto(0, [i \in 0..0 |-> 0])
      OBVIOUS
    <3> QED
      BY <3>1
  <2>2. ASSUME NEW m \in 1..k, Good(m - 1) PROVE Good(m)
    <3>1. PICK f \in [0..m - 1 -> Nat] : Upto(m - 1, f)
      BY <2>2
    <3>2. m \in Nat /\ m - 1 \in 0..m - 1
      BY <1>1
    <3>3. h[2 + m] \in Nat
      BY <1>N
    <3>4. f[m - 1] \in Nat
      BY <3>1, <3>2
    <3> DEFINE g == [i \in 0..m |-> IF i = m THEN 256 * f[m - 1] + h[2 + m] ELSE f[i]]
    <3>5. g \in [0..m -> Nat]
      BY <3>1, <3>2, <3>3, <3>4
    <3>6. g[0] = 0
      BY <1>1, <3>1, <3>2
    <3>7. ASSUME NEW i \in 1..m PROVE g[i] = 256 * g[i - 1] + h[2 + i]
      <4>1. i \in 0..m /\ i - 1 \in 0..m /\ i - 1 # m /\ (i # m => i \in 1..m - 1)
        BY <3>2
      <4>2. g[i - 1] = f[i - 1]
        BY <4>1
      <4>3. CASE i = m
        BY <4>1, <4>2, <4>3
      <4>4. CASE i # m
        <5>1. g[i] = f[i]
          BY <4>1, <4>4
        <5> QED
          BY <3>1, <4>1, <4>2, <4>4, <5>1
      <4> QED
        BY <4>3, <4>4
    <3> HIDE DEF g
    <3> QED
      BY <3>5, <3>6, <3>7
  <2> HIDE DEF Good
  <2>3. SUFFICES ASSUME T # {} PROVE FALSE
    <3>1. k \in 0..k /\ (k \notin T => Good(k))
      BY <1>1
    <3> QED
      BY <3>1 DEF Good
  <2>4. PICK m \in T : \A y \in T : m <= y
    <3>1. T \subseteq Nat
      BY <1>1
    <3> HIDE DEF T
    <3> QED
      BY <2>3, <3>1, LeastNat
  <2>5. m \in 0..k /\ ~Good(m)
    OBVIOUS
  <2>6. m \in 1..k /\ m - 1 \in 0..k
    BY <1>1, <2>1, <2>5
  <2>7. Good(m - 1)
    BY <1>1, <2>4, <2>6
  <2> QED
    BY <2>2, <2>5, <2>6, <2>7
<1>3. PICK f \in [0..k -> Nat] : Upto(k, f)
  BY <1>2
<1>4. f = Loop(f)
  <2>1. \A i \in 0..k : f[i] = IF i = 0 THEN 0 ELSE 256 * f[i - 1] + h[2 + i]
    BY <1>1, <1>3
  <2> QED
    BY <2>1, <1>3
<1>5. value = Loop(value)
  BY <1>4
<1> HIDE DEF value
<1>6. \A i \in 0..k : value[i] \in Nat
  <2> DEFINE T == {i \in 0..k : value[i] \notin Nat}
  <2>1. SUFFICES ASSUME T # {} PROVE FALSE
    BY <1>1
  <2>2. PICK m \in T : \A y \in T : m <= y
    <3>1. T \subseteq Nat
      BY <1>1
    <3> HIDE DEF T
    <3> QED
      BY <2>1, <3>1, LeastNat
  <2>3. m \in 0..k /\ value[m] \notin Nat
    OBVIOUS
  <2>4. value[0] = 0
    BY <1>1, <1>5
  <2>5. m \in 1..k /\ m - 1 \in 0..k
    BY <1>1, <2>3, <2>4
  <2>6. value[m - 1] \in Nat
    BY <1>1, <2>2, <2>5
  <2>7. h[2 + m] \in Nat
    BY <1>N, <2>5
  <2>8. value[m] = 256 * value[m - 1] + h[2 + m]
    BY <1>1, <1>5, <2>5
  <2> QED
    BY <2>3, <2>6, <2>7, <2>8
<1>7. Decoded(h) = IF h[2] < 128 THEN h[2] ELSE value[k]
  BY DEF Decoded, value
<1>8. value[k] \in Nat
  BY <1>1, <1>6
<1> QED
  BY <1>1, <1>7, <1>8

\* Unwrapping gives the length of the token, as far as two bytes hold it, and
\* in the shortest form if they do.
LEMMA RoundTrip ==
    ASSUME NEW jwt, NEW n \in Nat, JwtSize(jwt) = n,
           NEW h, h = EncodeDerOctetString(jwt).head
    PROVE  /\ h # <<>> /\ h[1] = OctetString /\ Complete(h)
           /\ Decoded(h) = n % 65536
           /\ n < 65536 => Minimal(h)
<1> DEFINE Read == /\ Complete(h)
                   /\ Decoded(h) = n % 65536
                   /\ n < 65536 => Minimal(h)
<1>1. h \in Seq(0..255) /\ h[1] = OctetString /\ Len(h) >= 2
  BY HeadIs
<1>2. h # <<>>
  BY <1>1
<1>3. ASSUME n < 128 PROVE Read
  <2>1. h[2] = n /\ Len(h) = 2
    BY <1>3, HeadIs
  <2>2. Decoded(h) = n /\ LengthBytes(h) = 0
    BY <1>3, <2>1, DecodedIs DEF LengthBytes
  <2>3. Complete(h) /\ Minimal(h)
    BY <1>3, <2>1, <2>2 DEF Complete, Minimal
  <2>4. n % 65536 = n
    BY <1>3
  <2> QED
    BY <2>2, <2>3, <2>4
<1>4. ASSUME n \in 128..255 PROVE Read
  <2>1. h[2] = 129 /\ h[3] = n /\ Len(h) = 3
    BY <1>4, HeadIs
  <2>2. Decoded(h) = n /\ LengthBytes(h) = 1
    BY <1>4, <2>1, DecodedIs DEF LengthBytes
  <2>3. Complete(h) /\ Minimal(h)
    BY <1>4, <2>1, <2>2 DEF Complete, Minimal
  <2>4. n % 65536 = n
    BY <1>4
  <2> QED
    BY <2>2, <2>3, <2>4
<1>5. ASSUME n >= 256 PROVE Read
  <2>1. /\ h[2] = 130 /\ Len(h) = 4
        /\ h[3] = (n \div 256) % 256 /\ h[4] = n % 256
    BY <1>5, HeadIs
  <2>2. h[3] \in Nat /\ h[4] \in Nat
    BY <2>1
  <2>3. Decoded(h) = 256 * h[3] + h[4] /\ LengthBytes(h) = 2
    BY <2>1, <2>2, DecodedIs DEF LengthBytes
  <2>4. 256 * ((n \div 256) % 256) + (n % 256) = n % 65536
    OBVIOUS
  <2>5. Decoded(h) = n % 65536
    BY <2>1, <2>3, <2>4
  <2>6. n < 65536 => h[3] # 0 /\ Decoded(h) >= 128
    BY <1>5, <2>1, <2>5
  <2>7. Complete(h)
    BY <2>1, <2>3 DEF Complete
  <2>8. n < 65536 => Minimal(h)
    BY <2>3, <2>6 DEF Minimal
  <2> QED
    BY <2>5, <2>7, <2>8
<1>6. n < 128 \/ n \in 128..255 \/ n >= 256
  OBVIOUS
<1>7. Read
  <2> HIDE DEF Read
  <2> QED
    BY <1>3, <1>4, <1>5, <1>6, Zenon
<1> QED
  BY <1>1, <1>2, <1>7

-----------------------------------------------------------------------------
(* Verification *)

\* A token verifies if all of it was taken, and under the key that signed it
\* only: splitn() then finds its two dots.
LEMMA VerifiesWhole ==
    ASSUME NEW jwt, jwt.payload \in Nat, NEW n \in Nat, NEW key
    PROVE  VerifyCapJwt(jwt, n, key) <=> n = JwtSize(jwt) /\ jwt.signer = key
<1> DEFINE a == HeaderSize + 1
           b == HeaderSize + jwt.payload + 2
<1>1. ASSUME n = JwtSize(jwt) PROVE Parts(jwt, n) = 3
  <2>1. a # b /\ a <= n /\ b <= n
    BY <1>1 DEF HeaderSize, SignatureSize, JwtSize
  <2>2. {dot \in {a, b} : dot <= n} = {a, b}
    BY <2>1
  <2> HIDE DEF a, b
  <2>3. Cardinality({a, b}) = 2
    <3>1. IsFiniteSet({a}) /\ Cardinality({a}) = 1
      BY FS_Singleton
    <3>2. Cardinality({a} \cup {b}) = Cardinality({a}) + 1
      BY <2>1, <3>1, FS_AddElement
    <3>3. {a} \cup {b} = {a, b}
      OBVIOUS
    <3> QED
      BY <3>1, <3>2, <3>3
  <2>4. Parts(jwt, n) = 1 + Cardinality({dot \in {a, b} : dot <= n})
    BY DEF Parts, a, b
  <2> QED
    BY <2>2, <2>3, <2>4
<1> QED
  BY <1>1 DEF VerifyCapJwt

\* The extensions Init allows, see there: as issued, or made by a peer.
Issued(e, key, g, exp) ==
    \E size \in PayloadSizes : e = EncodeDerOctetString(Sign(key, CapClaim(g, exp), size))

Made(e, key, g, exp) ==
    \E f \in Forms : e = [head |-> f.head, rest |-> f.rest,
                          jwt |-> Sign(key, CapClaim(g, exp), f.payload)]

Presented(e) ==
    \E key \in Cas, exp \in Days : \E g \in Grantable(key) :
        Issued(e, key, g, exp) \/ Made(e, key, g, exp)

\* The token is of a signer who, if it is the CA at hand, signed what was
\* granted; the extension fits in memory, or carries a length of two bytes.
LEMMA PresentedIs ==
    ASSUME NEW e, Presented(e)
    PROVE  /\ e.jwt.signer \in Cas /\ e.jwt.payload \in Nat
           /\ e.jwt.signer = ca => \E exp \in Days : e.jwt.claim = CapClaim(granted, exp)
           /\ e.head \in Seq(0..255) /\ e.rest \in Nat
           /\ e.rest < UsizeRange \/ e.head = EncodeDerOctetString(e.jwt).head
<1>1. PICK key \in Cas, exp \in Days : \E g \in Grantable(key) :
         Issued(e, key, g, exp) \/ Made(e, key, g, exp)
  BY DEF Presented
<1>2. PICK g \in Grantable(key) : Issued(e, key, g, exp) \/ Made(e, key, g, exp)
  BY <1>1
<1>3. key = ca => g = granted
  BY <1>2 DEF Grantable
<1>4. CASE Issued(e, key, g, exp)
  <2>1. PICK size \in PayloadSizes : e = EncodeDerOctetString(Sign(key, CapClaim(g, exp), size))
    BY <1>4 DEF Issued
  <2>2. e.jwt = Sign(key, CapClaim(g, exp), size)
    BY <2>1 DEF EncodeDerOctetString
  <2>3. /\ e.jwt.signer = key /\ e.jwt.claim = CapClaim(g, exp)
        /\ e.jwt.payload = size /\ size \in Nat
    BY <2>2, EvaluatorAssumption DEF Sign
  <2>4. JwtSize(e.jwt) \in Nat
    BY <2>3 DEF JwtSize, HeaderSize, SignatureSize
  <2>5. e.head = EncodeDerOctetString(e.jwt).head
    BY <2>1, <2>2
  <2>6. e.head \in Seq(0..255)
    BY <2>4, <2>5, HeadIs
  <2>7. e.rest = JwtSize(e.jwt)
    BY <2>1, <2>2 DEF EncodeDerOctetString
  <2> QED
    BY <1>3, <2>3, <2>4, <2>5, <2>6, <2>7
<1>5. CASE Made(e, key, g, exp)
  <2>1. PICK f \in Forms : e = [head |-> f.head, rest |-> f.rest,
                                jwt |-> Sign(key, CapClaim(g, exp), f.payload)]
    BY <1>5 DEF Made
  <2>2. f \in FormTypes /\ f.rest < UsizeRange
    BY EvaluatorAssumption
  <2>3. f.head \in Seq(0..255) /\ f.payload \in Nat /\ f.rest \in Nat
    BY <2>2 DEF FormTypes
  <2>4. e.head = f.head /\ e.rest = f.rest /\ e.jwt = Sign(key, CapClaim(g, exp), f.payload)
    BY <2>1
  <2>5. e.jwt.signer = key /\ e.jwt.claim = CapClaim(g, exp) /\ e.jwt.payload = f.payload
    BY <2>4 DEF Sign
  <2> QED
    BY <1>3, <2>2, <2>3, <2>4, <2>5
<1> QED
  BY <1>2, <1>4, <1>5

\* What each evaluator says of a certificate and a CA.
Result(l) == IF l = "rust" THEN FromCertPem(ext, ca) ELSE NewEvaluator(ext, ca)

\* And what it should say of one as sign_csr() wrote it, see ReadBack.
Expected ==
    IF ext # NoPem /\ ext.jwt.signer = ca /\ JwtSize(ext.jwt) < 65536
    THEN Accepted(ext.jwt.claim)
    ELSE Refused

LEMMA IssuedResult ==
    ASSUME ca \in Cas \cup {NoPem}, ext = NoPem \/ (Presented(ext) /\ AsIssued),
           NEW l \in Libraries
    PROVE  Result(l) = Expected
<1>1. CASE ext = NoPem
  BY <1>1 DEF Result, Expected, FromCertPem, NewEvaluator
<1>2. CASE ext # NoPem
  <2> DEFINE n == JwtSize(ext.jwt)
  <2>1. ext.jwt.signer \in Cas /\ ext.jwt.payload \in Nat
    BY <1>2, PresentedIs
  <2>2. n \in Nat
    BY <2>1 DEF JwtSize, HeaderSize, SignatureSize
  <2>3. ext.head = EncodeDerOctetString(ext.jwt).head /\ ext.rest = n
    <3>1. ext = EncodeDerOctetString(ext.jwt)
      BY <1>2 DEF AsIssued
    <3>2. EncodeDerOctetString(ext.jwt).rest = n
      BY DEF EncodeDerOctetString
    <3> QED
      BY <3>1, <3>2
  <2>4. /\ ~NoOctetString(ext) /\ Complete(ext.head)
        /\ Decoded(ext.head) = n % 65536
        /\ n < 65536 => Minimal(ext.head)
    BY <2>2, <2>3, RoundTrip DEF NoOctetString
  <2>5. /\ Decoded(ext.head) \in Nat /\ Decoded(ext.head) <= n
        /\ Decoded(ext.head) = n <=> n < 65536
        /\ Decoded(ext.head) < 65536
    BY <2>2, <2>4
  <2>6. Decoded(ext.head) % UsizeRange = Decoded(ext.head)
    BY <2>5, EvaluatorAssumption
  <2>7. Judged(ext.jwt, Decoded(ext.head), ca) = Expected
    BY <1>2, <2>1, <2>5, VerifiesWhole DEF Judged, Expected
  <2>8. ca = NoPem => Expected = Refused
    BY <2>1, EvaluatorAssumption DEF Expected
  <2>9. n >= 65536 => Expected = Refused
    BY <2>2 DEF Expected
  <2>10. FromCertPem(ext, ca) = Expected
    <3>1. ~((Decoded(ext.head) % UsizeRange) > ext.rest)
      BY <2>2, <2>3, <2>5, <2>6
    <3> QED
      BY <1>2, <2>4, <2>6, <2>7, <2>8, <3>1 DEF FromCertPem
  <2>11. NewEvaluator(ext, ca) = Expected
    <3>1. CASE ca = NoPem
      BY <2>8, <3>1 DEF NewEvaluator
    <3>2. CASE ca # NoPem /\ n < 65536
      BY <1>2, <2>3, <2>4, <2>5, <2>7, <3>2 DEF NewEvaluator
    <3>3. CASE n >= 65536
      BY <2>7, <2>9, <3>3 DEF NewEvaluator
    <3> QED
      BY <2>2, <3>1, <3>2, <3>3
  <2> QED
    BY <2>10, <2>11 DEF Result
<1> QED
  BY <1>1, <1>2

\* What is accepted was verified under the CA at hand.
LEMMA AcceptedSigned ==
    ASSUME NEW l \in Libraries, Result(l).status = "ok"
    PROVE  /\ ext # NoPem /\ ca # NoPem /\ ext.jwt.signer = ca
           /\ Result(l) = Accepted(ext.jwt.claim)
<1>1. Refused.status # "ok" /\ Panicked.status # "ok"
  BY DEF Refused, Panicked
<1>2. \A n : Judged(ext.jwt, n, ca).status = "ok" =>
             ext.jwt.signer = ca /\ Judged(ext.jwt, n, ca) = Accepted(ext.jwt.claim)
  BY <1>1 DEF Judged, VerifyCapJwt
<1>3. CASE l = "rust"
  BY <1>1, <1>2, <1>3 DEF Result, FromCertPem
<1>4. CASE l = "go"
  BY <1>1, <1>2, <1>4 DEF Result, NewEvaluator
<1> QED
  BY <1>3, <1>4 DEF Libraries

\* What asn1.Unmarshal accepts, the Rust evaluator reads in the same way.
LEMMA GoThenRust ==
    ASSUME Presented(ext), Result("go").status = "ok"
    PROVE  Result("rust") = Result("go")
<1> DEFINE d == Decoded(ext.head)
<1>1. ext # NoPem /\ ca # NoPem /\ Result("go") = Accepted(ext.jwt.claim)
  BY AcceptedSigned DEF Libraries
<1>2. /\ ~NoOctetString(ext) /\ Complete(ext.head) /\ d <= ext.rest
      /\ VerifyCapJwt(ext.jwt, d, ca)
  BY DEF Result, NewEvaluator, Judged, Refused
<1>3. d = JwtSize(ext.jwt)
  BY <1>2 DEF VerifyCapJwt
<1>4. d \in Nat
  BY <1>3, PresentedIs DEF JwtSize, HeaderSize, SignatureSize
<1>5. d < UsizeRange
  <2>1. ext.rest \in Nat /\ UsizeRange \in Nat /\ UsizeRange >= 65536
    BY PresentedIs, EvaluatorAssumption
  <2>2. CASE ext.rest < UsizeRange
    BY <1>2, <1>4, <2>1, <2>2
  <2>3. CASE ext.head = EncodeDerOctetString(ext.jwt).head
    <3>1. JwtSize(ext.jwt) \in Nat
      BY <1>3, <1>4
    <3>2. d = JwtSize(ext.jwt) % 65536
      BY <2>3, <3>1, RoundTrip
    <3> QED
      BY <2>1, <3>1, <3>2
  <2> QED
    BY <2>2, <2>3, PresentedIs
<1>6. (d % UsizeRange) = d
  BY <1>4, <1>5, EvaluatorAssumption
<1>7. ~((d % UsizeRange) > ext.rest)
  BY <1>2, <1>4, <1>6, PresentedIs
<1> HIDE DEF d
<1>8. FromCertPem(ext, ca) = Judged(ext.jwt, d % UsizeRange, ca)
  BY <1>1, <1>2, <1>7 DEF FromCertPem, d
<1> QED
  BY <1>1, <1>2, <1>6, <1>8 DEF Result, Judged

\* A panic is an index past the end of an extension that announced more.
LEMMA PanicIsCut ==
    ASSUME Presented(ext), Result("rust") = Panicked
    PROVE  CutShort
<1>1. ~Complete(ext.head) \/ (Decoded(ext.head) % UsizeRange) > ext.rest
  <2>1. \A n : Judged(ext.jwt, n, ca) # Panicked
    BY DEF Judged, Accepted, Refused, Panicked
  <2> QED
    BY <2>1 DEF Result, FromCertPem, Refused, Panicked
<1>2. Complete(ext.head) => Decoded(ext.head) \in Nat
  BY PresentedIs, DecodedNat
<1>3. ext.rest \in Nat /\ UsizeRange \in Nat /\ UsizeRange > 0
  BY PresentedIs, EvaluatorAssumption
<1>4. ASSUME NEW d \in Nat PROVE (d % UsizeRange) <= d
  BY <1>3
<1> QED
  BY <1>1, <1>2, <1>3, <1>4 DEF CutShort

-----------------------------------------------------------------------------
(* The invariant *)

EvalInv ==
    /\ granted \in Grants
    /\ ext = NoPem \/ Presented(ext)
    /\ ca \in Cas \cup {NoPem}
    /\ DOMAIN verdict = Libraries
    /\ \A l \in Libraries : verdict[l] \in {Pending, Result(l)}

LEMMA EvalInvariant == Spec => []EvalInv
<1>1. Init => EvalInv
  <2> SUFFICES ASSUME Init PROVE EvalInv
    OBVIOUS
  <2>1. ext = NoPem \/ Presented(ext)
    BY DEF Init, Presented, Issued, Made
  <2> QED
    BY <2>1 DEF Init, EvalInv
<1>2. EvalInv /\ [Next]_vars => EvalInv'
  <2> SUFFICES ASSUME EvalInv, [Next]_vars PROVE EvalInv'
    OBVIOUS
  <2>1. UNCHANGED <<granted, ext, ca>>
    BY DEF Next, Evaluate, vars
  <2>2. (ext = NoPem \/ Presented(ext))'
    BY <2>1 DEF EvalInv, Presented, Issued, Made, Grantable
  <2>3. \A l : Result(l)' = Result(l)
    BY <2>1 DEF Result
  <2>4. CASE UNCHANGED vars
    BY <2>1, <2>2, <2>3, <2>4 DEF vars, EvalInv
  <2>5. ASSUME NEW l \in Libraries, Evaluate(l) PROVE EvalInv'
    <3>1. verdict' = [verdict EXCEPT ![l] = Result(l)]
      BY <2>5 DEF Evaluate, Result
    <3> QED
      BY <2>1, <2>2, <2>3, <3>1 DEF EvalInv
  <2> QED
    BY <2>4, <2>5 DEF Next
<1> QED
  BY <1>1, <1>2, PTL DEF Spec

\* For a token of every size, signed by any CA and wrapped by sign_csr(): both
\* evaluators accept it under its own CA if its length fits in two bytes, then
\* with the claim that was signed, and refuse it otherwise; neither panics.
THEOREM ReadsBack == Spec => []ReadBack
<1>1. EvalInv => ReadBack
  <2> SUFFICES ASSUME EvalInv, NEW l \in Libraries, verdict[l] # Pending,
                      ext = NoPem \/ AsIssued
               PROVE  verdict[l] = Expected
    BY DEF ReadBack, Expected
  <2>1. verdict[l] = Result(l)
    BY DEF EvalInv
  <2> QED
    BY <2>1, IssuedResult DEF EvalInv
<1> QED
  BY <1>1, EvalInvariant, PTL

\* For every extension, of any tag, length field and content: only what the CA
\* at hand signed is accepted, Rust follows Go in what it accepts, and panics
\* only where the extension ends too early.
THEOREM OnlySigned == Spec => []LibrariesAgree
<1>1. EvalInv => LibrariesAgree
  <2> SUFFICES ASSUME EvalInv PROVE LibrariesAgree
    OBVIOUS
  <2>1. Pending.status # "ok" /\ Pending # Panicked /\ Refused # Panicked
    BY DEF Pending, Panicked, Refused
  <2>2. ASSUME NEW l \in Libraries, verdict[l].status = "ok"
        PROVE  /\ ext.jwt.signer = ca
               /\ \E exp \in Days : verdict[l].claim = CapClaim(granted, exp)
    <3>1. verdict[l] = Result(l)
      BY <2>1, <2>2 DEF EvalInv
    <3>2. /\ ext # NoPem /\ ext.jwt.signer = ca
          /\ verdict[l] = Accepted(ext.jwt.claim)
      BY <2>2, <3>1, AcceptedSigned
    <3>3. verdict[l].claim = ext.jwt.claim
      BY <3>2 DEF Accepted
    <3> QED
      BY <3>2, <3>3, PresentedIs DEF EvalInv
  <2>3. ASSUME verdict["go"].status = "ok"
        PROVE  verdict["rust"] \in {Pending, verdict["go"]}
    <3>1. verdict["go"] = Result("go")
      BY <2>1, <2>3 DEF EvalInv, Libraries
    <3>2. ext # NoPem
      BY <2>3, <3>1, AcceptedSigned DEF Libraries
    <3>3. Result("rust") = Result("go")
      BY <2>3, <3>1, <3>2, GoThenRust DEF EvalInv
    <3> QED
      BY <3>1, <3>3 DEF EvalInv, Libraries
  <2>4. ASSUME verdict["rust"] = Panicked
        PROVE  CutShort /\ verdict["go"] \in {Pending, Refused}
    <3>1. Result("rust") = Panicked
      BY <2>1, <2>4 DEF EvalInv, Libraries
    <3>2. ext # NoPem
      BY <2>1, <3>1 DEF Result, FromCertPem
    <3>3. Presented(ext)
      BY <3>2 DEF EvalInv
    <3>4. Result("go").status # "ok"
      BY <3>1, <3>3, GoThenRust DEF Panicked
    <3>5. Result("go") = Refused
      BY <3>4 DEF Result, NewEvaluator, Judged, Accepted
    <3> QED
      BY <3>1, <3>3, <3>5, PanicIsCut DEF EvalInv, Libraries
  <2> QED
    BY <2>2, <2>3, <2>4 DEF LibrariesAgree
<1> QED
  BY <1>1, EvalInvariant, PTL

-----------------------------------------------------------------------------
(* The decisions *)

\* An accepted claim is one that was made from what was meant to be granted.
LEMMA AcceptedIs ==
    ASSUME EvalInv, NEW l \in Libraries, verdict[l].status = "ok"
    PROVE  granted \in Grants /\ \E exp \in Days : verdict[l].claim = CapClaim(granted, exp)
<1>1. verdict[l] = Result(l)
  BY DEF EvalInv, Pending
<1>2. ext # NoPem /\ ext.jwt.signer = ca /\ verdict[l] = Accepted(ext.jwt.claim)
  BY <1>1, AcceptedSigned
<1>3. verdict[l].claim = ext.jwt.claim
  BY <1>2 DEF Accepted
<1> QED
  BY <1>2, <1>3, PresentedIs DEF EvalInv

\* Two names of one segment, each behind a prefix, are joined to the same string
\* only if prefixes and names are the same.
LEMMA JoinInjective ==
    ASSUME NEW S, NEW s \in Seq(S), NEW t \in Seq(S), NEW a \in S, NEW b \in S
    PROVE  s \o <<a>> = t \o <<b>> => s = t /\ a = b
<1>1. s \o <<a>> = Append(s, a) /\ t \o <<b>> = Append(t, b)
  BY AppendIsConcat
<1>2. Append(s, a) = Append(t, b) => s = t /\ a = b
  BY AppendInjective
<1> QED
  BY <1>1, <1>2, Zenon

\* A method that is there and has no dot is one segment.
LEMMA OneSegment ==
    ASSUME NEW S, NEW s \in Seq(S), s # <<>>, Len(s) <= 1
    PROVE  \E x \in S : s = <<x>>
<1>1. Len(s) \in Nat \ {0}
  BY EmptySeq
<1>2. s[1] \in S
  BY <1>1, ElementOfSeq
<1>3. /\ <<s[1]>> \in Seq(S) /\ Len(s) = Len(<<s[1]>>)
      /\ \A i \in 1..Len(s) : s[i] = <<s[1]>>[i]
  BY <1>1, <1>2
<1>4. s = <<s[1]>>
  BY <1>3, SeqEqual, Zenon
<1> QED
  BY <1>2, <1>4

\* A granted call stands for this one: its VM, and either its module, as a
\* whole, or its joined name.
Covers(d, vm, module, method) ==
    /\ d.vm = vm
    /\ IF d.method = <<>> THEN d.module = module
       ELSE d.module \o d.method = module \o method

\* A call is allowed if a granted one covers it.
LEMMA CanCallIs ==
    ASSUME NEW g, NEW exp, NEW vm, NEW module, NEW method
    PROVE  CanCallRpc(CapClaim(g, exp), vm, module, method) <=>
             \E d \in g.calls : Covers(d, vm, module, method)
<1> DEFINE caps == {Capability(g, x.vm) : x \in g.calls \cup g.paths}
<1>1. CapClaim(g, exp).caps = caps
  BY DEF CapClaim
<1> DEFINE modules == {c.module : c \in {d \in g.calls : d.vm = vm /\ d.method = <<>>}}
           methods == {c.module \o c.method : c \in {d \in g.calls : d.vm = vm /\ d.method # <<>>}}
<1>2. \A v : Capability(g, v).target_vm = v
  BY DEF Capability
<1>3. Capability(g, vm).rpc_modules = modules /\ Capability(g, vm).rpc_methods = methods
  BY DEF Capability
<1>4. module \in modules <=>
        \E d \in g.calls : d.vm = vm /\ d.method = <<>> /\ d.module = module
  BY Zenon
<1>5. module \o method \in methods <=>
        \E d \in g.calls : /\ d.vm = vm /\ d.method # <<>>
                           /\ d.module \o d.method = module \o method
  BY Zenon
<1> HIDE DEF modules, methods
<1>6. (\E d \in g.calls : d.vm = vm) => Capability(g, vm) \in caps
  BY Zenon
<1>7. CanCallRpc(CapClaim(g, exp), vm, module, method) <=>
        Capability(g, vm) \in caps /\ (module \in modules \/ module \o method \in methods)
  <2>1. \A cap \in caps : cap.target_vm = vm => cap = Capability(g, vm)
    BY <1>2
  <2> HIDE DEF caps
  <2> QED
    BY <1>1, <1>2, <1>3, <2>1 DEF CanCallRpc, MethodMatches
<1> HIDE DEF caps
<1> QED
  BY <1>4, <1>5, <1>6, <1>7, Zenon DEF Covers

\* Whatever is granted: as long as no granted method's name has a dot, a
\* method of one segment is allowed exactly if it, or its module, was meant.
THEOREM OnlyGrantedCalls == Spec => []CallsAsGranted
<1>1. EvalInv => CallsAsGranted
  <2> SUFFICES ASSUME EvalInv, NEW l \in Libraries, verdict[l].status = "ok",
                      \A d \in granted.calls : Dotless(d),
                      NEW c \in Calls, Dotless(c)
               PROVE  CanCallRpc(verdict[l].claim, c.vm, c.module, c.method)
                        <=> c \in granted.calls \/ [c EXCEPT !.method = <<>>] \in granted.calls
    BY DEF CallsAsGranted
  <2>1. PICK exp \in Days : granted \in Grants /\ verdict[l].claim = CapClaim(granted, exp)
    BY AcceptedIs
  <2>2. /\ \A d \in granted.calls : d \in RpcCalls
        /\ c \in RpcCalls /\ c.method # <<>>
    BY <2>1, EvaluatorAssumption
  <2>3. PICK y \in STRING : c.method = <<y>>
    <3>1. c.method \in Seq(STRING) /\ c.method # <<>> /\ Len(c.method) <= 1
      BY <2>2 DEF Dotless, RpcCalls
    <3> QED
      BY <3>1, OneSegment
  <2>4. ASSUME NEW d \in granted.calls
        PROVE  Covers(d, c.vm, c.module, c.method) <=>
               d = c \/ d = [c EXCEPT !.method = <<>>]
    <3>1. d \in RpcCalls
      BY <2>2
    <3>2. CASE d.method = <<>>
      BY <2>2, <3>1, <3>2 DEF RpcCalls, Covers
    <3>3. CASE d.method # <<>>
      <4>1. PICK x \in STRING : d.method = <<x>>
        <5>1. d.method \in Seq(STRING) /\ Len(d.method) <= 1
          BY <3>1 DEF Dotless, RpcCalls
        <5> QED
          BY <3>3, <5>1, OneSegment
      <4>2. d.module \o d.method = c.module \o c.method <=> d.module = c.module /\ x = y
        <5>1. d.module \in Seq(STRING) /\ c.module \in Seq(STRING)
          BY <2>2, <3>1 DEF RpcCalls
        <5>2. d.module \o <<x>> = c.module \o <<y>> => d.module = c.module /\ x = y
          BY <5>1, JoinInjective
        <5> QED
          BY <2>3, <4>1, <5>2
      <4>3. d = c <=> d.vm = c.vm /\ d.module = c.module /\ x = y
        BY <2>2, <2>3, <3>1, <4>1 DEF RpcCalls
      <4>4. d # [c EXCEPT !.method = <<>>]
        BY <2>2, <3>3 DEF RpcCalls
      <4> QED
        BY <3>3, <4>2, <4>3, <4>4 DEF Covers
    <3> QED
      BY <3>2, <3>3
  <2>5. CanCallRpc(verdict[l].claim, c.vm, c.module, c.method)
          <=> \E d \in granted.calls : d = c \/ d = [c EXCEPT !.method = <<>>]
    <3>1. CanCallRpc(CapClaim(granted, exp), c.vm, c.module, c.method) <=>
            \E d \in granted.calls : Covers(d, c.vm, c.module, c.method)
      BY CanCallIs
    <3> QED
      BY <2>1, <2>4, <3>1, Zenon
  <2> QED
    BY <2>5
<1> QED
  BY <1>1, EvalInvariant, PTL

\* Whatever is granted: an access is allowed exactly if this mode was meant for
\* this path of this VM.
THEOREM OnlyGrantedPaths == Spec => []PathsAsGranted
<1>1. EvalInv => PathsAsGranted
  <2> SUFFICES ASSUME EvalInv, NEW l \in Libraries, verdict[l].status = "ok",
                      NEW p \in Paths
               PROVE  CanAccessPath(verdict[l].claim, p.vm, p.path, p.mode)
                        <=> p \in granted.paths
    BY DEF PathsAsGranted
  <2>1. PICK exp \in Days : granted \in Grants /\ verdict[l].claim = CapClaim(granted, exp)
    BY AcceptedIs
  <2>2. /\ \A q \in granted.paths : q \in PathAccesses
        /\ p \in PathAccesses
    BY <2>1, EvaluatorAssumption
  <2> DEFINE caps == {Capability(granted, x.vm) : x \in granted.calls \cup granted.paths}
  <2>3. verdict[l].claim.caps = caps
    BY <2>1 DEF CapClaim
  <2>4. ASSUME NEW v
        PROVE  /\ Capability(granted, v).target_vm = v
               /\ Capability(granted, v).paths =
                     {[path |-> q.path, access |-> Modes(granted, v, q.path)] :
                        q \in {r \in granted.paths : r.vm = v}}
    BY DEF Capability
  <2>5. ASSUME p \in granted.paths
        PROVE  CanAccessPath(verdict[l].claim, p.vm, p.path, p.mode)
    <3>1. Capability(granted, p.vm) \in caps
      BY <2>5
    <3>2. p.mode \in Modes(granted, p.vm, p.path)
      BY <2>5 DEF Modes
    <3> QED
      <4>1. [path |-> p.path, access |-> Modes(granted, p.vm, p.path)]
              \in Capability(granted, p.vm).paths
        BY <2>4, <2>5
      <4>2. \E q \in Capability(granted, p.vm).paths : q.path = p.path /\ p.mode \in q.access
        BY <3>2, <4>1
      <4> HIDE DEF caps
      <4> QED
        BY <2>3, <2>4, <3>1, <4>2 DEF CanAccessPath
  <2>6. ASSUME CanAccessPath(verdict[l].claim, p.vm, p.path, p.mode)
        PROVE  p \in granted.paths
    <3>1. PICK cap \in caps :
             /\ cap.target_vm = p.vm
             /\ \E q \in cap.paths : q.path = p.path /\ p.mode \in q.access
      BY <2>3, <2>6 DEF CanAccessPath
    <3>2. cap = Capability(granted, p.vm)
      BY <2>4, <3>1
    <3>3. p.mode \in Modes(granted, p.vm, p.path)
      BY <2>4, <3>1, <3>2
    <3>4. PICK q \in granted.paths : q.vm = p.vm /\ q.path = p.path /\ q.mode = p.mode
      BY <3>3 DEF Modes
    <3>5. q = p
      BY <2>2, <3>4 DEF PathAccesses
    <3> QED
      BY <3>5
  <2> QED
    BY <2>5, <2>6
<1> QED
  BY <1>1, EvalInvariant, PTL

=============================================================================
