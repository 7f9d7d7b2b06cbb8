---------------------------- MODULE ServerProofs ----------------------------
(***************************************************************************)
(* The types of Server and what its responses carry, proved for any number *)
(* of connections and peers, any configurations, requests and days.        *)
(***************************************************************************)
EXTENDS Server, TLAPS

\* The days a resolved policy gives are a number of days.
LEMMA ValidityDaysNat ==
    ASSUME cfg \in Configs, NEW m, Authorised(m)
    PROVE  ValidityDays(m) \in Nat /\ Policy(m).caps \in SUBSET Caps
BY ServerAssumption DEF Authorised, ValidityDays, Policy, NoOverride, HostConfig

LEMMA DatesAreInts ==
    ASSUME NEW days \in Nat
    PROVE  NewYearsDay(EndYear(days)) \in Int
<1>1. EndYear(days) \in Int
  BY DEF EndYear
<1>2. ASSUME NEW y \in Int PROVE NewYearsDay(y) \in Int
  BY DEF NewYearsDay
<1> QED
  BY <1>1, <1>2

\* The checks passed before a certificate is signed, and those that refuse.
LEMMA ObstacleFacts ==
    ASSUME NEW c \in Conns, conn[c].frame \in Requests \cup {BadFrame}
    PROVE  /\ Obstacle(c) \in Refusals \cup {"none", "panic"}
           /\ Obstacle(c) = "none" =>
                /\ conn[c].frame \in Requests
                /\ Authorised(conn[c].frame)
                /\ CidVerified(conn[c].peer.cid, conn[c].frame)
BY DEF Obstacle, Refusals

\* What ties a connection to the process and the configuration in force.
ConnInv(c) ==
    /\ conn[c].st # "free" => conn[c].peer \in Peers
    /\ conn[c].st \in Live => served # 0
    /\ conn[c].st \in {"handling", "replying"} => PortAccepted(c)
    /\ Issued(c, {"replying"}) =>
          /\ conn[c].frame \in Requests
          /\ Authorised(conn[c].frame)
          /\ CidVerified(conn[c].peer.cid, conn[c].frame)
          /\ \E today \in Days :
                conn[c].resp = OkResponse(conn[c].peer.cid, conn[c].frame, today)

Inv ==
    /\ TypeOK
    /\ \A c \in Conns : ConnInv(c)

LEMMA LeafTyped ==
    ASSUME TypeOK, served # 0, cfg # NoConfig, NEW today \in Days,
           NEW c \in Conns, conn[c].peer \in Peers,
           FrameRead(c), Obstacle(c) = "none"
    PROVE  OkResponse(conn[c].peer.cid, conn[c].frame, today) \in Responses
<1> DEFINE m == conn[c].frame
<1>1. m \in Requests /\ Authorised(m)
  BY ObstacleFacts DEF TypeOK, FrameRead
<1>2. ValidityDays(m) \in Nat /\ Policy(m).caps \in SUBSET Caps
  BY <1>1, ValidityDaysNat DEF TypeOK
<1>3. NewYearsDay(EndYear(ValidityDays(m))) \in Int
  BY <1>2, DatesAreInts
<1>4. served \in 1..MaxKeys
  BY MaxKeysAssumption DEF TypeOK, CaTypeOK
<1>5. today \in Nat /\ today + ValidityDays(m) \in Nat
  BY <1>2, ServerAssumption
<1>6. Leaf(conn[c].peer.cid, m, today) \in Leaves
  BY <1>1, <1>2, <1>3, <1>4, <1>5 DEF Leaf, Leaves
<1> QED
  BY <1>4, <1>6 DEF OkResponse, Responses

LEMMA InvInit == Init => Inv
BY MaxKeysAssumption
   DEF Init, CaInit, Inv, TypeOK, CaTypeOK, ConnInv, FreeConn, NoPeer,
       NoResponse, Responses, Live, Closed, Issued

\* What sign_csr answers depends on nothing but these.
LEMMA SameResponse ==
    ASSUME NEW c \in Conns, NEW today \in Days, cfg' = cfg, served' = served,
           conn'[c].peer = conn[c].peer, conn'[c].frame = conn[c].frame
    PROVE  OkResponse(conn[c].peer.cid, conn[c].frame, today)'
             = OkResponse(conn[c].peer.cid, conn[c].frame, today)
BY DEF OkResponse, Leaf, ValidityDays, Policy

\* A connection that does not change keeps its ties as long as the process
\* and its configuration stay.
LEMMA ConnKept ==
    ASSUME NEW c \in Conns, ConnInv(c), conn'[c] = conn[c],
           cfg' = cfg, served' = served
    PROVE  ConnInv(c)'
<1>1. \A today \in Days : OkResponse(conn[c].peer.cid, conn[c].frame, today)'
                             = OkResponse(conn[c].peer.cid, conn[c].frame, today)
  BY SameResponse
<1> QED
  BY <1>1 DEF ConnInv, PortAccepted, Issued, Authorised, CidVerified

\* A step of one connection leaves the invariant with the others.
LEMMA OneConn ==
    ASSUME Inv, ServerUnchanged, NEW c \in Conns, NEW r,
           conn' = [conn EXCEPT ![c] = r],
           r \in [st : Live \cup Closed \cup {"free"},
                 peer : Peers \cup {NoPeer},
                 frame : Requests \cup {NoFrame, BadFrame},
                 gone : BOOLEAN, resp : Responses],
           ConnInv(c)'
    PROVE  Inv'
<1>1. TypeOK'
  BY DEF Inv, TypeOK, CaTypeOK, ServerUnchanged
<1>2. ASSUME NEW d \in Conns PROVE ConnInv(d)'
  <2>1. CASE d = c
    BY <2>1
  <2>2. CASE d # c
    BY <2>2, ConnKept DEF Inv, TypeOK, ServerUnchanged
  <2> QED
    BY <2>1, <2>2
<1> QED
  BY <1>1, <1>2 DEF Inv, ServerUnchanged

\* The steps of main(): what changes is the process, the connections at most
\* end.
LEMMA MainStep == Inv /\ Main => Inv'
<1> SUFFICES ASSUME Inv, Main PROVE Inv'
  OBVIOUS
<1>0. ASSUME conn' = conn, cfg' = cfg, served' = served
      PROVE  \A c \in Conns : ConnInv(c)'
  BY <1>0, ConnKept DEF Inv
<1>1. CASE EditConfig
  BY <1>0, <1>1 DEF EditConfig, Inv, TypeOK, CaTypeOK
<1>2. CASE LoadConfig
  <2>1. \A c \in Conns : conn[c].st \notin Live
    BY <1>2 DEF LoadConfig, Inv, TypeOK, ConnInv
  <2>2. \A c \in Conns : ConnInv(c)'
    BY <1>2, <2>1 DEF LoadConfig, Inv, ConnInv, Issued, Live
  <2> QED
    BY <1>2, <2>2 DEF LoadConfig, Inv, TypeOK, CaTypeOK
<1>3. CASE CaStep
  <2>1. served' = served /\ conn' = conn /\ cfg' = cfg
    BY <1>3 DEF CaStep, Generate, Wipe, Publish
  <2>2. CaTypeOK'
    BY <1>3, MaxKeysAssumption
       DEF CaStep, Generate, Wipe, Publish, Inv, TypeOK, CaTypeOK
  <2> QED
    BY <1>0, <1>3, <2>1, <2>2 DEF CaStep, Inv, TypeOK
<1>4. CASE BindListener
  <2>1. \A c \in Conns : conn[c].st \notin Live
    BY <1>4 DEF BindListener, Serve, Inv, ConnInv
  <2>2. \A c \in Conns : ConnInv(c)'
    BY <1>4, <2>1 DEF BindListener, Inv, ConnInv, Issued, Live
  <2> QED
    BY <1>4, <2>2 DEF BindListener, Serve, Inv, TypeOK, CaTypeOK
<1>5. CASE Exit
  <2>1. served' = 0 /\ CaTypeOK'
    BY <1>5, MaxKeysAssumption DEF Exit, Stop, caVars, Inv, TypeOK, CaTypeOK
  <2>2. ASSUME NEW c \in Conns
        PROVE  /\ conn'[c] \in [st : Live \cup Closed \cup {"free"},
                                peer : Peers \cup {NoPeer},
                                frame : Requests \cup {NoFrame, BadFrame},
                                gone : BOOLEAN, resp : Responses]
               /\ conn'[c].st \notin Live
               /\ conn'[c].st # "free" => conn'[c].peer \in Peers
    BY <1>5 DEF Exit, Inv, TypeOK, ConnInv, Live, Closed
  <2>3. TypeOK'
    BY <1>5, <2>1, <2>2 DEF Exit, Inv, TypeOK
  <2>4. \A c \in Conns : ConnInv(c)'
    BY <2>2 DEF ConnInv, Issued, Live
  <2> QED
    BY <2>1, <2>3, <2>4 DEF Inv
<1> QED
  BY <1>1, <1>2, <1>3, <1>4, <1>5 DEF Main

\* The steps of clients, of the accept loop and of the handlers.
LEMMA ConnStep ==
    ASSUME Inv, NEW c \in Conns, Client(c) \/ Accept(c) \/ Handler(c)
    PROVE  Inv'
<1> DEFINE Rec == [st : Live \cup Closed \cup {"free"},
                   peer : Peers \cup {NoPeer},
                   frame : Requests \cup {NoFrame, BadFrame},
                   gone : BOOLEAN, resp : Responses]
<1>0. ConnInv(c) /\ conn[c] \in Rec /\ conn \in [Conns -> Rec]
  BY DEF Inv, TypeOK
<1>a. ASSUME ServerUnchanged, NEW r \in Rec,
             conn' = [conn EXCEPT ![c] = r], ConnInv(c)'
      PROVE  Inv'
  BY <1>a, OneConn
<1>1. CASE Dial(c)
  <2> PICK p \in Peers : conn' = [conn EXCEPT ![c].st = "dialed", ![c].peer = p]
    BY <1>1 DEF Dial
  <2> DEFINE r == [conn[c] EXCEPT !.st = "dialed", !.peer = p]
  <2>1. conn' = [conn EXCEPT ![c] = r] /\ r \in Rec /\ conn'[c] = r
    BY <1>0 DEF Live
  <2>2. ConnInv(c)'
    BY <1>0, <1>1, <2>1 DEF Dial, ServerUnchanged, ConnInv, Issued, Live
  <2> QED
    BY <1>1, <1>a, <2>1, <2>2 DEF Dial
<1>2. CASE Send(c)
  <2> PICK m \in Requests \cup {BadFrame} : conn' = [conn EXCEPT ![c].frame = m]
    BY <1>2 DEF Send
  <2> DEFINE r == [conn[c] EXCEPT !.frame = m]
  <2>1. conn' = [conn EXCEPT ![c] = r] /\ r \in Rec /\ conn'[c] = r
    BY <1>0
  <2>2. ConnInv(c)'
    BY <1>0, <1>2, <2>1
       DEF Send, ServerUnchanged, ConnInv, Issued, Live, PortAccepted
  <2> QED
    BY <1>2, <1>a, <2>1, <2>2 DEF Send
<1>3. CASE HangUp(c)
  <2> DEFINE r == [conn[c] EXCEPT !.gone = TRUE,
                     !.frame = IF conn[c].frame = NoFrame THEN BadFrame
                               ELSE conn[c].frame]
  <2>1. conn' = [conn EXCEPT ![c] = r] /\ r \in Rec /\ conn'[c] = r
    BY <1>0, <1>3 DEF HangUp
  <2>2. r.st = conn[c].st /\ r.peer = conn[c].peer /\ r.resp = conn[c].resp
    BY <1>0
  <2>3. Issued(c, {"replying"}) => r.frame = conn[c].frame
    BY <1>0, ServerAssumption DEF ConnInv
  <2>4. ASSUME Issued(c, {"replying"}), NEW today \in Days
        PROVE  OkResponse(conn[c].peer.cid, conn[c].frame, today)'
                 = OkResponse(conn[c].peer.cid, conn[c].frame, today)
    <3>1. cfg' = cfg /\ served' = served
      BY <1>3 DEF HangUp, ServerUnchanged
    <3>2. conn'[c].peer = conn[c].peer /\ conn'[c].frame = conn[c].frame
      BY <2>1, <2>2, <2>3, <2>4
    <3> HIDE DEF r
    <3> QED
      BY <3>1, <3>2, SameResponse
  <2>5. ConnInv(c)'
    BY <1>0, <1>3, <2>1, <2>2, <2>3, <2>4
       DEF HangUp, ServerUnchanged, ConnInv, Issued, Live, PortAccepted,
           Authorised, CidVerified
  <2> QED
    BY <1>3, <1>a, <2>1, <2>5 DEF HangUp
<1>4. CASE Forget(c)
  <2>1. FreeConn \in Rec /\ conn'[c] = FreeConn
    BY <1>0, <1>4 DEF Forget, FreeConn, Responses
  <2>2. ConnInv(c)'
    BY <2>1 DEF ConnInv, Issued, Live, FreeConn
  <2> QED
    BY <1>4, <1>a, <2>1, <2>2 DEF Forget
<1>5. CASE Accept(c)
  <2> DEFINE r == [conn[c] EXCEPT !.st =
                     IF PortAccepted(c) THEN "handling" ELSE "rejected"]
  <2>1. conn' = [conn EXCEPT ![c] = r] /\ r \in Rec /\ conn'[c] = r
    BY <1>0, <1>5 DEF Accept, Live, Closed
  <2>2. ConnInv(c)'
    BY <1>0, <1>5, <2>1
       DEF Accept, ServerUnchanged, ConnInv, Issued, Live, PortAccepted
  <2> QED
    BY <1>5, <1>a, <2>1, <2>2 DEF Accept
<1>6. CASE Refuse(c)
  <2> DEFINE r == [conn[c] EXCEPT !.st = "replying",
                                  !.resp = ErrorResponse(Obstacle(c))]
  <2>1. Obstacle(c) \in Refusals
    BY <1>0, <1>6, ObstacleFacts DEF Refuse, FrameRead
  <2>2. ErrorResponse(Obstacle(c)) \in Responses
    BY <2>1 DEF ErrorResponse, Responses
  <2>3. conn' = [conn EXCEPT ![c] = r] /\ r \in Rec /\ conn'[c] = r
    BY <1>0, <1>6, <2>2 DEF Refuse, Live
  <2>4. conn'[c].resp.status = "error"
    BY <1>0, <2>3 DEF ErrorResponse
  <2>5. ConnInv(c)'
    BY <1>0, <1>6, <2>3, <2>4
       DEF Refuse, FrameRead, ServerUnchanged, ConnInv, Issued, Live, PortAccepted
  <2> QED
    BY <1>6, <1>a, <2>3, <2>5 DEF Refuse
<1>7. CASE Issue(c)
  <2> PICK today \in Days :
        conn' = [conn EXCEPT ![c].st = "replying",
                   ![c].resp = OkResponse(conn[c].peer.cid, conn[c].frame, today)]
    BY <1>7 DEF Issue
  <2> DEFINE ok == OkResponse(conn[c].peer.cid, conn[c].frame, today)
             r == [conn[c] EXCEPT !.st = "replying", !.resp = ok]
  <2>1. served # 0 /\ cfg # NoConfig /\ conn[c].peer \in Peers
    BY <1>0, <1>7 DEF Issue, FrameRead, ConnInv, Inv, TypeOK, Live
  <2>2. ok \in Responses
    BY <1>7, <2>1, LeafTyped DEF Issue, Inv
  <2>3. conn' = [conn EXCEPT ![c] = r] /\ r \in Rec /\ conn'[c] = r
    BY <1>0, <2>2 DEF Live
  <2>4. /\ conn[c].frame \in Requests
        /\ Authorised(conn[c].frame)
        /\ CidVerified(conn[c].peer.cid, conn[c].frame)
    BY <1>0, <1>7, ObstacleFacts DEF Issue, FrameRead
  <2>5. /\ conn'[c].peer = conn[c].peer /\ conn'[c].frame = conn[c].frame
        /\ conn'[c].st = "replying" /\ conn'[c].resp = ok
    BY <1>0, <2>3
  <2>6. conn'[c].resp = OkResponse(conn[c].peer.cid, conn[c].frame, today)'
    BY <1>7, <2>5, SameResponse DEF Issue, ServerUnchanged
  <2>7. ConnInv(c)'
    BY <1>0, <1>7, <2>1, <2>4, <2>5, <2>6
       DEF Issue, FrameRead, ServerUnchanged, ConnInv, PortAccepted, Authorised,
           CidVerified
  <2> QED
    BY <1>7, <1>a, <2>3, <2>7 DEF Issue
<1>8. CASE Panic(c)
  <2> DEFINE r == [conn[c] EXCEPT !.st = "panicked"]
  <2>1. conn' = [conn EXCEPT ![c] = r] /\ r \in Rec /\ conn'[c] = r
    BY <1>0, <1>8 DEF Panic, Closed
  <2>2. ConnInv(c)'
    BY <1>0, <1>8, <2>1 DEF Panic, FrameRead, ConnInv, Issued, Live
  <2> QED
    BY <1>8, <1>a, <2>1, <2>2 DEF Panic
<1>9. CASE Reply(c)
  <2> DEFINE r == [conn[c] EXCEPT !.st = IF conn[c].gone THEN "lost" ELSE "answered"]
  <2>1. conn' = [conn EXCEPT ![c] = r] /\ r \in Rec /\ conn'[c] = r
    BY <1>0, <1>9 DEF Reply, Closed
  <2>2. ConnInv(c)'
    BY <1>0, <1>9, <2>1 DEF Reply, ConnInv, Issued, Live
  <2> QED
    BY <1>9, <1>a, <2>1, <2>2 DEF Reply
<1>10. CASE ReadReply(c)
  <2> DEFINE r == [conn[c] EXCEPT !.st = "answered"]
  <2>1. conn' = [conn EXCEPT ![c] = r] /\ r \in Rec /\ conn'[c] = r
    BY <1>0, <1>10 DEF ReadReply, Closed
  <2>2. ConnInv(c)'
    BY <1>0, <1>10, <2>1 DEF ReadReply, ConnInv, Issued, Live
  <2> QED
    BY <1>10, <1>a, <2>1, <2>2 DEF ReadReply
<1> QED
  BY <1>1, <1>2, <1>3, <1>4, <1>5, <1>6, <1>7, <1>8, <1>9, <1>10
     DEF Client, Handler

LEMMA InvStep == Inv /\ [Next]_vars => Inv'
<1>1. Inv /\ UNCHANGED vars => Inv'
  BY ConnKept DEF vars, Inv, TypeOK, CaTypeOK
<1> QED
  BY <1>1, MainStep, ConnStep DEF Next

LEMMA Invariant == Spec => []Inv
BY InvInit, InvStep, PTL DEF Spec

\* Configurations, connections and responses are of their types: the handler
\* answers with nothing but the refusals and certificates of handler.rs.
THEOREM TypeCorrect == Spec => []TypeOK
<1>1. Inv => TypeOK
  BY DEF Inv
<1> QED
  BY Invariant, <1>1, PTL

\* The claim of a response is the one sign_csr built for its request.
LEMMA ClaimOf ==
    ASSUME Inv, NEW c \in Conns, Issued(c, {"replying"})
    PROVE  LET m == conn[c].frame
               r == conn[c].resp
           IN  /\ r.ca_cert = served /\ r.cert.issuer = served
               /\ r.cert.claim.sub = m.entity
               /\ r.cert.claim.vm = m.vm_name
               /\ r.cert.claim.cid = conn[c].peer.cid
               /\ r.cert.claim.caps = Policy(m).caps
               /\ r.cert.claim.iat \in Nat
               /\ r.cert.claim.exp = r.cert.claim.iat + ValidityDays(m)
<1> PICK today \in Days :
      conn[c].resp = OkResponse(conn[c].peer.cid, conn[c].frame, today)
  BY DEF Inv, ConnInv
<1> QED
  BY ServerAssumption DEF OkResponse, Leaf

\* No certificate is on its way to a guest other than its owner, for any
\* number of clients, restarts and edits of host.json.
THEOREM OwnersOnly == Spec => []IssuedToOwner
<1>1. Inv => IssuedToOwner
  <2> SUFFICES ASSUME Inv, NEW c \in Conns, Issued(c, {"replying"})
               PROVE  LET claim == conn[c].resp.cert.claim IN
                      /\ cfg # NoConfig
                      /\ conn[c].peer.port = cfg.peer_port
                      /\ claim.vm \in DOMAIN cfg.vms
                      /\ cfg.vms[claim.vm].vm_cid = conn[c].peer.cid
                      /\ claim.cid = conn[c].peer.cid
    BY DEF IssuedToOwner
  <2>1. cfg # NoConfig /\ conn[c].peer.port = cfg.peer_port
    BY DEF Inv, TypeOK, ConnInv, Issued, Live, PortAccepted
  <2>2. Authorised(conn[c].frame) /\ CidVerified(conn[c].peer.cid, conn[c].frame)
    BY DEF Inv, ConnInv
  <2> QED
    BY <2>1, <2>2, ClaimOf DEF Authorised, CidVerified
<1> QED
  BY Invariant, <1>1, PTL

\* What such a certificate grants is what the configuration in force grants.
THEOREM PolicyGranted == Spec => []ClaimIsPolicy
<1>1. Inv => ClaimIsPolicy
  <2> SUFFICES ASSUME Inv, NEW c \in Conns, Issued(c, {"replying"})
               PROVE  LET claim == conn[c].resp.cert.claim
                          grants == cfg.vms[claim.vm].entities
                      IN  /\ claim.sub = conn[c].frame.entity
                          /\ claim.sub \in DOMAIN grants
                          /\ claim.caps = grants[claim.sub].caps
                          /\ claim.exp - claim.iat =
                                (IF grants[claim.sub].validity_days = NoOverride
                                 THEN cfg.cert_validity_days
                                 ELSE grants[claim.sub].validity_days)
    BY DEF ClaimIsPolicy
  <2> DEFINE m == conn[c].frame
  <2>1. Authorised(m) /\ cfg \in Configs
    BY DEF Inv, TypeOK, ConnInv, Issued, Live
  <2>2. ValidityDays(m) \in Nat
    BY <2>1, ValidityDaysNat
  <2> DEFINE claim == conn[c].resp.cert.claim
  <2>3. /\ claim.sub = m.entity /\ claim.vm = m.vm_name
        /\ claim.caps = Policy(m).caps
        /\ claim.iat \in Nat /\ claim.exp = claim.iat + ValidityDays(m)
    BY ClaimOf
  <2>4. claim.exp - claim.iat = ValidityDays(m)
    BY <2>2, <2>3
  <2> QED
    BY <2>1, <2>3, <2>4 DEF Authorised, Policy, ValidityDays
<1> QED
  BY Invariant, <1>1, PTL

-----------------------------------------------------------------------------
(* The end of a certificate *)

\* From 2024 on, at most every fourth year has a day more.
LEMMA LeapDays ==
    ASSUME NEW years \in Nat \ {0}
    PROVE  NewYearsDay(2024 + years) <= 365 * years + ((years + 3) \div 4)
<1> DEFINE past == 2023 + years
<1>1. NewYearsDay(2024 + years) =
        365 * years + ((past \div 4) - 505) - ((past \div 100) - 20) + ((past \div 400) - 5)
  BY DEF NewYearsDay
<1>2. past \div 4 = 505 + ((years + 3) \div 4)
  OBVIOUS
<1>3. past \div 400 - 5 <= past \div 100 - 20
  OBVIOUS
<1> QED
  BY <1>1, <1>2, <1>3

\* A certificate for a year or more that is signed more days after 2024-01-01
\* than there are leap days up to its end, ends before its claim does.
EndsEarly(leaf) ==
    LET days == leaf.claim.exp - leaf.claim.iat
    IN  days >= 365 /\ leaf.claim.iat > ((days \div 365) + 3) \div 4
            => leaf.not_after < leaf.claim.exp

\* Whatever the configuration, ValidForConfiguredDays has no chance: with the
\* default of 365 days a certificate signed after 2024-01-02 ends early, with
\* n years one signed more than (n + 3) / 4 days after 2024-01-01.
THEOREM CertificatesEndEarly ==
    Spec => [](\A c \in Conns : Issued(c, {"replying"}) => EndsEarly(conn[c].resp.cert))
<1>1. ASSUME Inv, NEW c \in Conns, Issued(c, {"replying"})
      PROVE  EndsEarly(conn[c].resp.cert)
  <2>1. PICK today \in Days :
           conn[c].resp = OkResponse(conn[c].peer.cid, conn[c].frame, today)
    BY <1>1 DEF Inv, ConnInv
  <2> DEFINE d == ValidityDays(conn[c].frame)
             leaf == conn[c].resp.cert
  <2>2. d \in Nat /\ today \in Nat
    BY <1>1, ValidityDaysNat, ServerAssumption DEF Inv, ConnInv, TypeOK, Issued, Live
  <2>3. /\ leaf.claim.iat = today /\ leaf.claim.exp = today + d
        /\ leaf.not_after = NewYearsDay(EndYear(d))
    BY <2>1 DEF OkResponse, Leaf
  <2> HIDE DEF d, leaf
  <2>4. ASSUME d >= 365, today > ((d \div 365) + 3) \div 4
        PROVE  NewYearsDay(EndYear(d)) < today + d
    <3> DEFINE years == d \div 365
    <3>1. years \in Nat \ {0} /\ 365 * years <= d
      BY <2>2, <2>4
    <3>2. EndYear(d) = 2024 + years
      BY <3>1 DEF EndYear
    <3> HIDE DEF years
    <3>3. NewYearsDay(2024 + years) <= 365 * years + ((years + 3) \div 4)
      BY <3>1, LeapDays
    <3>4. NewYearsDay(2024 + years) \in Int
      BY <3>1 DEF NewYearsDay
    <3>5. today > ((years + 3) \div 4)
      BY <2>4 DEF years
    <3> QED
      BY <2>2, <3>1, <3>2, <3>3, <3>4, <3>5
  <2>5. leaf.claim.exp - leaf.claim.iat = d
    BY <2>2, <2>3
  <2> QED
    BY <2>3, <2>4, <2>5 DEF EndsEarly, leaf
<1>2. Inv => \A c \in Conns : Issued(c, {"replying"}) => EndsEarly(conn[c].resp.cert)
  BY <1>1
<1> QED
  BY <1>2, Invariant, PTL

=============================================================================
