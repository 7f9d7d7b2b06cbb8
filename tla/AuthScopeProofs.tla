-------------------------- MODULE AuthScopeProofs --------------------------
(***************************************************************************)
(* What is accepted in the composition was granted, and its agents         *)
(* implement CredentialFiles: for any number of guests and strangers,      *)
(* configurations, agents' configurations and faults.  What ServerProofs   *)
(* knows is used here because every step of an agent is one of a client.   *)
(***************************************************************************)
EXTENDS AuthScope, ServerProofs

LEMMA DisconnectIsServerStep ==
    ASSUME NEW g \in Conns, Disconnect(g)
    PROVE  [Next]_vars
BY DEF Disconnect, Next, Client

\* Every step of an agent is a step of a client or leaves the server alone.
LEMMA AgentIsClient ==
    ASSUME NEW g \in Guests, AgentStep(g) \/ AgentFault(g) \/ Clear(g)
    PROVE  [Next]_vars
<1> g \in Conns
  BY AuthScopeAssumption
<1>1. CASE AgentFault(g)
  BY <1>1, DisconnectIsServerStep DEF AgentFault
<1>2. CASE Clear(g)
  BY <1>2 DEF Clear, Next, Client
<1>3. CASE AgentStart(g) \/ AgentDialFails(g) \/ AgentReceive(g)
           \/ AgentOpen(g) \/ AgentStoreCert(g)
  BY <1>3 DEF AgentStart, AgentDialFails, AgentReceive, AgentOpen, AgentStoreCert
<1>4. CASE AgentDial(g)
  BY <1>4 DEF AgentDial, Next, Client
<1>5. CASE AgentSend(g)
  BY <1>5 DEF AgentSend, Next, Client
<1>6. CASE AgentReads(g) \/ AgentGivesUp(g) \/ AgentStoreCa(g)
  BY <1>6 DEF AgentReads, AgentGivesUp, AgentStoreCa, Next, Client
<1> QED
  BY <1>1, <1>2, <1>3, <1>4, <1>5, <1>6 DEF AgentStep

LEMMA AuthStepIsServerStep == [AuthNext]_allVars => [Next]_vars
<1> SUFFICES ASSUME [AuthNext]_allVars PROVE [Next]_vars
  OBVIOUS
<1>1. CASE UNCHANGED allVars
  BY <1>1 DEF allVars
<1>2. CASE Daemon
  BY <1>2 DEF Daemon, Next, Main
<1>3. CASE Bind
  BY <1>3 DEF Bind, Next, Main
<1>4. CASE \E c \in Conns : Accepting(c) \/ Handling(c)
  BY <1>4 DEF Accepting, Handling, Next
<1>5. CASE \E c \in Conns \ Guests : Stranger(c)
  BY <1>5 DEF Stranger, Next
<1>6. CASE \E g \in Guests : AgentStep(g) \/ AgentFault(g) \/ Clear(g)
  BY <1>6, AgentIsClient
<1> QED
  BY <1>1, <1>2, <1>3, <1>4, <1>5, <1>6 DEF AuthNext

-----------------------------------------------------------------------------

\* The configuration in force is on record under the CA that is served.
Recorded ==
    /\ inForce \in [1..MaxKeys -> SUBSET Configs]
    /\ served # 0 => cfg \in inForce[served]

\* A guest's connection is its own.
OwnConn(g) == conn[g].st # "free" => conn[g].peer.cid = Cid[g]

\* What a guest has received, and what it has stored, was granted.
AnswerGranted(g) ==
    Issued(g, {"answered"}) =>
        GrantedUnder(conn[g].resp.cert.issuer, g, conn[g].resp.cert.claim)

StoreGranted(g) ==
    store[g].cert # NoPem => GrantedUnder(store[g].cert.issuer, g, store[g].cert.claim)

\* A client that has hung up is not answered.
Present(g) == conn[g].st = "answered" => ~conn[g].gone

\* An agent that stores has its answer.
HasAnswer(g) == agent[g].pc \in Storing => Issued(g, {"answered"})

\* An answer holds the CA that issued its certificate.
AnswerChained(g) ==
    Issued(g, {"answered"}) => conn[g].resp.cert.issuer = conn[g].resp.ca_cert

AgentTypes ==
    /\ agent \in [Guests -> [pc : AgentPCs, config : AgentConfigs \cup {NoConfig}]]
    /\ store \in [Guests -> [cert : Leaves \cup {NoPem}, ca : 0..MaxKeys]]
    /\ faults \in 0..MaxFaults

AuthInv ==
    /\ Inv
    /\ AgentTypes
    /\ Recorded
    /\ \A g \in Guests :
          /\ OwnConn(g) /\ AnswerGranted(g) /\ AnswerChained(g) /\ StoreGranted(g)
          /\ Present(g) /\ HasAnswer(g)

\* A certificate on its way to a guest is one that the configuration in force
\* grants it, by what ServerProofs knows of the response.
LEMMA ReplyGranted ==
    Inv /\ Recorded =>
        \A g \in Guests : OwnConn(g) /\ Issued(g, {"replying"}) =>
            GrantedUnder(conn[g].resp.cert.issuer, g, conn[g].resp.cert.claim)
<1> SUFFICES ASSUME Inv, Recorded, NEW g \in Guests, OwnConn(g), Issued(g, {"replying"})
             PROVE  GrantedUnder(conn[g].resp.cert.issuer, g, conn[g].resp.cert.claim)
  OBVIOUS
<1> DEFINE m == conn[g].frame
<1>1. g \in Conns /\ ConnInv(g)
  BY AuthScopeAssumption DEF Inv
<1>2. /\ Authorised(m) /\ CidVerified(conn[g].peer.cid, m) /\ served # 0
      /\ conn[g].peer.cid = Cid[g]
  BY <1>1 DEF ConnInv, OwnConn, Issued, Live
<1>3. PICK today \in Days : conn[g].resp = OkResponse(conn[g].peer.cid, m, today)
  BY <1>1 DEF ConnInv
<1>4. conn[g].resp.cert.issuer = served
  BY <1>3 DEF OkResponse, Leaf
<1>5. /\ conn[g].resp.cert.claim.cid = Cid[g]
      /\ conn[g].resp.cert.claim.vm = m.vm_name
      /\ conn[g].resp.cert.claim.sub = m.entity
      /\ conn[g].resp.cert.claim.caps = Policy(m).caps
  BY <1>2, <1>3 DEF OkResponse, Leaf
<1>6. cfg \in inForce[served]
  BY <1>2 DEF Recorded
<1> HIDE DEF m
<1> QED
  BY <1>2, <1>4, <1>5, <1>6 DEF GrantedUnder, Authorised, CidVerified, Policy

\* Where an answer comes from: the response it was before it was sent.
LEMMA AnswerOrigin ==
    ASSUME TypeOK, [Next]_vars, NEW g \in Conns, Issued(g, {"answered"})'
    PROVE  Issued(g, {"replying", "answered"}) /\ conn'[g].resp = conn[g].resp
<1>1. CASE conn' = conn
  BY <1>1 DEF Issued
<1>2. CASE Exit
  BY <1>2 DEF Exit, TypeOK, Issued
<1>3. ASSUME NEW c \in Conns, Client(c) \/ Accept(c) \/ Handler(c)
      PROVE  Issued(g, {"replying", "answered"}) /\ conn'[g].resp = conn[g].resp
  <2>1. CASE c # g
    BY <1>3, <2>1
       DEF Client, Handler, Dial, Send, HangUp, ReadReply, Forget, Accept, Refuse,
           Issue, Panic, Reply, TypeOK, Issued
  <2>2. CASE c = g
    <3>1. CASE Client(g)
      BY <3>1
         DEF Client, Dial, Send, HangUp, ReadReply, Forget, FreeConn, TypeOK, Issued,
             Closed, Live
    <3>2. CASE Accept(g) \/ Refuse(g) \/ Issue(g) \/ Panic(g)
      BY <3>2 DEF Accept, Refuse, Issue, Panic, TypeOK, Issued
    <3>3. CASE Reply(g)
      BY <3>3 DEF Reply, TypeOK, Issued
    <3> QED
      BY <1>3, <2>2, <3>1, <3>2, <3>3 DEF Handler
  <2> QED
    BY <2>1, <2>2
<1> QED
  BY <1>1, <1>2, <1>3 DEF Next, Main, vars, EditConfig, LoadConfig, CaStep, BindListener

\* The kernel's address of a guest's connection is set when its agent dials.
LEMMA PeerKept ==
    ASSUME TypeOK, [AuthNext]_allVars, NEW g \in Guests, conn'[g].st # "free", ~AgentDial(g)
    PROVE  conn[g].st # "free" /\ conn'[g].peer = conn[g].peer
<1> DEFINE Kept == conn[g].st # "free" /\ conn'[g].peer = conn[g].peer
<1> g \in Conns
  BY AuthScopeAssumption
<1>1. CASE conn' = conn
  BY <1>1
<1>2. CASE Exit
  BY <1>2 DEF Exit, TypeOK, Live
<1>3. ASSUME NEW c \in Conns, Client(c) \/ Accept(c) \/ Handler(c), c # g
      PROVE  Kept
  BY <1>3
     DEF Client, Handler, Dial, Send, HangUp, ReadReply, Forget, Accept, Refuse, Issue,
         Panic, Reply, TypeOK
<1>4. CASE Accept(g) \/ Handler(g) \/ Send(g) \/ HangUp(g) \/ ReadReply(g) \/ Forget(g)
  BY <1>4
     DEF Handler, Send, HangUp, ReadReply, Forget, Accept, Refuse, Issue, Panic, Reply,
         FrameRead, TypeOK, FreeConn, Live
<1>5. CASE Daemon \/ Bind
  BY <1>1, <1>2, <1>5 DEF Daemon, Bind, EditConfig, LoadConfig, CaStep, BindListener
<1>6. CASE \E c \in Conns : Accepting(c) \/ Handling(c)
  BY <1>3, <1>4, <1>6 DEF Accepting, Handling
<1>7. CASE \E c \in Conns \ Guests : Stranger(c)
  BY <1>3, <1>7 DEF Stranger
<1>8. ASSUME NEW h \in Guests, AgentStep(h) \/ AgentFault(h) \/ Clear(h)
      PROVE  Kept
  <2> h \in Conns
    BY AuthScopeAssumption
  <2>1. CASE h = g
    BY <1>1, <1>4, <1>8, <2>1
       DEF AgentStep, AgentStart, AgentDialFails, AgentSend, AgentReads, AgentGivesUp,
           AgentReceive, AgentOpen, AgentStoreCert, AgentStoreCa, AgentFault,
           Disconnect, Clear, vars
  <2>2. CASE h # g
    BY <1>1, <1>3, <1>8, <2>2
       DEF AgentStep, AgentStart, AgentDial, AgentDialFails, AgentSend, AgentReads,
           AgentGivesUp, AgentReceive, AgentOpen, AgentStoreCert, AgentStoreCa,
           AgentFault, Disconnect, Clear, vars, Client
  <2> QED
    BY <2>1, <2>2
<1>9. CASE UNCHANGED allVars
  BY <1>1, <1>9 DEF allVars, vars
<1> QED
  BY <1>5, <1>6, <1>7, <1>8, <1>9 DEF AuthNext

\* Configurations are added to the record, never taken from it.
LEMMA RecordGrows ==
    ASSUME Inv, Recorded, [AuthNext]_allVars
    PROVE  Recorded' /\ \A k \in 1..MaxKeys : inForce[k] \subseteq inForce'[k]
<1>1. CASE Bind
  <2>1. disk \in 1..MaxKeys /\ cfg \in Configs
    BY <1>1, MaxKeysAssumption
       DEF Bind, BindListener, Serve, Inv, TypeOK, CaTypeOK
  <2>2. served' = disk /\ cfg' = cfg
    BY <1>1 DEF Bind, BindListener, Serve
  <2> QED
    BY <1>1, <2>1, <2>2 DEF Bind, Recorded
<1>2. ASSUME inForce' = inForce, served' = 0 \/ (served' = served /\ cfg' = cfg)
      PROVE  Recorded' /\ \A k \in 1..MaxKeys : inForce[k] \subseteq inForce'[k]
  BY <1>2 DEF Recorded
<1>3. CASE Daemon
  BY <1>2, <1>3
     DEF Daemon, EditConfig, LoadConfig, CaStep, Generate, Wipe, Publish, Exit, Stop,
         caVars, Inv, TypeOK
<1>4. CASE \E c \in Conns : Accepting(c) \/ Handling(c)
  BY <1>2, <1>4
     DEF Accepting, Handling, Accept, Handler, Refuse, Issue, Panic, Reply,
         ServerUnchanged
<1>5. CASE \E c \in Conns \ Guests : Stranger(c)
  BY <1>2, <1>5
     DEF Stranger, Client, Dial, Send, HangUp, ReadReply, Forget, ServerUnchanged
<1>6. CASE \E g \in Guests : AgentStep(g) \/ AgentFault(g) \/ Clear(g)
  BY <1>2, <1>6
     DEF AgentStep, AgentStart, AgentDial, AgentDialFails, AgentSend, AgentReads,
         AgentGivesUp, AgentReceive, AgentOpen, AgentStoreCert, AgentStoreCa,
         AgentFault, Disconnect, Clear, vars, Dial, Send, HangUp, ReadReply, Forget,
         ServerUnchanged
<1>7. CASE UNCHANGED allVars
  BY <1>2, <1>7 DEF allVars, vars
<1> QED
  BY <1>1, <1>3, <1>4, <1>5, <1>6, <1>7 DEF AuthNext

\* What was granted under a CA stays so.
LEMMA GrantKept ==
    ASSUME NEW k \in 1..MaxKeys, inForce[k] \subseteq inForce'[k], NEW g \in Guests,
           NEW claim, GrantedUnder(k, g, claim)
    PROVE  GrantedUnder(k, g, claim)'
BY DEF GrantedUnder

LEMMA AnswerTyped ==
    ASSUME TypeOK, NEW g \in Conns, conn[g].resp.status = "ok"
    PROVE  /\ conn[g].resp.cert \in Leaves /\ conn[g].resp.ca_cert \in 1..MaxKeys
           /\ conn[g].resp.cert.issuer \in 1..MaxKeys
<1>1. conn[g].resp \in [status : {"ok"}, cert : Leaves, ca_cert : 1..MaxKeys]
  BY DEF TypeOK, Responses, NoResponse
<1> QED
  BY <1>1 DEF Leaves

LEMMA PresentKept ==
    ASSUME TypeOK, [Next]_vars, NEW g \in Conns, Present(g)
    PROVE  Present(g)'
<1>1. CASE conn' = conn
  BY <1>1 DEF Present
<1>2. CASE Exit
  BY <1>2 DEF Exit, TypeOK, Present
<1>3. ASSUME NEW c \in Conns, Client(c) \/ Accept(c) \/ Handler(c)
      PROVE  Present(g)'
  <2>1. CASE c # g
    BY <1>3, <2>1
       DEF Client, Handler, Dial, Send, HangUp, ReadReply, Forget, Accept, Refuse,
           Issue, Panic, Reply, TypeOK, Present
  <2>2. CASE c = g
    BY <1>3, <2>2
       DEF Client, Handler, Dial, Send, HangUp, ReadReply, Forget, Accept, Refuse,
           Issue, Panic, Reply, TypeOK, FreeConn, Live, Present
  <2> QED
    BY <2>1, <2>2
<1> QED
  BY <1>1, <1>2, <1>3 DEF Next, Main, vars, EditConfig, LoadConfig, CaStep, BindListener

-----------------------------------------------------------------------------

LEMMA AuthInvInit == AuthInit => AuthInv
<1> SUFFICES ASSUME AuthInit PROVE AuthInv
  OBVIOUS
<1>1. Inv
  BY InvInit DEF AuthInit
<1>2. AgentTypes
  BY AuthScopeAssumption, MaxKeysAssumption DEF AuthInit, AgentTypes, AgentPCs
<1>3. Recorded
  BY DEF AuthInit, Init, CaInit, Recorded
<1>4. ASSUME NEW g \in Guests
      PROVE  /\ OwnConn(g) /\ AnswerGranted(g) /\ AnswerChained(g) /\ StoreGranted(g)
             /\ Present(g) /\ HasAnswer(g)
  <2>1. conn[g] = FreeConn /\ store[g].cert = NoPem /\ agent[g].pc = "down"
    BY AuthScopeAssumption DEF AuthInit, Init
  <2> QED
    BY <2>1
       DEF Storing, OwnConn, AnswerGranted, AnswerChained, StoreGranted, Present,
           HasAnswer, Issued, FreeConn
<1> QED
  BY <1>1, <1>2, <1>3, <1>4 DEF AuthInv

\* What the agents keep: their places, and certificates of the right type.
LEMMA AgentTypesStep ==
    ASSUME AuthInv, [AuthNext]_allVars
    PROVE  AgentTypes'
<1> USE DEF AgentTypes, AgentPCs
<1>0. AgentTypes
  BY DEF AuthInv
<1>1. CASE UNCHANGED guestVars
  BY <1>0, <1>1 DEF guestVars
<1>2. ASSUME NEW g \in Guests, AgentStep(g)
      PROVE  AgentTypes'
  <2>1. CASE AgentStart(g) \/ AgentDial(g) \/ AgentDialFails(g) \/ AgentSend(g)
             \/ AgentGivesUp(g) \/ AgentReceive(g)
    <3>1. UNCHANGED <<store, faults>>
      BY <2>1
         DEF AgentStart, AgentDial, AgentDialFails, AgentSend, AgentReads, AgentGivesUp,
             AgentReceive
    <3>2. \/ \E l \in {"send", "await"} \cup Storing : agent' = [agent EXCEPT ![g].pc = l]
          \/ \E l \in {"dial", "asleep"}, k \in AgentConfigs \cup {NoConfig} :
                agent' = [agent EXCEPT ![g] = [pc |-> l, config |-> k]]
      BY <2>1
         DEF AgentStart, AgentDial, AgentDialFails, AgentSend, AgentReads, AgentGivesUp,
             AgentReceive, Goto, Rest, Storing
    <3> QED
      BY <1>0, <3>1, <3>2
  <2>2. CASE AgentOpen(g)
    <3>1. \/ store' = [store EXCEPT ![g].cert = NoPem]
          \/ store' = [store EXCEPT ![g].ca = 0]
      BY <2>2 DEF AgentOpen
    <3>2. store' \in [Guests -> [cert : Leaves \cup {NoPem}, ca : 0..MaxKeys]]
      BY <1>0, <3>1, MaxKeysAssumption
    <3>3. \E l \in Storing : agent' = [agent EXCEPT ![g].pc = l]
      BY <2>2 DEF AgentOpen, Goto, Storing
    <3> QED
      BY <1>0, <2>2, <3>2, <3>3 DEF AgentOpen
  <2>3. CASE AgentStoreCert(g) \/ AgentStoreCa(g)
    <3>1. g \in Conns /\ Issued(g, {"answered"})
      BY <2>3, AuthScopeAssumption
         DEF AuthInv, HasAnswer, AgentStoreCert, AgentStoreCa, Storing
    <3>2. conn[g].resp.cert \in Leaves /\ conn[g].resp.ca_cert \in 0..MaxKeys
      BY <3>1, AnswerTyped DEF AuthInv, Inv, Issued
    <3>3. CASE AgentStoreCert(g)
      BY <1>0, <3>2, <3>3 DEF AgentStoreCert, Goto, Storing
    <3>4. CASE AgentStoreCa(g)
      BY <1>0, <3>2, <3>4 DEF AgentStoreCa, Rest
    <3> QED
      BY <2>3, <3>3, <3>4
  <2> QED
    BY <1>1, <1>2, <2>1, <2>2, <2>3 DEF AgentStep, AgentReads
<1>3. ASSUME NEW g \in Guests, AgentFault(g)
      PROVE  AgentTypes'
  <2>1. faults' \in 0..MaxFaults
    BY <1>3, AuthScopeAssumption DEF AuthInv, AgentFault
  <2>2. agent' = [agent EXCEPT ![g] = [pc |-> "down", config |-> NoConfig]]
        \/ agent' = [agent EXCEPT ![g] = [pc |-> "asleep", config |-> NoConfig]]
    BY <1>3 DEF AgentFault, Rest
  <2> QED
    BY <1>0, <1>3, <2>1, <2>2 DEF AgentFault
<1> QED
  BY <1>1, <1>2, <1>3
     DEF AuthNext, Daemon, Bind, Accepting, Handling, Stranger, Clear, allVars

\* What a guest has stored was received: by its agent, and in one piece.
LEMMA StoreOrigin ==
    ASSUME AuthInv, [AuthNext]_allVars, NEW g \in Guests, store'[g].cert # NoPem
    PROVE  \/ store'[g].cert = store[g].cert
           \/ Issued(g, {"answered"}) /\ store'[g].cert = conn[g].resp.cert
<1>1. CASE UNCHANGED store
  BY <1>1
<1>2. ASSUME NEW h \in Guests, AgentStoreCert(h)
      PROVE  \/ store'[g].cert = store[g].cert
             \/ Issued(g, {"answered"}) /\ store'[g].cert = conn[g].resp.cert
  BY <1>2 DEF AgentStoreCert, AuthInv, AgentTypes, HasAnswer, Storing
<1>3. ASSUME NEW h \in Guests, AgentStoreCa(h)
      PROVE  store'[g].cert = store[g].cert
  BY <1>3 DEF AgentStoreCa, AuthInv, AgentTypes
<1>4. ASSUME NEW h \in Guests, AgentOpen(h)
      PROVE  store'[g].cert = store[g].cert
  BY <1>4 DEF AgentOpen, AuthInv, AgentTypes
<1> QED
  BY <1>1, <1>2, <1>3, <1>4
     DEF AuthNext, Daemon, Bind, Accepting, Handling, Stranger, Clear, guestVars, allVars,
         AgentStep, AgentStart, AgentDial, AgentDialFails, AgentSend, AgentReads, AgentGivesUp,
         AgentReceive, AgentFault

\* While an agent stores what it received, nobody else touches its connection.
LEMMA HasAnswerStep ==
    ASSUME AuthInv, [AuthNext]_allVars, NEW g \in Guests
    PROVE  HasAnswer(g)'
<1> SUFFICES ASSUME agent'[g].pc \in Storing PROVE Issued(g, {"answered"})'
  BY DEF HasAnswer
<1> /\ g \in Conns /\ TypeOK
    /\ agent \in [Guests -> [pc : AgentPCs, config : AgentConfigs \cup {NoConfig}]]
  BY AuthScopeAssumption DEF AuthInv, Inv, AgentTypes
<1>1. ASSUME agent' = agent, conn'[g] = conn[g]
      PROVE  Issued(g, {"answered"})'
  BY <1>1 DEF AuthInv, HasAnswer, Issued
<1>2. ASSUME NEW c \in Conns, Client(c) \/ Accept(c) \/ Handler(c), c # g
      PROVE  conn'[g] = conn[g]
  BY <1>2
     DEF Client, Handler, Dial, Send, HangUp, ReadReply, Forget, Accept, Refuse, Issue,
         Panic, Reply, TypeOK
<1>3. CASE Daemon \/ Bind
  BY <1>1, <1>3
     DEF Daemon, Bind, EditConfig, LoadConfig, CaStep, BindListener, Exit, Live,
         guestVars, AuthInv, HasAnswer, Issued
<1>4. CASE \E c \in Conns : Accepting(c) \/ Handling(c)
  <2>1. PICK c \in Conns : Accepting(c) \/ Handling(c)
    BY <1>4
  <2>2. CASE c = g
    BY <2>1, <2>2
       DEF Accepting, Handling, Accept, Handler, Refuse, Issue, Panic, Reply, FrameRead,
           guestVars, AuthInv, HasAnswer, Issued
  <2>3. CASE c # g
    BY <1>1, <1>2, <2>1, <2>3 DEF Accepting, Handling, guestVars
  <2> QED
    BY <2>2, <2>3
<1>5. CASE \E c \in Conns \ Guests : Stranger(c)
  BY <1>1, <1>2, <1>5 DEF Stranger, guestVars
<1>6. ASSUME NEW h \in Guests, AgentStep(h) \/ AgentFault(h) \/ Clear(h), h # g
      PROVE  Issued(g, {"answered"})'
  <2> h \in Conns
    BY AuthScopeAssumption
  <2>1. conn'[g] = conn[g]
    BY <1>2, <1>6
       DEF AgentStep, AgentStart, AgentDial, AgentDialFails, AgentSend, AgentReads,
           AgentGivesUp, AgentReceive, AgentOpen, AgentStoreCert, AgentStoreCa,
           AgentFault, Disconnect, Clear, vars, Client
  <2>2. agent'[g] = agent[g]
    BY <1>6
       DEF AgentStep, AgentStart, AgentDial, AgentDialFails, AgentSend, AgentReads,
           AgentGivesUp, AgentReceive, AgentOpen, AgentStoreCert, AgentStoreCa,
           AgentFault, Clear, guestVars, Goto, Rest
  <2> QED
    BY <2>1, <2>2 DEF AuthInv, HasAnswer, Issued
<1>7. CASE AgentStep(g)
  BY <1>7
     DEF AgentStep, AgentStart, AgentDial, AgentDialFails, AgentSend, AgentReads,
         AgentGivesUp, AgentReceive, AgentOpen, AgentStoreCert, AgentStoreCa, Goto,
         Rest, vars, guestVars, AuthInv, HasAnswer, Issued, Storing
<1>8. CASE AgentFault(g)
  BY <1>8 DEF AgentFault, Rest, Storing
<1>9. CASE Clear(g)
  BY <1>9 DEF Clear, guestVars, AuthInv, HasAnswer, Present, Issued
<1>10. CASE UNCHANGED allVars
  BY <1>1, <1>10 DEF allVars, guestVars, vars
<1> QED
  BY <1>3, <1>4, <1>5, <1>6, <1>7, <1>8, <1>9, <1>10 DEF AuthNext

LEMMA AnswerChainedStep ==
    ASSUME AuthInv, [AuthNext]_allVars, NEW g \in Guests
    PROVE  AnswerChained(g)'
<1> SUFFICES ASSUME Issued(g, {"answered"})'
             PROVE  conn'[g].resp.cert.issuer = conn'[g].resp.ca_cert
  BY DEF AnswerChained
<1> g \in Conns
  BY AuthScopeAssumption
<1>1. Issued(g, {"replying", "answered"}) /\ conn'[g].resp = conn[g].resp
  BY AuthStepIsServerStep, AnswerOrigin DEF AuthInv, Inv
<1>2. CASE Issued(g, {"answered"})
  BY <1>1, <1>2 DEF AuthInv, AnswerChained
<1>3. CASE Issued(g, {"replying"})
  <2>1. PICK today \in Days :
           conn[g].resp = OkResponse(conn[g].peer.cid, conn[g].frame, today)
    BY <1>3 DEF AuthInv, Inv, ConnInv
  <2> QED
    BY <1>1, <2>1 DEF OkResponse, Leaf
<1> QED
  BY <1>1, <1>2, <1>3 DEF Issued

LEMMA AuthInvStep == AuthInv /\ [AuthNext]_allVars => AuthInv'
<1> SUFFICES ASSUME AuthInv, [AuthNext]_allVars PROVE AuthInv'
  OBVIOUS
<1>1. [Next]_vars /\ Inv /\ TypeOK /\ Recorded
  BY AuthStepIsServerStep DEF AuthInv, Inv
<1>2. Inv'
  BY <1>1, InvStep
<1>3. Recorded' /\ \A k \in 1..MaxKeys : inForce[k] \subseteq inForce'[k]
  BY <1>1, RecordGrows
<1>4. AgentTypes'
  BY AgentTypesStep
<1>5. ASSUME NEW g \in Guests
      PROVE  (/\ OwnConn(g) /\ AnswerGranted(g) /\ AnswerChained(g) /\ StoreGranted(g)
              /\ Present(g) /\ HasAnswer(g))'
  <2> g \in Conns
    BY AuthScopeAssumption
  <2>1. OwnConn(g)'
    <3>1. CASE AgentDial(g)
      BY <3>1 DEF AgentDial, OwnConn
    <3>2. CASE ~AgentDial(g)
      BY <1>1, <3>2, PeerKept DEF OwnConn, AuthInv
    <3> QED
      BY <3>1, <3>2
  <2>2. AnswerGranted(g)'
    <3> SUFFICES ASSUME Issued(g, {"answered"})'
                 PROVE  GrantedUnder(conn[g].resp.cert.issuer, g, conn[g].resp.cert.claim)'
      BY DEF AnswerGranted
    <3> DEFINE cert == conn[g].resp.cert
    <3>1. Issued(g, {"replying", "answered"}) /\ conn'[g].resp = conn[g].resp
      BY <1>1, AnswerOrigin
    <3>2. GrantedUnder(cert.issuer, g, cert.claim)
      <4>1. CASE Issued(g, {"replying"})
        BY <1>1, <4>1, ReplyGranted DEF AuthInv
      <4>2. CASE Issued(g, {"answered"})
        BY <4>2 DEF AuthInv, AnswerGranted
      <4> QED
        BY <3>1, <4>1, <4>2 DEF Issued
    <3>3. cert.issuer \in 1..MaxKeys
      BY <1>1, <3>1, AnswerTyped DEF Issued
    <3>4. inForce[cert.issuer] \subseteq inForce'[cert.issuer]
      BY <1>3, <3>3
    <3> QED
      BY <3>1, <3>2, <3>4 DEF GrantedUnder
  <2>3. StoreGranted(g)'
    <3> SUFFICES ASSUME store'[g].cert # NoPem
                 PROVE  GrantedUnder(store[g].cert.issuer, g, store[g].cert.claim)'
      BY DEF StoreGranted
    <3>1. CASE store'[g].cert = store[g].cert
      <4>1. GrantedUnder(store[g].cert.issuer, g, store[g].cert.claim)
        BY <3>1 DEF AuthInv, StoreGranted
      <4>2. store[g].cert.issuer \in 1..MaxKeys
        BY <3>1 DEF AuthInv, AgentTypes, Leaves
      <4> QED
        BY <1>3, <3>1, <4>1, <4>2 DEF GrantedUnder
    <3>2. CASE Issued(g, {"answered"}) /\ store'[g].cert = conn[g].resp.cert
      <4>1. GrantedUnder(conn[g].resp.cert.issuer, g, conn[g].resp.cert.claim)
        BY <3>2 DEF AuthInv, AnswerGranted
      <4>2. conn[g].resp.cert.issuer \in 1..MaxKeys
        BY <1>1, <3>2, AnswerTyped DEF Issued
      <4> QED
        BY <1>3, <3>2, <4>1, <4>2 DEF GrantedUnder
    <3> QED
      BY <3>1, <3>2, StoreOrigin
  <2>4. Present(g)'
    BY <1>1, PresentKept DEF AuthInv
  <2>5. HasAnswer(g)'
    BY HasAnswerStep
  <2>6. AnswerChained(g)'
    BY AnswerChainedStep
  <2> QED
    BY <2>1, <2>2, <2>3, <2>4, <2>5, <2>6
<1> QED
  BY <1>2, <1>3, <1>4, <1>5 DEF AuthInv

LEMMA AuthInvariant == AuthSpec => []AuthInv
BY AuthInvInit, AuthInvStep, PTL DEF AuthSpec

\* Agents, their files and the server keep to their types.
THEOREM AuthTypeCorrect == AuthSpec => []AuthTypeOK
<1>1. AuthInv => AuthTypeOK
  BY DEF AuthInv, Inv, AgentTypes, Recorded, AuthTypeOK
<1> QED
  BY AuthInvariant, <1>1, PTL

\* What from_cert_pem() of any guest accepts from another was granted to that
\* guest under the CA that the first one holds, for any number of guests,
\* restarts, --genkey, edits of host.json and faults of the agents.
THEOREM GrantedOnly == AuthSpec => []AcceptedWasGranted
<1>1. AuthInv => AcceptedWasGranted
  BY DEF AuthInv, StoreGranted, AcceptedWasGranted, Accepts
<1> QED
  BY AuthInvariant, <1>1, PTL

-----------------------------------------------------------------------------
(* The agents' files *)

\* Nobody but its agent changes where an agent is, or its files.
LEMMA OthersKeep ==
    ASSUME AuthInv, [AuthNext]_allVars, NEW g \in Guests, ~AgentStep(g), ~AgentFault(g)
    PROVE  agent'[g] = agent[g] /\ store'[g] = store[g]
<1>1. CASE UNCHANGED guestVars
  BY <1>1 DEF guestVars
<1>2. ASSUME NEW h \in Guests, AgentStep(h), h # g
      PROVE  agent'[g] = agent[g] /\ store'[g] = store[g]
  BY <1>2
     DEF AgentStep, AgentStart, AgentDial, AgentDialFails, AgentSend, AgentReads,
         AgentGivesUp, AgentReceive, AgentOpen, AgentStoreCert, AgentStoreCa, Goto,
         Rest, guestVars, AuthInv, AgentTypes
<1>3. ASSUME NEW h \in Guests, AgentFault(h), h # g
      PROVE  agent'[g] = agent[g] /\ store'[g] = store[g]
  BY <1>3 DEF AgentFault, Rest, AuthInv, AgentTypes
<1> QED
  BY <1>1, <1>2, <1>3
     DEF AuthNext, Daemon, Bind, Accepting, Handling, Stranger, Clear, allVars

\* The answer an agent stores stays what it is until it is stored.
LEMMA AnswerKept ==
    ASSUME AuthInv, AuthInv', [AuthNext]_allVars, NEW g \in Guests,
           agent'[g].pc \in Storing
    PROVE  conn'[g].resp = conn[g].resp
<1>1. Issued(g, {"answered"})' /\ g \in Conns
  BY AuthScopeAssumption DEF AuthInv, HasAnswer
<1> QED
  BY <1>1, AuthStepIsServerStep, AnswerOrigin DEF AuthInv, Inv

LEMMA AgentMapped ==
    ASSUME AuthInv, AuthInv', [AuthNext]_allVars, NEW g \in Guests
    PROVE  [Credentials(g)!CredNext]_(Credentials(g)!credVars)
<1> USE DEF Credentials!credVars
<1> DEFINE C(r) == [cert |-> r.cert, ca_cert |-> r.ca_cert]
<1>0. /\ agent \in [Guests -> [pc : AgentPCs, config : AgentConfigs \cup {NoConfig}]]
      /\ store \in [Guests -> [cert : Leaves \cup {NoPem}, ca : 0..MaxKeys]]
      /\ g \in Conns
  BY AuthScopeAssumption DEF AuthInv, AgentTypes
<1>1. CASE ~AgentStep(g) /\ ~AgentFault(g)
  <2>1. agent'[g] = agent[g] /\ store'[g] = store[g]
    BY <1>1, OthersKeep
  <2>2. agent[g].pc \in Storing => conn'[g].resp = conn[g].resp
    BY <2>1, AnswerKept
  <2> QED
    BY <2>1, <2>2
<1>2. CASE AgentStart(g) \/ AgentDial(g) \/ AgentDialFails(g) \/ AgentSend(g)
           \/ AgentReads(g) \/ AgentGivesUp(g)
  <2>1. agent[g].pc \notin Storing /\ agent'[g].pc \notin Storing /\ store' = store
    BY <1>0, <1>2
       DEF AgentStart, AgentDial, AgentDialFails, AgentSend, AgentReads, AgentGivesUp,
           Goto, Rest, Storing, guestVars
  <2> QED
    BY <2>1
<1>3. CASE AgentReceive(g)
  <2>1. /\ agent[g].pc \notin Storing /\ agent'[g].pc = "openCert"
        /\ store' = store /\ conn' = conn
    BY <1>0, <1>3 DEF AgentReceive, Goto, Storing, vars
  <2>2. Issued(g, {"answered"})
    BY <1>3 DEF AgentReceive
  <2>3. /\ conn[g].resp.cert \in Leaves /\ conn[g].resp.ca_cert \in 1..MaxKeys
        /\ conn[g].resp.cert.issuer = conn[g].resp.ca_cert
    BY <1>0, <2>2, AnswerTyped DEF AuthInv, Inv, Issued, AnswerChained
  <2> QED
    BY <2>1, <2>3 DEF Credentials!CredNext, Credentials!Receive, Storing
<1>4. CASE AgentOpen(g) /\ agent[g].pc = "openCert"
  <2>1. /\ agent'[g].pc = "dataCert" /\ conn' = conn
        /\ store'[g].cert = NoPem /\ store'[g].ca = store[g].ca
    BY <1>0, <1>4 DEF AgentOpen, Goto, vars
  <2> QED
    BY <1>4, <2>1 DEF Credentials!CredNext, Credentials!OpenCert, Storing
<1>5. CASE AgentOpen(g) /\ agent[g].pc # "openCert"
  <2>1. /\ agent[g].pc = "openCa" /\ agent'[g].pc = "dataCa" /\ conn' = conn
        /\ store'[g].ca = 0 /\ store'[g].cert = store[g].cert
    BY <1>0, <1>5 DEF AgentOpen, Goto, vars
  <2> QED
    BY <2>1 DEF Credentials!CredNext, Credentials!OpenCa, Storing
<1>6. CASE AgentStoreCert(g)
  <2>1. /\ agent[g].pc = "dataCert" /\ agent'[g].pc = "openCa" /\ conn' = conn
        /\ store'[g].cert = conn[g].resp.cert /\ store'[g].ca = store[g].ca
    BY <1>0, <1>6 DEF AgentStoreCert, Goto, vars
  <2> QED
    BY <2>1 DEF Credentials!CredNext, Credentials!DataCert, Storing
<1>7. CASE AgentStoreCa(g)
  <2>1. /\ agent[g].pc = "dataCa" /\ agent'[g].pc = "asleep"
        /\ store'[g].ca = conn[g].resp.ca_cert /\ store'[g].cert = store[g].cert
    BY <1>0, <1>7 DEF AgentStoreCa, Rest
  <2> QED
    BY <2>1 DEF Credentials!CredNext, Credentials!DataCa, Storing
<1>8. CASE AgentFault(g)
  <2>1. agent'[g].pc \in {"down", "asleep"} /\ store' = store
    BY <1>0, <1>8 DEF AgentFault, Rest
  <2> QED
    BY <2>1 DEF Credentials!CredNext, Credentials!Abandon, Storing
<1> QED
  BY <1>1, <1>2, <1>3, <1>4, <1>5, <1>6, <1>7, <1>8 DEF AgentStep

\* Every guest's files change as CredentialFiles says, which Agent implements
\* too: what is written is the answer at hand, whatever befalls the server or
\* other clients meanwhile.
THEOREM FilesKept == AuthSpec => AgentsKeepFiles
<1>1. AuthInit => \A g \in Guests : Credentials(g)!CredInit
  BY DEF AuthInit, Storing, Credentials!CredInit
<1>2. AuthInv /\ AuthInv' /\ [AuthNext]_allVars
        => \A g \in Guests : [Credentials(g)!CredNext]_(Credentials(g)!credVars)
  BY AgentMapped
<1> QED
  BY <1>1, <1>2, AuthInvariant, PTL DEF AuthSpec, AgentsKeepFiles

=============================================================================
