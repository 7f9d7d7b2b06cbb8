----------------------------- MODULE AuthScope -----------------------------
(***************************************************************************)
(* The system as a whole: the server of Server, guests whose agents ask it *)
(* for certificates and store them, other clients that do as they please,  *)
(* and callees that evaluate the certificate of a caller with the CA that  *)
(* their own agent stored.                                                 *)
(*                                                                         *)
(* A guest has one entity and a connection of its own; Agent has the       *)
(* details of files, ports and retries, Evaluator those of a certificate.  *)
(* CredentialFiles is what the agents of both have in common.              *)
(***************************************************************************)
EXTENDS Server

CONSTANTS
    Guests,         \* virtual machines with an agent: a subset of Conns
    Cid,            \* the CID of each
    AgentConfigs,   \* contents agent.json may have
    NoPem,          \* a file that is missing or torn
    MaxFaults       \* bound: agents that die or fail to write

\* struct AgentConfig, for one entity.
AgentConfig(k) ==
    /\ k.server_port \in Nat /\ k.client_port \in Nat
    /\ k.request \in Requests

ASSUME AuthScopeAssumption ==
    /\ Guests \subseteq Conns
    /\ MaxFaults \in Nat
    /\ \A g \in Guests : \A k \in AgentConfigs : [cid |-> Cid[g], port |-> k.client_port] \in Peers
    /\ \A k \in AgentConfigs : AgentConfig(k)

VARIABLES
    agent,      \* where each guest's agent is, and its configuration
    store,      \* the certificate and the CA certificate in its files
    faults,
    inForce     \* history: the configurations served under each CA

guestVars == <<agent, store, faults>>
allVars == <<vars, guestVars, inForce>>

\* write_file() for the certificate, and then for the CA certificate.
Storing == {"openCert", "dataCert", "openCa", "dataCa"}

AgentPCs == {"down", "dial", "send", "await", "asleep"} \cup Storing

AuthTypeOK ==
    /\ TypeOK
    /\ agent \in [Guests -> [pc : AgentPCs, config : AgentConfigs \cup {NoConfig}]]
    /\ store \in [Guests -> [cert : Leaves \cup {NoPem}, ca : 0..MaxKeys]]
    /\ faults \in 0..MaxFaults
    /\ inForce \in [1..MaxKeys -> SUBSET Configs]

AuthInit ==
    /\ Init
    /\ agent = [g \in Guests |-> [pc |-> "down", config |-> NoConfig]]
    /\ store = [g \in Guests |-> [cert |-> NoPem, ca |-> 0]]
    /\ faults = 0
    /\ inForce = [k \in 1..MaxKeys |-> {}]

-----------------------------------------------------------------------------
(* The server, and clients that are no agents *)

Daemon ==
    /\ EditConfig \/ LoadConfig \/ CaStep \/ Exit
    /\ UNCHANGED <<guestVars, inForce>>

Bind ==
    /\ BindListener
    /\ inForce' = [inForce EXCEPT ![disk] = @ \cup {cfg}]
    /\ UNCHANGED guestVars

Accepting(c) == Accept(c) /\ UNCHANGED <<guestVars, inForce>>

Handling(c) == Handler(c) /\ UNCHANGED <<guestVars, inForce>>

Stranger(c) == Client(c) /\ UNCHANGED <<guestVars, inForce>>

\* What a dead agent left open is closed, and then forgotten.
Clear(g) ==
    /\ conn[g].gone
    /\ Forget(g)
    /\ UNCHANGED <<guestVars, inForce>>

-----------------------------------------------------------------------------
(* The agent: run_agent() for one entity *)

Goto(g, l) == agent' = [agent EXCEPT ![g].pc = l]

\* The agent has ended, or is through with its configuration.
Rest(g, l) == agent' = [agent EXCEPT ![g] = [pc |-> l, config |-> NoConfig]]

\* from_file refuses a port that is not privileged; the service manager starts
\* the agent again, perhaps with another agent.json.
AgentStart(g) ==
    /\ agent[g].pc = "down"
    /\ \E k \in AgentConfigs :
          /\ k.server_port < 1000
          /\ agent' = [agent EXCEPT ![g] = [pc |-> "dial", config |-> k]]
    /\ UNCHANGED <<vars, store, faults, inForce>>

Listening(g) == served # 0 /\ cfg.server_port = agent[g].config.server_port

\* The kernel lets the server see the guest's CID and the client port.
AgentDial(g) ==
    /\ agent[g].pc = "dial"
    /\ Listening(g)
    /\ Dial(g)
    /\ conn'[g].peer = [cid |-> Cid[g], port |-> agent[g].config.client_port]
    /\ Goto(g, "send")
    /\ UNCHANGED <<store, faults, inForce>>

\* Nobody listens, or the client port stays taken by an earlier connection:
\* the request is given up, and not made again.
AgentDialFails(g) ==
    /\ agent[g].pc = "dial"
    /\ ~Listening(g) \/ conn[g].st # "free"
    /\ Rest(g, "asleep")
    /\ UNCHANGED <<vars, store, faults, inForce>>

AgentSend(g) ==
    /\ agent[g].pc = "send"
    /\ Send(g)
    /\ conn'[g].frame = agent[g].config.request
    /\ Goto(g, "await")
    /\ UNCHANGED <<store, faults, inForce>>

\* recv_json reads as the answer comes in.
AgentReads(g) ==
    /\ agent[g].pc = "await"
    /\ ReadReply(g)
    /\ UNCHANGED <<guestVars, inForce>>

\* send_json or recv_json fails, or the response is an error.
AgentGivesUp(g) ==
    /\ agent[g].pc \in {"send", "await"}
    /\ ~Issued(g, {"answered"})
    /\ Forget(g)
    /\ Rest(g, "asleep")
    /\ UNCHANGED <<store, faults, inForce>>

AgentReceive(g) ==
    /\ agent[g].pc = "await"
    /\ Issued(g, {"answered"})
    /\ Goto(g, "openCert")
    /\ UNCHANGED <<vars, store, faults, inForce>>

\* MUTANT of AgentOpen: a certificate that is there is kept.
AgentOpenNew(g) ==
    /\ \/ /\ agent[g].pc = "openCert"
          /\ UNCHANGED store
          /\ Goto(g, IF store[g].cert = NoPem THEN "dataCert" ELSE "openCa")
       \/ /\ agent[g].pc = "openCa"
          /\ store' = [store EXCEPT ![g].ca = 0]
          /\ Goto(g, "dataCa")
    /\ UNCHANGED <<vars, faults, inForce>>

\* fs::write truncates the file before it writes.
AgentOpen(g) ==
    /\ \/ /\ agent[g].pc = "openCert"
          /\ store' = [store EXCEPT ![g].cert = NoPem]
          /\ Goto(g, "dataCert")
       \/ /\ agent[g].pc = "openCa"
          /\ store' = [store EXCEPT ![g].ca = 0]
          /\ Goto(g, "dataCa")
    /\ UNCHANGED <<vars, faults, inForce>>

AgentStoreCert(g) ==
    /\ agent[g].pc = "dataCert"
    /\ store' = [store EXCEPT ![g].cert = conn[g].resp.cert]
    /\ Goto(g, "openCa")
    /\ UNCHANGED <<vars, faults, inForce>>

\* MUTANT of AgentStoreCa: the CA stored is the one served by now.
AgentStoreServed(g) ==
    /\ agent[g].pc = "dataCa"
    /\ store' = [store EXCEPT ![g].ca = served]
    /\ Rest(g, "asleep")
    /\ Forget(g)
    /\ UNCHANGED <<faults, inForce>>

\* The last file; the connection is dropped when request_cert() returns.
AgentStoreCa(g) ==
    /\ agent[g].pc = "dataCa"
    /\ store' = [store EXCEPT ![g].ca = conn[g].resp.ca_cert]
    /\ Rest(g, "asleep")
    /\ Forget(g)
    /\ UNCHANGED <<faults, inForce>>

\* The server's end of a connection stays until its handler is done.
Disconnect(g) ==
    IF conn[g].st \in Closed THEN Forget(g)
    ELSE IF conn[g].st \in Live /\ ~conn[g].gone THEN HangUp(g)
    ELSE UNCHANGED vars

\* The agent dies, anywhere, or cannot write a file and goes on.  The files
\* stay as they are; the connection is closed.
AgentFault(g) ==
    /\ agent[g].pc # "down"
    /\ faults < MaxFaults
    /\ faults' = faults + 1
    /\ \/ Rest(g, "down")
       \/ agent[g].pc \in Storing /\ Rest(g, "asleep")
    /\ Disconnect(g)
    /\ UNCHANGED <<store, inForce>>

AgentStep(g) ==
    \/ AgentStart(g) \/ AgentDial(g) \/ AgentDialFails(g)
    \/ AgentSend(g) \/ AgentReads(g) \/ AgentGivesUp(g) \/ AgentReceive(g)
    \/ AgentOpen(g) \/ AgentStoreCert(g) \/ AgentStoreCa(g)

-----------------------------------------------------------------------------

AuthNext ==
    \/ Daemon \/ Bind
    \/ \E c \in Conns : Accepting(c) \/ Handling(c)
    \/ \E c \in Conns \ Guests : Stranger(c)
    \/ \E g \in Guests : AgentStep(g) \/ AgentFault(g) \/ Clear(g)

AuthSpec == AuthInit /\ [][AuthNext]_allVars

\* The runtime of the server polls every task that can go on, each agent is
\* scheduled and restarted, and a closed connection is forgotten.  Neither the
\* server's process, nor its administrator, nor a stranger owes anything.
AuthFairSpec ==
    /\ AuthSpec
    /\ \A c \in Conns : WF_allVars(Accepting(c)) /\ WF_allVars(Handling(c))
    /\ \A g \in Guests : WF_allVars(AgentStep(g)) /\ WF_allVars(Clear(g))

-----------------------------------------------------------------------------
(* The evaluator: from_cert_pem() on files as they are, with tokens below   *)
(* the limit of Evaluator                                                   *)

\* MUTANT of Accepts: the signature is not compared with the CA at hand.
AcceptsUnsigned(h, g) == store[g].cert # NoPem /\ store[h].ca # 0

Accepts(h, g) ==
    /\ store[g].cert # NoPem /\ store[h].ca # 0
    /\ store[g].cert.issuer = store[h].ca

-----------------------------------------------------------------------------
(* Properties *)

\* Some configuration served under a CA gives the guest this claim.
GrantedUnder(k, g, claim) ==
    \E h \in inForce[k] :
        /\ claim.cid = Cid[g]
        /\ claim.vm \in DOMAIN h.vms
        /\ h.vms[claim.vm].vm_cid = Cid[g]
        /\ claim.sub \in DOMAIN h.vms[claim.vm].entities
        /\ claim.caps = h.vms[claim.vm].entities[claim.sub].caps

\* What a callee accepts from a guest was granted to that very guest by a
\* configuration that was served under the CA the callee holds: across
\* restarts, edits, crashes, torn files and agents that ask for the wrong VM,
\* a new CA (--genkey) takes back what only earlier configurations granted.
AcceptedWasGranted ==
    \A g, h \in Guests : Accepts(h, g) => GrantedUnder(store[h].ca, g, store[g].cert.claim)

Credentials(g) == INSTANCE CredentialFiles
    WITH Answers <- {a \in [cert : Leaves, ca_cert : 1..MaxKeys] :
                        a.cert.issuer = a.ca_cert},
         NoAnswer <- NoResponse, NoCert <- NoPem, NoCa <- 0,
         step <- IF agent[g].pc \in Storing THEN agent[g].pc ELSE "rest",
         answer <- IF agent[g].pc \in Storing
                   THEN [cert |-> conn[g].resp.cert, ca_cert |-> conn[g].resp.ca_cert]
                   ELSE NoResponse,
         cert <- store[g].cert,
         ca <- store[g].ca

\* While an agent stores an answer, nothing changes it under its hands: no
\* restart of the server, no new CA and no other client.  The certificate in
\* it was issued by the CA in it, and the agents' files change here as the
\* file-by-file account in Agent has them change.
AgentsKeepFiles ==
    /\ \A g \in Guests : Credentials(g)!CredInit
    /\ [][\A g \in Guests : [Credentials(g)!CredNext]_(Credentials(g)!credVars)]_allVars

\* No agent is left waiting in recv_json, which has no timeout, whatever the
\* server's process, its administrator and other clients do: each ends up
\* asleep once faults stop.
AgentsSettle == \A g \in Guests : <>[](agent[g].pc = "asleep")

\* What the configuration in force gives a guest that is about to ask.
EntitledGuest(g) ==
    LET k == agent[g].config
        m == k.request
    IN  /\ Listening(g)
        /\ k.client_port = cfg.peer_port
        /\ m.version = PROTOCOL_VERSION /\ m.csr.parses
        /\ m.vm_name \in DOMAIN cfg.vms
        /\ cfg.vms[m.vm_name].vm_cid = Cid[g]
        /\ m.entity \in DOMAIN cfg.vms[m.vm_name].entities
        /\ EndYear(ValidityDays(m)) <= MaxYear

\* The files of a guest are of one CA, and good for the entity.
Holds(g, k, entity) ==
    /\ Accepts(g, g)
    /\ store[g].ca = k
    /\ store[g].cert.claim.sub = entity

\* End to end: an agent that asks a running server for what its configuration
\* grants ends up with a certificate of that server's CA and that CA in its
\* files, however other clients behave, unless the server ends or the agent
\* meets a fault on the way.
Provisioned ==
    \A g \in Guests : \A k \in 1..MaxKeys : \A n \in 0..MaxFaults :
    \A m \in {a.request : a \in AgentConfigs} :
        (/\ agent[g].pc = "dial" /\ agent[g].config.request = m
         /\ conn[g].st = "free" /\ served = k /\ EntitledGuest(g) /\ faults = n)
            ~> Holds(g, k, m.entity) \/ served # k \/ faults # n

=============================================================================
