------------------------------- MODULE Server -------------------------------
(***************************************************************************)
(* auth-scope-server: main() reads the configuration, obtains a CA and     *)
(* binds the listener; the accept loop checks the peer's port and spawns   *)
(* one handler per connection; a handler reads one frame, answers it and   *)
(* ends.  Clients are arbitrary: they may send any frame, a broken one or  *)
(* none, read the answer or not, and hang up at any moment.                *)
(*                                                                         *)
(* The CA engine appears through its abstract specification, CaLifecycle;  *)
(* a second process may replace the CA on disk beside the one that serves. *)
(* Days are counted from 2024-01-01, the not_before of every certificate.  *)
(***************************************************************************)
EXTENDS CaLifecycle

CONSTANTS
    Conns,      \* bound: connections alive at the same time
    Peers,      \* [cid, port] addresses, given by the kernel, clients dial from
    Configs,    \* contents host.json may have
    Requests,   \* CertRequest frames clients may send
    Caps,       \* the capabilities a configuration may grant
    Days,       \* days on which certificates may be signed
    NoFrame,    \* nothing sent yet
    BadFrame,   \* recv_json fails: end of stream, too large or not a CertRequest
    Oversized,  \* frames whose answer, which may quote them, outgrows the socket
    NoConfig    \* no server process

PROTOCOL_VERSION == 1

NoOverride == -1    \* validity_days: None

\* The domain of the dates rcgen can represent ends with year 9999.
MaxYear == 9999

\* struct HostConfig with its VmEntry and EntityPolicy, the paths of the CA
\* files apart.
HostConfig(k) ==
    /\ k.server_port \in Nat /\ k.peer_port \in Nat /\ k.cert_validity_days \in Nat
    /\ \A v \in DOMAIN k.vms :
          /\ k.vms[v].vm_cid \in Nat
          /\ \A e \in DOMAIN k.vms[v].entities :
                /\ k.vms[v].entities[e].caps \in SUBSET Caps
                /\ k.vms[v].entities[e].validity_days \in Nat \cup {NoOverride}

ASSUME ServerAssumption ==
    /\ Days \subseteq Nat
    /\ NoFrame \notin Requests /\ BadFrame \notin Requests
    /\ NoFrame # BadFrame
    /\ Oversized \subseteq Requests \cup {BadFrame}
    /\ NoConfig \notin Configs
    /\ \A k \in Configs : HostConfig(k)

VARIABLES
    cfgFile,    \* host.json
    cfg,        \* the configuration of the running process, or NoConfig
    conn        \* the connections

vars == <<disk, served, lastKey, cfgFile, cfg, conn>>

NoResponse == [status |-> "none"]

NoPeer == [cid |-> 0, port |-> 0]

FreeConn == [st |-> "free", peer |-> NoPeer,
             frame |-> NoFrame, gone |-> FALSE, resp |-> NoResponse]

\* "dialed" waits in accept(); "handling" waits in recv_json; "replying" has
\* its response and waits in send_json.  The others are closed.
Live == {"dialed", "handling", "replying"}
Closed == {"answered", "lost", "rejected", "panicked", "reset"}

\* A leaf certificate with the claim in its extension.
Leaves ==
    [subject : {m.csr.cn : m \in Requests},
     pub : {m.csr.pub : m \in Requests},
     issuer : 1..MaxKeys,
     not_after : Int,
     claim : [sub : {m.entity : m \in Requests},
              vm : {m.vm_name : m \in Requests},
              cid : {p.cid : p \in Peers},
              iat : Days, exp : Nat, caps : SUBSET Caps]]

Refusals == {"frame", "version", "not authorised", "cid", "signing"}

Responses ==
    {NoResponse}
      \cup [status : {"error"}, message : Refusals]
      \cup [status : {"ok"}, cert : Leaves, ca_cert : 1..MaxKeys]

TypeOK ==
    /\ CaTypeOK
    /\ cfgFile \in Configs
    /\ cfg \in Configs \cup {NoConfig}
    /\ cfg = NoConfig => served = 0
    /\ conn \in [Conns -> [st : Live \cup Closed \cup {"free"},
                           peer : Peers \cup {NoPeer},
                           frame : Requests \cup {NoFrame, BadFrame},
                           gone : BOOLEAN,
                           resp : Responses]]

Init ==
    /\ CaInit
    /\ cfgFile \in Configs
    /\ cfg = NoConfig
    /\ conn = [c \in Conns |-> FreeConn]

-----------------------------------------------------------------------------
(* The process: main() *)

\* MUTANT of EditConfig: a running daemon takes the new file over.
EditConfigLive ==
    /\ \E k \in Configs \ {cfgFile} :
          /\ cfgFile' = k
          /\ cfg' = IF cfg = NoConfig THEN NoConfig ELSE k
    /\ UNCHANGED <<disk, served, lastKey, conn>>

\* The administrator changes host.json; the process does not look again.
EditConfig ==
    /\ \E k \in Configs \ {cfgFile} : cfgFile' = k
    /\ UNCHANGED <<disk, served, lastKey, cfg, conn>>

\* from_file refuses a port that is not privileged; main() then exits.
LoadConfig ==
    /\ cfg = NoConfig
    /\ cfgFile.server_port < 1000
    /\ cfg' = cfgFile
    /\ UNCHANGED <<disk, served, lastKey, cfgFile, conn>>

\* init() at work, with --genkey: in this process before it binds, or in a
\* second one at any time.
CaStep ==
    /\ Generate \/ Wipe \/ Publish
    /\ UNCHANGED <<cfgFile, cfg, conn>>

\* MUTANT of BindListener: the port is bound before the configuration is read.
BindListenerFirst ==
    /\ Serve
    /\ UNCHANGED <<cfgFile, cfg, conn>>

\* run_listener binds: the daemon holds its CA.
BindListener ==
    /\ cfg # NoConfig
    /\ Serve
    /\ UNCHANGED <<cfgFile, cfg, conn>>

\* The process ends, before or after it bound, and its sockets with it.
Exit ==
    /\ cfg # NoConfig
    /\ cfg' = NoConfig
    /\ IF served = 0 THEN UNCHANGED caVars ELSE Stop
    /\ conn' = [c \in Conns |-> IF conn[c].st \in Live
                                THEN [conn[c] EXCEPT !.st = "reset"]
                                ELSE conn[c]]
    /\ UNCHANGED cfgFile

-----------------------------------------------------------------------------
(* Clients *)

\* May send_json put the whole answer into the socket at once?
Fits(c) == conn[c].frame \notin Oversized

ServerUnchanged == UNCHANGED <<disk, served, lastKey, cfgFile, cfg>>

Dial(c) ==
    /\ served # 0
    /\ conn[c].st = "free"
    /\ \E p \in Peers :
          conn' = [conn EXCEPT ![c].st = "dialed", ![c].peer = p]
    /\ ServerUnchanged

Send(c) ==
    /\ conn[c].st \in {"dialed", "handling"}
    /\ conn[c].frame = NoFrame
    /\ \E m \in Requests \cup {BadFrame} : conn' = [conn EXCEPT ![c].frame = m]
    /\ ServerUnchanged

\* Without a frame sent, recv_json meets the end of the stream.
HangUp(c) ==
    /\ conn[c].st \in Live
    /\ ~conn[c].gone
    /\ conn' = [conn EXCEPT ![c].gone = TRUE,
                            ![c].frame = IF @ = NoFrame THEN BadFrame ELSE @]
    /\ ServerUnchanged

\* The client reads, which gives send_json the room it has been waiting for.
ReadReply(c) ==
    /\ conn[c].st = "replying"
    /\ ~Fits(c) /\ ~conn[c].gone
    /\ conn' = [conn EXCEPT ![c].st = "answered"]
    /\ ServerUnchanged

\* A closed connection is forgotten, and its slot is free again.
Forget(c) ==
    /\ conn[c].st \in Closed
    /\ conn' = [conn EXCEPT ![c] = FreeConn]
    /\ ServerUnchanged

-----------------------------------------------------------------------------
(* The accept loop: run_listener() *)

\* MUTANT of PortAccepted: any peer port is accepted.
PortUnchecked(c) == TRUE

PortAccepted(c) == conn[c].peer.port = cfg.peer_port

\* MUTANT of Accept: the handler is awaited in the loop.
AcceptSerially(c) ==
    /\ served # 0
    /\ conn[c].st = "dialed"
    /\ \A d \in Conns : conn[d].st \notin {"handling", "replying"}
    /\ conn' = [conn EXCEPT ![c].st =
                   IF PortAccepted(c) THEN "handling" ELSE "rejected"]
    /\ ServerUnchanged

\* A peer port other than the agents' closes the connection unread; the
\* handler is spawned, so that the loop goes on accepting.
Accept(c) ==
    /\ served # 0
    /\ conn[c].st = "dialed"
    /\ conn' = [conn EXCEPT ![c].st =
                   IF PortAccepted(c) THEN "handling" ELSE "rejected"]
    /\ ServerUnchanged

-----------------------------------------------------------------------------
(* The policy: resolve() *)

Authorised(m) ==
    /\ m.vm_name \in DOMAIN cfg.vms
    /\ m.entity \in DOMAIN cfg.vms[m.vm_name].entities

Policy(m) == cfg.vms[m.vm_name].entities[m.entity]

\* MUTANT of ValidityDays: the override is not optional.
ValidityDaysNoDefault(m) == Policy(m).validity_days

ValidityDays(m) ==
    IF Policy(m).validity_days = NoOverride
    THEN cfg.cert_validity_days
    ELSE Policy(m).validity_days

\* MUTANT of CidVerified: the CID is looked up and not compared.
CidUnchecked(cid, m) == TRUE

CidVerified(cid, m) == cfg.vms[m.vm_name].vm_cid = cid

-----------------------------------------------------------------------------
(* The signer: sign_csr() *)

EndYear(days) == 2024 + (IF days \div 365 > 1 THEN days \div 365 ELSE 1)

\* 1 January of a year, as a day count.
NewYearsDay(year) ==
    LET past == year - 1
    IN  365 * (year - 2024) + (past \div 4 - 505) - (past \div 100 - 20)
          + (past \div 400 - 5)

\* Subject and public key come from the CSR, the claim from the request and
\* the policy.
Leaf(cid, m, today) ==
    [subject |-> m.csr.cn,
     pub |-> m.csr.pub,
     issuer |-> served,
     not_after |-> NewYearsDay(EndYear(ValidityDays(m))),
     claim |-> [sub |-> m.entity, vm |-> m.vm_name, cid |-> cid,
                iat |-> today, exp |-> today + ValidityDays(m),
                caps |-> Policy(m).caps]]

-----------------------------------------------------------------------------
(* The handler: handle_connection() and handle_inner() *)

OkResponse(cid, m, today) ==
    [status |-> "ok", cert |-> Leaf(cid, m, today), ca_cert |-> served]

ErrorResponse(why) == [status |-> "error", message |-> why]

\* The first check a frame fails, in the order of handle_inner().
Obstacle(c) ==
    LET m == conn[c].frame IN
    IF m = BadFrame THEN "frame"
    ELSE IF m.version # PROTOCOL_VERSION THEN "version"
    ELSE IF ~Authorised(m) THEN "not authorised"
    ELSE IF ~CidVerified(conn[c].peer.cid, m) THEN "cid"
    ELSE IF ~m.csr.parses THEN "signing"
    ELSE IF EndYear(ValidityDays(m)) > MaxYear THEN "panic"
    ELSE "none"

FrameRead(c) == conn[c].st = "handling" /\ conn[c].frame # NoFrame

\* Every refusal is answered: by handle_inner() itself or, for the checks
\* that end it with an error, by handle_connection().
Refuse(c) ==
    /\ FrameRead(c)
    /\ Obstacle(c) \notin {"none", "panic"}
    /\ conn' = [conn EXCEPT ![c].st = "replying",
                            ![c].resp = ErrorResponse(Obstacle(c))]
    /\ ServerUnchanged

Issue(c) ==
    /\ FrameRead(c)
    /\ Obstacle(c) = "none"
    /\ \E today \in Days :
          conn' = [conn EXCEPT ![c].st = "replying",
                     ![c].resp = OkResponse(conn[c].peer.cid, conn[c].frame, today)]
    /\ ServerUnchanged

\* date_time_ymd panics: the task ends and drops its stream, the daemon stays.
Panic(c) ==
    /\ FrameRead(c)
    /\ Obstacle(c) = "panic"
    /\ conn' = [conn EXCEPT ![c].st = "panicked"]
    /\ ServerUnchanged

\* send_json has no timeout: an answer larger than the socket's buffer waits
\* for its client to read.  A send to a client that has hung up fails, and so
\* does the error response that handle_connection() sends next.
Reply(c) ==
    /\ conn[c].st = "replying"
    /\ Fits(c) \/ conn[c].gone
    /\ conn' = [conn EXCEPT ![c].st = IF conn[c].gone THEN "lost" ELSE "answered"]
    /\ ServerUnchanged

-----------------------------------------------------------------------------

Main == EditConfig \/ LoadConfig \/ CaStep \/ BindListener \/ Exit

Client(c) == Dial(c) \/ Send(c) \/ HangUp(c) \/ ReadReply(c) \/ Forget(c)

Handler(c) == Refuse(c) \/ Issue(c) \/ Panic(c) \/ Reply(c)

Next == Main \/ \E c \in Conns : Client(c) \/ Accept(c) \/ Handler(c)

Spec == Init /\ [][Next]_vars

-----------------------------------------------------------------------------
(* Properties *)

Issued(c, states) == conn[c].st \in states /\ conn[c].resp.status = "ok"

\* A certificate on its way goes to the guest that owns it: it was asked for
\* from the agents' port, and the kernel's CID is the one the configuration
\* in force gives the VM named in the claim (listener.rs and handler.rs
\* check the two at different moments).
IssuedToOwner ==
    \A c \in Conns : Issued(c, {"replying"}) =>
        LET claim == conn[c].resp.cert.claim IN
        /\ cfg # NoConfig
        /\ conn[c].peer.port = cfg.peer_port
        /\ claim.vm \in DOMAIN cfg.vms
        /\ cfg.vms[claim.vm].vm_cid = conn[c].peer.cid
        /\ claim.cid = conn[c].peer.cid

\* What the claim of a certificate on its way grants is what the
\* configuration in force grants the entity that was asked for, for the days
\* it gives: no answer computed from an earlier configuration is sent.
ClaimIsPolicy ==
    \A c \in Conns : Issued(c, {"replying"}) =>
        LET claim == conn[c].resp.cert.claim
            grants == cfg.vms[claim.vm].entities
        IN  /\ claim.sub = conn[c].frame.entity
            /\ claim.sub \in DOMAIN grants
            /\ claim.caps = grants[claim.sub].caps
            /\ claim.exp - claim.iat =
                  (IF grants[claim.sub].validity_days = NoOverride
                   THEN cfg.cert_validity_days
                   ELSE grants[claim.sub].validity_days)

\* The handler waits in send_json for a client that does not read.
Stalled(c) == conn[c].st = "replying" /\ ~Fits(c) /\ ~conn[c].gone

\* A frame sent on a connection is dealt with, whatever the other clients do
\* and however long they keep theirs idle or their answers unread: the handler
\* reads and sends without a timeout, and only spawning it keeps the accept
\* loop going.  All that may hold up an answer is the client it is for.
RequestSettles ==
    \A c \in Conns :
        (conn[c].st \in Live /\ conn[c].frame # NoFrame)
            ~> conn[c].st \in Closed \/ Stalled(c)

\* What a guest may have: the agents' port, its own CID, an entity of its VM,
\* a CSR that parses and a validity that dates can express.
Entitled(c) ==
    LET m == conn[c].frame IN
    /\ conn[c].st \in {"dialed", "handling"}
    /\ m \in Requests
    /\ m.version = PROTOCOL_VERSION /\ m.csr.parses
    /\ conn[c].peer.port = cfg.peer_port
    /\ m.vm_name \in DOMAIN cfg.vms
    /\ cfg.vms[m.vm_name].vm_cid = conn[c].peer.cid
    /\ m.entity \in DOMAIN cfg.vms[m.vm_name].entities
    /\ EndYear(ValidityDays(m)) <= MaxYear

\* A guest that asks for what the configuration grants it is answered with a
\* certificate for that entity, unless it hangs up or the server ends first;
\* a certificate that outgrows the socket may be left for it to read.
EntitledServed ==
    \A c \in Conns : \A m \in Requests :
        (Entitled(c) /\ conn[c].frame = m)
            ~> \/ /\ Issued(c, {"answered"}) \/ (Issued(c, {"replying"}) /\ Stalled(c))
                  /\ conn[c].resp.cert.claim.sub = m.entity
               \/ conn[c].st \in {"lost", "reset"}

\* "Number of days for which issued guest certificates are valid"
\* (docs/server_configuration.md): the certificate does not expire before
\* the configured number of days, the life of its claim, has passed.
ValidForConfiguredDays ==
    \A c \in Conns : Issued(c, {"answered"}) =>
        conn[c].resp.cert.not_after >= conn[c].resp.cert.claim.exp

=============================================================================
