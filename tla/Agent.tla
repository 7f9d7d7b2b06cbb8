------------------------------- MODULE Agent -------------------------------
(***************************************************************************)
(* auth-scope-agent: for each entity in turn, a fresh key and CSR, a       *)
(* connection to the host from the fixed client port, one request, and the *)
(* answer written to three files; then the client port is bound for good.  *)
(* The process may die anywhere and is started again by the service        *)
(* manager; the host may refuse, end or change its CA; other processes of  *)
(* the guest may take the client port whenever nobody holds it.            *)
(*                                                                         *)
(* A key pair is a number that differs from those in the entity's files; a *)
(* CA is the number of its key pair.  An entity is an entry of the list,   *)
(* told apart by where it is, whatever its name; that every entry has its  *)
(* own three paths is assumed (config.rs does not check it).               *)
(***************************************************************************)
EXTENDS Integers, Sequences

CONSTANTS
    Entities,       \* config.entities: the entries, in order
    Refused,        \* entities the host may refuse
    BadMode,        \* <<entity, file>> pairs whose mode string is not octal
    Outages,        \* entities whose connection to the host may fail or break
    WriteErrors,    \* entities for whose files a system call may fail
    MaxCa,          \* bound: CAs the host has had
    MaxRivals,      \* bound: times the client port is taken beyond the retries
    MaxCrashes      \* bound: times the agent dies

Names == {Entities[i] : i \in DOMAIN Entities}
Files == <<"cert", "key", "ca">>    \* the order store_entity_credentials writes
FileNames == {Files[i] : i \in DOMAIN Files}
Keys == 1..3                        \* one in each of two files, and a fresh one
MaxAttempts == 10                   \* retries of both bind loops

ASSUME AgentAssumption ==
    /\ Entities \in Seq(Names)
    /\ \A i, j \in DOMAIN Entities : Entities[i] = Entities[j] => i = j
    /\ Refused \subseteq Names
    /\ BadMode \subseteq Names \X FileNames
    /\ Outages \subseteq Names /\ WriteErrors \subseteq Names
    /\ MaxCa \in Nat \ {0}
    /\ MaxRivals \in Nat
    /\ MaxCrashes \in Nat

VARIABLES
    pc,         \* where the agent is in run_agent()
    idx,        \* the entity it is at
    fidx,       \* the file it is at
    attempts,   \* the retries of the bind loop it is in
    key,        \* the key pair it has generated
    resp,       \* the key and CA of the certificate it has received
    file,       \* the files of every entity
    done,       \* entities logged as stored since the process started
    port,       \* who holds the client port: "free", "agent", "linger", "rival"
    hostCa,     \* the CA the host signs with
    rivals, crashes

vars == <<pc, idx, fidx, attempts, key, resp, file, done, port, hostCa, rivals, crashes>>
env == <<hostCa, rivals, crashes>>

Absent == [st |-> "absent", key |-> 0, ca |-> 0, mode |-> "none", owned |-> FALSE]

NoCert == [key |-> 0, ca |-> 0]

Looping == {"csr", "bind", "connect", "await", "open", "data", "chmod", "chown"}
PCs == Looping \cup {"down", "secure", "asleep"}

TypeOK ==
    /\ pc \in PCs
    /\ idx = 1 \/ idx \in 1..Len(Entities)
    /\ pc \in Looping => idx \in 1..Len(Entities)
    /\ fidx \in 1..Len(Files)
    /\ attempts \in 0..MaxAttempts
    /\ key \in Keys \cup {0}
    /\ resp \in [key : Keys \cup {0}, ca : 0..MaxCa]
    /\ file \in [Names -> [FileNames ->
                   [st : {"absent", "torn", "whole"}, key : Keys \cup {0},
                    ca : 0..MaxCa, mode : {"none", "umask", "set"},
                    owned : BOOLEAN]]]
    /\ done \subseteq Names
    /\ port \in {"free", "agent", "linger", "rival"}
    /\ hostCa \in 1..MaxCa
    /\ rivals \in 0..MaxRivals
    /\ crashes \in 0..MaxCrashes

Init ==
    /\ pc = "down" /\ idx = 1 /\ fidx = 1 /\ attempts = 0
    /\ key = 0 /\ resp = NoCert
    /\ file = [e \in Names |-> [f \in FileNames |-> Absent]]
    /\ done = {}
    /\ port = "free"
    /\ hostCa = 1 /\ rivals = 0 /\ crashes = 0

-----------------------------------------------------------------------------

Entity == Entities[idx]
File == Files[fidx]

\* The socket is closed; its port may stay taken for a while.
PortClosed == port' \in {"free", "linger"}

Start ==
    /\ pc = "down"
    /\ pc' = IF idx <= Len(Entities) THEN "csr" ELSE "secure"
    /\ done' = {}
    /\ UNCHANGED <<idx, fidx, attempts, key, resp, file, port, env>>

\* The locals of request_cert() and of the functions it calls.
NoLocals == fidx' = 1 /\ attempts' = 0 /\ key' = 0 /\ resp' = NoCert

\* The process ends; its files and its last log lines stay.
Ended == pc' = "down" /\ idx' = 1 /\ NoLocals /\ UNCHANGED <<file, done>>

\* MUTANT of GoOn: the loop runs one entity too far.
GoOnPast ==
    /\ idx' = IF idx <= Len(Entities) THEN idx + 1 ELSE 1
    /\ pc' = IF idx <= Len(Entities) THEN "csr" ELSE "secure"
    /\ NoLocals

\* run_agent() goes on to the next entity, or to securing the port.
GoOn ==
    /\ idx' = IF idx < Len(Entities) THEN idx + 1 ELSE 1
    /\ pc' = IF idx < Len(Entities) THEN "csr" ELSE "secure"
    /\ NoLocals

\* MUTANT of Failed: the error ends run_agent(), and the process.
FailedEnds == Ended

\* request_cert() returned an error: it is logged, and the loop goes on.
Failed == GoOn /\ UNCHANGED <<file, done>>

Succeeded == GoOn /\ done' = done \cup {Entity}

-----------------------------------------------------------------------------
(* request_cert() *)

GenerateCsr ==
    /\ pc = "csr"
    /\ key' = CHOOSE k \in Keys : \A f \in FileNames : file[Entity][f].key # k
    /\ pc' = "bind"
    /\ UNCHANGED <<idx, fidx, attempts, resp, file, done, port, env>>

BindClientPort ==
    /\ pc = "bind"
    /\ port = "free"
    /\ port' = "agent"
    /\ pc' = "connect"
    /\ attempts' = 0
    /\ UNCHANGED <<idx, fidx, key, resp, file, done, env>>

\* AddrInUse: connect_with_local_port sleeps and tries again ...
BindAgain ==
    /\ pc = "bind"
    /\ port # "free"
    /\ attempts < MaxAttempts
    /\ attempts' = attempts + 1
    /\ UNCHANGED <<pc, idx, fidx, key, resp, file, done, port, env>>

\* ... ten times.
BindGivesUp ==
    /\ pc = "bind"
    /\ port = "rival"
    /\ attempts = MaxAttempts
    /\ Failed
    /\ UNCHANGED <<port, env>>

Connect ==
    /\ pc = "connect"
    /\ pc' = "await"
    /\ UNCHANGED <<idx, fidx, attempts, key, resp, file, done, port, env>>

\* The connect fails and is not retried.
ConnectFails ==
    /\ pc = "connect"
    /\ Entity \in Outages
    /\ PortClosed
    /\ Failed
    /\ UNCHANGED env

\* The stream ends before a response is there.
ConnectionLost ==
    /\ pc = "await"
    /\ Entity \in Outages
    /\ PortClosed
    /\ Failed
    /\ UNCHANGED env

ReceiveError ==
    /\ pc = "await"
    /\ Entity \in Refused
    /\ PortClosed
    /\ Failed
    /\ UNCHANGED env

ReceiveOk ==
    /\ pc = "await"
    /\ resp' = [key |-> key, ca |-> hostCa]
    /\ pc' = "open"
    /\ fidx' = 1
    /\ UNCHANGED <<idx, attempts, key, file, done, port, env>>

-----------------------------------------------------------------------------
(* store_entity_credentials(): write_file() for each of the three files.  *)
(* The connection stays open until request_cert() returns.                *)

\* open(2) with O_CREAT and O_TRUNC: only a new file gets the umask's mode.
Truncated(f) ==
    [st |-> "torn", key |-> 0, ca |-> 0,
     mode |-> IF f.mode = "none" THEN "umask" ELSE f.mode, owned |-> f.owned]

OpenFile ==
    /\ pc = "open"
    /\ file' = [file EXCEPT ![Entity][File] = Truncated(@)]
    /\ pc' = "data"
    /\ UNCHANGED <<idx, fidx, attempts, key, resp, done, port, env>>

\* MUTANT of Written: the CA stored is the host's, not the response's.
WrittenHostCa(f) ==
    [key |-> IF f = "ca" THEN 0 ELSE resp.key,
     ca |-> IF f = "key" THEN 0 ELSE IF f = "ca" THEN hostCa ELSE resp.ca]

\* What each file is given: the certificate received (its key and issuer),
\* the key generated for this request, the CA certificate received.
Written(f) ==
    [cert |-> resp,
     key |-> [key |-> key, ca |-> 0],
     ca |-> [key |-> 0, ca |-> resp.ca]][f]

WriteData ==
    /\ pc = "data"
    /\ file' = [file EXCEPT ![Entity][File] =
                  [@ EXCEPT !.st = "whole", !.key = Written(File).key,
                            !.ca = Written(File).ca]]
    /\ pc' = "chmod"
    /\ UNCHANGED <<idx, fidx, attempts, key, resp, done, port, env>>

\* The mode string is parsed only now that the file is there.
SetMode ==
    /\ pc = "chmod"
    /\ <<Entity, File>> \notin BadMode
    /\ file' = [file EXCEPT ![Entity][File].mode = "set"]
    /\ pc' = "chown"
    /\ UNCHANGED <<idx, fidx, attempts, key, resp, done, port, env>>

SetOwner ==
    /\ pc = "chown"
    /\ file' = [file EXCEPT ![Entity][File].owned = TRUE]
    /\ IF fidx < Len(Files)
       THEN /\ fidx' = fidx + 1
            /\ pc' = "open"
            /\ UNCHANGED <<idx, attempts, key, resp, done, port>>
       ELSE PortClosed /\ Succeeded
    /\ UNCHANGED env

\* A step of write_file() fails: the files stay as they are.
StoreFails ==
    /\ \/ pc \in {"open", "data", "chmod", "chown"} /\ Entity \in WriteErrors
       \/ pc = "chmod" /\ <<Entity, File>> \in BadMode
    /\ PortClosed
    /\ Failed
    /\ UNCHANGED env

-----------------------------------------------------------------------------
(* run_agent(): the persistent listener *)

SecurePort ==
    /\ pc = "secure"
    /\ port = "free"
    /\ port' = "agent"
    /\ pc' = "asleep"
    /\ attempts' = 0
    /\ UNCHANGED <<idx, fidx, key, resp, file, done, env>>

SecureAgain ==
    /\ pc = "secure"
    /\ port # "free"
    /\ attempts < MaxAttempts
    /\ attempts' = attempts + 1
    /\ UNCHANGED <<pc, idx, fidx, key, resp, file, done, port, env>>

\* The process exits, and the service manager starts it again.
SecureGivesUp ==
    /\ pc = "secure"
    /\ port = "rival"
    /\ attempts = MaxAttempts
    /\ Ended
    /\ UNCHANGED <<port, env>>

-----------------------------------------------------------------------------
(* What surrounds the agent *)

Crash ==
    /\ pc # "down"
    /\ crashes < MaxCrashes
    /\ crashes' = crashes + 1
    /\ Ended
    /\ IF port = "agent" THEN PortClosed ELSE UNCHANGED port
    /\ UNCHANGED <<hostCa, rivals>>

LingerEnds ==
    /\ port = "linger"
    /\ port' = "free"
    /\ UNCHANGED <<pc, idx, fidx, attempts, key, resp, file, done, env>>

\* Another process takes the port, or a closed socket keeps it longer than the
\* retries last.
RivalBinds ==
    /\ port \in {"free", "linger"}
    /\ rivals < MaxRivals
    /\ rivals' = rivals + 1
    /\ port' = "rival"
    /\ UNCHANGED <<pc, idx, fidx, attempts, key, resp, file, done, hostCa, crashes>>

RivalLeaves ==
    /\ port = "rival"
    /\ port' = "free"
    /\ UNCHANGED <<pc, idx, fidx, attempts, key, resp, file, done, env>>

\* The server was restarted with --genkey.
HostRegenerates ==
    /\ hostCa < MaxCa
    /\ hostCa' = hostCa + 1
    /\ UNCHANGED <<pc, idx, fidx, attempts, key, resp, file, done, port, rivals, crashes>>

-----------------------------------------------------------------------------

Request ==
    \/ GenerateCsr \/ BindClientPort \/ BindAgain \/ BindGivesUp
    \/ Connect \/ ConnectFails \/ ConnectionLost \/ ReceiveError \/ ReceiveOk

Store == OpenFile \/ WriteData \/ SetMode \/ SetOwner \/ StoreFails

Secure == SecurePort \/ SecureAgain \/ SecureGivesUp

Step == Start \/ Request \/ Store \/ Secure

Environment == Crash \/ LingerEnds \/ RivalBinds \/ RivalLeaves \/ HostRegenerates

Next == Step \/ Environment

Spec == Init /\ [][Next]_vars

\* The agent is scheduled and restarted; the host answers or its connection
\* breaks (Server, RequestSettles); no one keeps the port for ever.
FairSpec ==
    /\ Spec
    /\ WF_vars(Step)
    /\ WF_vars(LingerEnds)
    /\ WF_vars(RivalLeaves)

-----------------------------------------------------------------------------
(* Properties *)

\* The three files of an entity belong together, and are as configured.
Usable(e) ==
    /\ \A f \in FileNames : /\ file[e][f].st = "whole"
                            /\ file[e][f].mode = "set"
                            /\ file[e][f].owned
    /\ file[e]["cert"].key = file[e]["key"].key
    /\ file[e]["cert"].ca = file[e]["ca"].ca

\* An entity reported "Certificate stored successfully" has files that belong
\* together, whichever writes, errors, crashes and changes of the host's CA
\* came before or in between.
StoredIsUsable == \A e \in done : Usable(e)

\* Once crashes and rivals stop the agent ends up asleep on its secured port,
\* whatever it was refused and whichever of its requests failed.
EventuallyAsleep == <>[](pc = "asleep")

\* Entities whose own request may fail, whatever happens to the others.
Unlucky ==
    Refused \cup Outages \cup WriteErrors \cup {e \in Names : \E f \in FileNames : <<e, f>> \in BadMode}

\* A request that is refused, breaks off or cannot be stored, and files torn by
\* a crash, keep no other entity from its credentials: run_agent() goes on,
\* and a restart writes them all again.  Only who takes the port can.
OthersStored ==
    \A e \in Names \ Unlucky : <>[](e \in done /\ Usable(e)) \/ <>(rivals > 0)

\* The refinement mapping: of the key file, of modes and owners nothing shows.
CredentialStep(e) ==
    IF Entity # e THEN "rest"
    ELSE CASE File = "cert" /\ pc = "open" -> "openCert"
           [] File = "cert" /\ pc = "data" -> "dataCert"
           [] File = "cert" /\ pc \in {"chmod", "chown"} -> "openCa"
           [] File = "key" /\ pc \in {"open", "data", "chmod", "chown"} -> "openCa"
           [] File = "ca" /\ pc = "open" -> "openCa"
           [] File = "ca" /\ pc = "data" -> "dataCa"
           [] OTHER -> "rest"

Response == [cert |-> resp, ca_cert |-> resp.ca]

Credentials(e) == INSTANCE CredentialFiles
    WITH Answers <- {a \in [cert : [key : Keys, ca : 1..MaxCa], ca_cert : 1..MaxCa] :
                        a.cert.ca = a.ca_cert},
         NoAnswer <- NoCert, NoCert <- NoCert, NoCa <- 0,
         step <- CredentialStep(e),
         answer <- IF CredentialStep(e) = "rest" THEN NoCert ELSE Response,
         cert <- [key |-> file[e]["cert"].key, ca |-> file[e]["cert"].ca],
         ca <- file[e]["ca"].ca

\* However the agent is interrupted or fails, and whatever the host does
\* meanwhile, the certificate and CA files of every entity change as
\* AuthScope lets them change: from one request, in order, torn in between.
ImplementsCredentials ==
    /\ \A e \in Names : Credentials(e)!CredInit
    /\ [][\A e \in Names : [Credentials(e)!CredNext]_(Credentials(e)!credVars)]_vars

=============================================================================
