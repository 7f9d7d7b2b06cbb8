# TLA+ models of vm-auth-scope

vm-auth-scope gives the processes ("entities") of virtual machines certificates
that say what they may call on other machines. A daemon on the host,
`auth-scope-server`, owns a certificate authority. An agent in each guest,
`auth-scope-agent`, asks it over vsock for a certificate per entity and stores
it. A library, in Rust and in Go, reads the capabilities back out of a peer's
certificate. This directory holds TLA+ models of that code, the TLC
configurations that check them on small instances, and proofs of their main
invariants that TLAPS checks.

## The system

| Component | Source | State it keeps | Operations |
|---|---|---|---|
| CA engine | `auth-scope-ca/src/ca.rs` | two PEM files, the key's permissions, the CA in memory | `init`, `load` |
| Signer, JWT | `signing.rs`, `jwt.rs` | none | `sign_csr`, `CapJwtSigner::sign`, `verify_cap_jwt` |
| Server start-up | server `main.rs`, `config.rs` | configuration, CA | read `host.json`, obtain the CA, bind |
| Listener, handler, policy | `listener.rs`, `handler.rs`, `policy.rs` | the connections | accept, check the port, read a frame, check, sign, answer |
| Agent | agent `client.rs`, `csr.rs`, `main.rs`, `config.rs` | the entity it is at, the client port | request in turn, retry the bind, secure the port, sleep |
| Credential store | `store.rs` | three files per entity, their mode and owner | `store_entity_credentials`, `write_file` |
| Wire protocol | `codec.rs`, `wire.rs` | none | `send_json`, `recv_json` |
| Evaluators | `auth-scope-evaluator` (Rust, Go) | the claim of one certificate | verify, `can_call_rpc`, `can_access_path` |

How they interact: `main()` of the server runs the CA engine to its end, then
hands the CA, immutable from then on, to the listener. The listener spawns a
task per connection, which calls policy, signer and codec. The agent talks to
the server with one frame in each direction per connection, always from the
same client port, and writes what it gets. Both services are restarted by the
service manager whenever they end (`Restart = "always"`, `src/nix/modules`).
An evaluator meets the rest only through the two PEM files.

What is hard to test in it:

* **Crashes between system calls.** The CA and the credentials are several
  files, each created, filled, restricted and handed over by a call of its own,
  with no temporary file, rename or sync.
* **Two processes on the same files.** The CA is generated before the port is
  bound, so nothing keeps two servers from doing it at once.
* **Stale state.** The configuration and the CA are read once and used for the
  life of the process, while files change under it.
* **Clients that do nothing.** No read has a timeout, on either side, and no write:
  a client that does not read an answer larger than the socket's buffer keeps its
  handler.
* **Frames.** Lengths are announced, cut to 32 bits, limited to 4 MiB; bytes come
  in chunks and may stop anywhere.
* **Lengths of tokens.** The JWT is wrapped by a hand-written DER encoder and
  unwrapped by a hand-written decoder in one evaluator and a strict one in the
  other, from a certificate that a peer chose and whose signature neither checks.
* **Ages.** Agents ask once, the server may have a new CA at every start, and
  claims are not looked at for their date: guests hold credentials of different
  ages.
* **The client port.** It is bound anew for every request, may linger, and may
  be taken by someone else; two retry loops deal with that.
* **Dates.** The end of a certificate is computed in whole years from 2024.

`PROJECT.json` lists each hazard at its line with the properties that cover it.

What makes each component correct: the CA engine never serves a certificate with
another's key, never goes back to an older CA than one it served, and keeps the key
private; the server gives a certificate only to the guest that owns it, with exactly the
grants of its configuration, and answers everyone who reads; the agent reports as stored
only files that belong together, is not stopped by one failure, and ends up holding its
port; the codec delivers a frame whole or not at all and never hangs on one that is
there; the evaluators read back the claim that was signed, take nothing else for it, and
decide as it was meant; and in the whole system a guest accepts from another only what
was granted to it under the CA it trusts, and a guest that asks for what it may have
gets it.

## The modules

| Module | What it is |
|---|---|
| `CaLifecycle` | abstract: at most one complete CA on disk, which may be replaced beside a daemon that serves, and what a daemon comes to serve |
| `CaFiles` | the CA engine, system call by system call, with several processes and crashes |
| `CaFilesProofs` | proofs about `CaFiles`, and that it implements `CaLifecycle` |
| `Server` | the server process, its clients and connections, on top of `CaLifecycle` |
| `MCServer` | the guests, configurations and requests of the runs of `Server` |
| `ServerProofs` | proofs about `Server` |
| `Agent` | the agent, its files, its port, and what surrounds it |
| `MCAgent` | the entities of the run of `Agent` |
| `CredentialFiles` | abstract: what an agent does to the certificate and the CA file of one entity |
| `AgentProofs` | proofs about `Agent`, and that it implements `CredentialFiles` for each entity |
| `FrameDelivery` | abstract: a frame, whole or not at all |
| `Framing` | `send_json` and `recv_json`, chunk by chunk, over a socket |
| `MCFraming` | the frames of the run of `Framing` |
| `FramingProofs` | proofs about `Framing`, and that it implements `FrameDelivery` |
| `Evaluator` | the token, its DER wrapping, both evaluators and their decisions |
| `MCEvaluator` | the grants, calls, paths and token sizes of its runs |
| `EvaluatorProofs` | proofs about `Evaluator` |
| `AuthScope` | the composition: `Server`, guests with agents, strangers, callees |
| `MCAuthScope` | its guests, agents and policies, on those of `MCServer` |
| `AuthScopeProofs` | proofs about `AuthScope`, and that its agents implement `CredentialFiles` |

A definition marked `MUTANT of X` is a plausible mistake in the code that `X`
models. It takes no part in the specification. Putting it in X's place makes
the property named in `PROJECT.json` fail.

### CaFiles

`pc[p]` is where process `p` is in `main()`: `rmCert`, `rmKey`, `generate`,
`openCert`, `dataCert`, `openKey`, `dataKey`, `chmod` are the steps of `init()`;
`readCert`, `readKey`, `parse` those of `load()`; then `bind` and `serving`.
`fs::write` is two steps, since a process that dies after the open leaves a
truncated file. `main()` asks for `load()` or, with `--genkey`, for `init()` with
`idempotent = false`; the other form of `init()`, which the library offers, is a
third way to start. A key pair is a number and a certificate file is the number it
certifies; a truncated file exists and does not parse. `keyMode` is the
permission of the key file: a file that `open` creates gets the umask's, one
that it truncates keeps its own, and `set_mode_600` works on whatever is at the
path. `linked` says whether the file a process has open is still at its path:
another process may have unlinked it, and what is written then is lost. `Crash`
stands for a kill and for an exit on an error of any of the calls.

Generating the key, building the certificate and creating directories have no
effect others can see and are one step, `GenerateKey`. Loss of power, which may
reorder writes that were never synced, is not modelled.

### CaLifecycle and the refinement

`disk` is the complete CA on disk, `served` the one a daemon holds, `lastKey`
the last one generated. `CaFiles` maps to it by: `disk` is the pair that both
files hold, if they hold the same; `served` is the certificate of the process
that serves. `ImplementsLifecycle` says that every step of the files is a step
of the life cycle or leaves it alone, for any number of processes that are started
one at a time: one may be started, with `--genkey` too, beside one that serves, and
then replaces the files under it before it finds the port taken, but not beside one
that has yet to bind or end (`Overlap`), and removals succeed. A daemon that serves
goes on with the CA in its memory, so what it serves and what is on disk may differ,
and a restart goes on with what is on disk. `ServedNotOlder` says which way they
differ. With `Overlap` a `load()` may read its two files while an `init()` is between
writing them, and take a certificate and a key of different pairs: nothing in the code
keeps that from happening, and no property claims it does not. Of overlapping starts
the models show only what `QuiescentKeyMode` says of the key's permissions.

### Server

`cfgFile` is `host.json`, `cfg` what the running process read, `disk`, `served`
and `lastKey` the CA. `conn` holds the connections: where they are, the peer's
address as the kernel gives it, the frame the client sent, whether the client
has hung up, and the response. `Obstacle` is the first check that a frame fails
in the order of `handle_inner()`: frame, version, policy, CID, CSR, date. Its
two ways of answering, by itself and through the error path of
`handle_connection()`, both end in an error response (`Refuse`). A date beyond
9999 panics inside `rcgen::date_time_ymd`, which ends the task only (`Panic`).
`Leaf` is the certificate: subject and public key from the CSR, the claim from
the request and the policy, the end date by the arithmetic of `sign_csr()`.
Dates are days since 2024-01-01. Capabilities are opaque. Clients are
arbitrary. The CA files change under the running process (`CaStep`), which a second
process with `--genkey` does. The paths of the CA files are taken to stay the same
when `host.json` is edited.

`send_json` has no timeout. The answer to a frame in `Oversized` does not fit into the
socket: an error that quotes the request (`handler.rs:87`, or serde's in
`handler.rs:46`) or a long certificate. Its handler waits (`Stalled`) until the client
reads (`ReadReply`), hangs up or the process ends, possibly for ever. Other answers
complete by themselves (`Reply`).

### Agent

`pc` is where the agent is in `run_agent()`, `idx` and `fidx` the entity and the file it
is at, `file[e][f]` the content, mode and owner of each file, `done` the entities logged
as stored since the process started, `port` who holds the client port. The connection,
and the port with it, stays open until `request_cert()` returns, also while the files
are written. A closed port may linger, which ten retries of 100 ms outlast; `RivalBinds`
stands for another process that takes the port and for one that lingers longer.
`Refused`, `Outages`, `WriteErrors` and `BadMode` name the entities whose request may
fail, and how. A new key pair is a number that none of the entity's files holds; three
numbers are enough, since two files hold one each. The list of entities may be empty,
and its entries are told apart by where they are, so names may repeat. That no two
entries share a path is assumed: `config.rs` does not check it, and the configurations
in `config-examples` and `nix/checks` give each its own. Entries that share paths
overwrite each other's files, and `StoredIsUsable` then holds of the last one only.

The host is reduced to what the agent sees of it: a certificate for the key
sent, issued by its current CA, or a refusal, or the end of the connection.

### CredentialFiles and its two refinements

`CredentialFiles` keeps of one entity what an evaluator can meet: the contents of
the certificate and of the CA file, the `answer` that is being stored and the next
`step` of storing it. A file is torn (`NoCert`, `NoCa`) from its opening to its
writing, is given only what the answer brought, certificate first, and the agent may
stop between any two steps. Answers hold a certificate and the CA certificate that
issued it. `Agent` maps to it for each entity (`ImplementsCredentials`): the steps of
the key file, `chmod` and `chown` do not show, and an entity that is not the current
one is at rest. `AuthScope` maps to it for each guest (`AgentsKeepFiles`), where the
answer is what the real server put on the connection. So the coarse agent of
`AuthScope` does to the files what the detailed one does.

### Framing and FrameDelivery

One frame, one direction. `sent` and `read` count the bytes put on the stream and
taken off it; the header has four, the rest is the payload. `frame.announced` is
what the header says and `frame.size` what follows: `SendJson` gives what
`send_json` writes, with the length cut to the range of the header (`LenRange`,
2^32 in the code), and other peers may announce what they like. `frame.texts` are the
lengths of those beginnings of the payload that parse as the expected message; of what
`send_json` writes that is the whole only, since a message is an object. Whether the
announced bytes parse is for the receiver to find out (`Parses`). `Write` moves any
number of bytes that the socket has room for, `Read` any number that has arrived
and is wanted. The sender may close, or die, at any moment. The receiver is an agent,
which drops the stream on an error, or the handler, which answers first (`Answer`):
to a frame that is refused while its sender is still writing, that answer is short.
`Drop` ends a `write_all` that waits for room.

`FrameDelivery` says what is relied on elsewhere: a result only after the whole of
an acceptable frame was offered, an error only for one that is not acceptable or
was cut off. `Server` has frames whole or broken (`BadFrame`) because of it.

### Evaluator

A grant is what an administrator means: calls (VM, module, and a method or none for the
whole module) and paths with modes. `Capability` and `CapClaim` write it the way
`host.json` and `caps.rs` have it. A name is the sequence of its segments between dots,
so that joining module and method is concatenation, and two different pairs can meet;
the empty method that a callee may ask for is the one segment `""`, no method in a grant
is no segment. A token is its signer, its claim and the number of characters of its
payload; `EncodeDerLength` gives the bytes of the length field, `Decoded` reads them
back, `VerifyCapJwt` works on as many characters as that says. `FromCertPem` panics
where a Rust index or slice would (`lib.rs:67`, `76`, `81`); `NewEvaluator` refuses what
`asn1.Unmarshal` refuses, forms that are not minimal included. `ext` and `ca` are what
the two files hold, either of which may be missing or torn (`NoPem`), or of different
CAs.

Neither evaluator checks the signature of the certificate, so the extension need not
be what `sign_csr()` wrote: `Forms` are heads, contents and ends that a peer may make
or that are damaged, around a token that it was given or, under a key that is not the
CA's, one that it signed itself (`Claimed`). `LibrariesAgree` says what is left: only
what the CA at hand signed is accepted, the Rust evaluator reads what the Go one
accepts in the same way, and it panics where the Go one refuses, on an extension that
ends before the length it announces. The converse does not hold, and is not claimed:
the Rust one also takes a length that is not in its shortest form. Parsing of PEM and
X.509 is taken to succeed on a whole file.

### AuthScope

`Server` and, for each guest, an agent that is one of its clients: it starts with one of
the contents `agent.json` may have (`AgentStart`), dials from its CID and client port,
sends its request, waits, and stores the certificate and then the CA certificate in
`store[g]`, each torn (`AgentOpen`) before it is written. It asks once and then sleeps,
unless it dies and is started again. `AgentFault` is its death at any moment, or a write
that fails; it leaves the files as they are, one that was opened torn. Connections that
are not a guest's belong to strangers, who do what any client of `Server` may.
`Accepts(h, g)` is `from_cert_pem` in guest `h` on the certificate of guest `g`, with
tokens short of the limit that `Evaluator` finds. `inForce[k]` records the
configurations that were served under CA `k`; it is history and no step depends on it.

`Agent` has the detail of files, ports and retries, `AuthScope` the interaction with
the real server; what relates them is that both implement `CredentialFiles`. What
`Agent` assumes of its host is shown here: that an answer comes or the connection
breaks is `AgentsSettle`, that a certificate was issued by the CA sent along and that
nobody changes the answer while it is stored is part of `AgentsKeepFiles`.

## The runs

Passing runs:

| Run | Checks | Bounds | Shows |
|---|---|---|---|
| `ca_single` | `TypeOK`, `PairCoherent`, `ServedNotOlder`, `ImplementsLifecycle`, `EventuallyServing` | 2 processes started one at a time, 5 keys, 3 crashes | any mixture of starts, also beside a daemon that serves, and crashes leaves a daemon with a matching pair; no older one comes back to the files; `--genkey` recovers from whatever is left |
| `ca_two` | `QuiescentKeyMode` | 2 processes, overlapping, 4 keys, no crash | no interleaving of two servers leaves the key readable, removals that fail and the idempotent `init()` included |
| `server_issue` | `TypeOK`, `IssuedToOwner`, `ClaimIsPolicy` | 1 connection, 3 peers, 3 configurations, 7 requests, 3 CAs | every check, answers that fit and that do not, with edits, restarts and new CAs in between |
| `agent` | `TypeOK`, `StoredIsUsable`, `EventuallyAsleep`, `OthersStored`, `ImplementsCredentials` | 2 entities, 2 CAs, 1 rival, 2 crashes | what is reported as stored is usable; the agent ends up on its port; what goes wrong for one entity, or a crash, costs the other nothing; each entity's files change as `CredentialFiles` says |
| `framing` | `TypeOK`, `BoundedRead`, `ImplementsDelivery`, `ReaderReturns`, `ValueReceived`, `SenderReturns` | limit 4, header range 7, buffer 3, 34 frames, both receivers | every division into chunks, cut anywhere: whole or refused, and nobody hangs |
| `evaluator` | `ReadBack`, `LibrariesAgree`, `CallsAsGranted`, `PathsAsGranted` | 14 token lengths, 18 heads that `sign_csr()` does not write or that are cut, 2 CAs, grants of up to two calls or paths out of 16 and 8 | both evaluators read back what was signed, or refuse, whatever a peer presents, and decide as was meant |
| `authscope` | `AuthTypeOK`, `AcceptedWasGranted`, `AgentsKeepFiles` | 2 guests configured for the same VM, 2 policies, 2 CAs, 1 fault | what one guest accepts from the other was granted to it, whatever the ages of their files; no restart, new CA or other client changes an answer while it is stored |
| `authscope_live` | `AgentsSettle`, `Provisioned`, `RequestSettles`, `EntitledServed` | 1 guest and 1 stranger, 2 requests, 2 CAs, 1 fault | a stranger that idles, leaves its answer unread or makes its handler panic, and a server that ends, leave no agent waiting; a guest that may have a certificate gets it |

Why the bounds are enough: a crash matters through the files it leaves, and two
crashes reach every combination of old, torn and new files; a key for every
start that can end in a crash, one for the last and the one there at first keep
`GenerateKey` possible. A handler reads its own connection and
the immutable configuration and CA only, so one connection meets every safety
case, and two are needed only for one to hold up the other. Two entities give
one that comes after a failure and one after a success. In `framing` the constants
are small numbers in the order of the real ones (buffer below limit below range),
with frames at, one below and one above each of them; the proofs do without bounds.
The token lengths of `evaluator` are those where the encoding changes its form, and
the same beyond 65536, where it is cut; its other extensions have a length one too
long, one too short, in every longer form, and end in every part of the head. Two guests
in `authscope` are both configured for one VM, and two policies exchange their CIDs, so
that each is its owner under one of them and refused under the other.

Deadlock is not checked for `CaFiles`, `Agent`, `Framing` and `Evaluator`, which come
to rest when the daemon serves, the agent sleeps, the frame is dealt with or both
verdicts are there. `Server` and `AuthScope` are checked.

Runs that show a disagreement between the code and what is said of it:

| Run | What is violated | What the code does |
|---|---|---|
| `ca_key_mode` | `ServedKeyRestricted` | dies between `fs::write` and `set_mode_600`; the next start loads the key and leaves its mode |
| `ca_mismatch` | `PairCoherent` | a failed removal is ignored; after a crash a new certificate is beside the old key, and `load()` accepts the two |
| `server_validity` | `ValidForConfiguredDays` | ends on a 1 January counted from 2024, whenever it was signed |
| `claim_expiry` | `AcceptedUnexpired` | never compares the date with the claim's `exp`, in either evaluator |

More disagreements that the models show and no run is spent on:

* An entry of `paths` is compared with the path that is asked for as a whole
  (`CanAccessPath`; "Exact match for path", `lib.rs:118`), where
  `docs/server_configuration.md` has "List of path patterns and access rights" (line 48)
  and "Resource path pattern" (line 54). `PathsAsGranted` is stated for what the code
  means: an administrator who writes a pattern grants nothing but the path of that name.
* The handler answers a wrong CID with an error (`Refuse`, through the error path of
  `handle_connection()`), where a comment in `handler.rs` says it sends no response.
* `sign_csr()` takes the subject from the CSR and the claim from the request (`Leaf`)
  and compares them nowhere, where `signing.rs` says the entity "must match the CSR
  subject CN".
* `write_file()` finds out that a mode is not octal after it has written the file
  (`StoreFails`), so that a key can stay with default permissions, where `README.md`
  says it has the configured mode.
* The agent gives its client port up between requests (`PortClosed`, `RivalBinds`),
  where `docs/design.md` has it secured from the start of the boot.
* It never repeats a request that failed (`Failed`), where its `main.rs` has
  certificates for every entity; `docs/design.md` calls this one-shot, so it is meant.

Two things that are no disagreement but worth knowing. `CallsAsGranted` is stated for
method names without a dot: a grant of method `b.c` of module `a` is also one of method
`c` of module `a.b`, since both are written `a.b.c`. And a service that is restarted
with `--genkey` in its command line has a new CA each time, while agents that sleep keep
the certificates of the old one: `AcceptedWasGranted` holds because such guests refuse
each other, and `Provisioned` promises only the CA that was served when it was asked for.

### Fairness

* `CaFiles!FairSpec`: weak fairness of each process's steps and of its start.
  A running process is scheduled; the service manager restarts it.
* `Agent!FairSpec`: weak fairness of the agent's steps (scheduling and restart;
  that the host answers or the connection breaks is what `RequestSettles` shows
  of the server), and of `LingerEnds` and `RivalLeaves`: no closed port is kept
  for ever, and no other process keeps it for ever. Without the latter the
  agent restarts for ever, which is what the code means to do.
* `Framing!FairSpec`: weak fairness of the sender's steps and of the receiver's. Both
  are tasks that are polled when the socket is ready. Nobody has to close, so a peer
  that announces more than it sends keeps the receiver waiting, and no property says
  otherwise.
* `AuthScope!AuthFairSpec`: weak fairness of accepting and of the handler, per
  connection (the runtime polls every task that can go on), of each agent's steps, its
  restart and its reading included, and of forgetting a closed connection. The server's
  process may end and stay away, its administrator and strangers owe nothing: not to
  send, and not to read an answer. What `RequestSettles` leaves to a client is its own
  connection only.

## The proofs

`tlapm` checks `CaFilesProofs`, `ServerProofs`, `AgentProofs`, `FramingProofs`,
`EvaluatorProofs` and `AuthScopeProofs` to the last leaf. All theorems hold for every
value of the constants that the named assumptions allow. Together they state every
invariant and every refinement that a passing run checks.

* **CaFilesProofs** has three parts, for different worlds.
  - Any number of processes, started in any mode, with removals that may fail:
    `QuiescentKeyMode` says nothing about moments at which a process is in `init()`, so
    it is not inductive. `KeyGuarded` is: while no process has died, a key file that
    others may read is on the way of some process to its `set_mode_600`, which works on
    whatever is at the path. From it follow `KeyRestrictedUntilCrash` and, where nothing
    dies, `KeyRestricted`. After a crash the property fails, which `ca_key_mode` shows.
  - `OneProcess`, with failing removals and the idempotent `init()`: until its first
    crash the process starts from two files of one pair, or none, and is never cut off
    between them (`Unbroken`). So the pair it serves is coherent, on disk and restricted
    (`UntilFirstCrash`): both findings about the CA files need a crash.
  - `OneStart`: any number of processes, started one at a time but also beside one that
    serves, removals that succeed, the `init()` that `main()` calls (not idempotent), any
    number of crashes. `PairCoherent` and `ServedNotOlder` are not inductive: `load()`
    compares nothing, so what it reads must already match. The inductive invariant says
    that at most one process is starting and at most one serves, that at every point of
    `main()` two complete files are of the same pair (`Paired`: from the removal of the
    key to its rewriting there is no complete key), that whatever the starting process
    has read or generated is what the files hold (`Progress`), and that no file is
    older than what is served (`Recent`). From it follow `CoherentPair`, `NotOlder` and,
    step by step, `LifecycleImplemented`.
* **ServerProofs** has no assumption beyond the types of the constants. The
  inductive invariant adds to the properties that a connection that is
  being handled or answered comes from the agents' port under the configuration
  in force, and that a certificate on its way is the one `OkResponse` gives for the
  frame, the configuration in force and the CA in memory. It is kept because `Exit`
  resets every live connection and neither configuration nor CA in memory changes
  before it. From it follow `OwnersOnly` and `PolicyGranted`.
  `CertificatesEndEarly` says how far the finding of `server_validity` reaches: a
  certificate for `n` years, `n` at least 1, that is signed more than `(n + 3) / 4` days
  after 2024-01-01 ends before the claim in it.
* **AgentProofs** likewise, for every list of entities, the empty one too.
  `StoredIsUsable` speaks of entities already reported, so the invariant says that the
  entities from the current one on have not been reported (`Pending`: nothing overwrites
  the files of a reported one), how far the current store is (`Stage`: files before the
  current one are complete and are what this request gives them), and that a CA file
  names no key (`NoCaKey`: an unused number is left for a new key pair). From it follow
  `TypeCorrect` and `StoredUsable`. For `CredentialsImplemented` each step is mapped to
  one of `CredentialFiles`, or to none, for the current entity and to none for the
  others; that an answer is one of `Answers` takes `HasKeyPair`, since the certificate
  is for the key pair made before the request.
* **FramingProofs** assumes the types of the frames and that the limit is below the
  range of the header. The inductive invariant adds how far `recv_json` may have read
  in each of its states: up to the header until the length was checked, up to the
  announced length after, a payload state only within the limit, and a value only of
  announced bytes that parse. With it each step
  maps to a step of `FrameDelivery` or to none (`DeliveryImplemented`).
* **EvaluatorProofs** assumes that names are strings and that a callee asks for a
  method. The length field is decoded by a recursive function. Of what `sign_csr()`
  writes only its first three values are needed, since no more than two length bytes are
  written (`DecodedIs`). A peer may announce up to 127 of them: that the loop then
  yields a number is shown from a least length for which it would not (`DecodedNat`, on
  `LeastNat`). `RoundTrip` says that unwrapping gives back the length of a token up to
  65535 and less than it beyond; `VerifiesWhole` that a token verifies exactly under its
  signer's key and in full length. The invariant is that a verdict is the one these two
  give, whence `ReadsBack`. For any other extension `OnlySigned` needs that a token
  verifies in no other length than its own: the two decoders differ only in lengths that
  the one refuses and in ones beyond the end (`GoThenRust`, `PanicIsCut`).
  `OnlyGrantedCalls` needs that `module.method` determines its two parts, which holds
  for a method of one segment (`JoinInjective`); `OnlyGrantedPaths` needs no condition.
* **AuthScopeProofs** builds on `ServerProofs`. First, every step of an agent is a step
  of a client of `Server` (`AuthStepIsServerStep`), so `Server`'s invariant holds of the
  composition. Then `AcceptedWasGranted`, which is about files, is
  followed back to where they come from: what is stored was received on the guest's own
  connection (`HasAnswer`; nobody else clears a connection whose agent is there,
  `Present`), what was received was on its way before (`AnswerOrigin`), and what is on
  its way is what the configuration in force grants to the CID of the connection
  (`ReplyGranted`), which is the guest's (`OwnConn`) and on record under the CA that is
  served (`Recorded`). The record only grows, so it stays granted. `FilesKept` needs two
  facts more: the CA certificate of an answer issued its certificate (`AnswerChained`),
  and an answer stays on its connection as it is while its agent stores it (`AnswerKept`).

Only model-checked: everything temporal under fairness (`EventuallyServing`,
`RequestSettles`, `EntitledServed`, `EventuallyAsleep`, `OthersStored`, `ReaderReturns`,
`ValueReceived`, `SenderReturns`, `AgentsSettle`, `Provisioned`), which is beyond the
proof system. What a recursive function computes for every input is beyond it too, apart
from what a least counterexample gives, as for `DecodedNat`.

## Not modelled

* Cryptography: signatures hold, keys are distinct.
* In `AuthScope`, a guest that presents another's certificate, or puts another's token
  into a certificate of its own: guests present what their agent stored, and the code
  ties a token to nothing but its signer. `Evaluator` has such certificates.
* A `load()` beside an `init()` of another process that is starting, other than in what
  `QuiescentKeyMode` says.
* Loss of power, reordered or partial disk writes within one call.
* Argument parsing, the check for root, logging, packaging (nix), test drivers.
* Parsing of PEM, X.509 and JSON, beyond its success or failure.
* An error of `accept()`, which is logged and leaves everything as it is.
* TLS and certificate pinning, which `README.md` and comments describe and the
  code does not have.

## Plan

Two links between modules are still made in prose. `AuthScope!Accepts` has tokens short
of the limit of `Evaluator`; a verdict of `Evaluator` on such a token could be shown to be
what `Accepts` says. And as long as no agent fails, the two files of a guest at rest are of
one answer: an invariant of `CredentialFiles` without `Abandon`, which both refinements
would pass on.
