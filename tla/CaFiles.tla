------------------------------ MODULE CaFiles ------------------------------
(***************************************************************************)
(* CertificateAuthority::init and ::load (auth-scope-ca/src/ca.rs) as the  *)
(* server's main() runs them before it binds its listener: two PEM files   *)
(* that are removed, truncated and written one system call at a time, by   *)
(* processes that may die between any two of them.                         *)
(*                                                                         *)
(* A key pair is a number; the certificate file is identified with the key *)
(* pair it certifies.  A file that was truncated and not yet written is    *)
(* "torn": it exists, and neither PEM parser accepts it.                   *)
(***************************************************************************)
EXTENDS Integers, FiniteSets

CONSTANTS
    Procs,          \* server processes that may run on the host
    StartModes,     \* how the CA may be obtained when one is started
    Overlap,        \* may one be started while another has yet to bind or end?
    RemoveMayFail,  \* may remove_file fail (its result is discarded)?
    Preinstalled,   \* is a complete CA, key pair 1, on disk at first?
    MaxKeys,        \* bound: key pairs generated
    MaxCrashes      \* bound: processes that die or exit on an I/O error

ASSUME CaFilesAssumption ==
    /\ StartModes \subseteq {"load", "genkey", "idempotent"}
    /\ Overlap \in BOOLEAN
    /\ RemoveMayFail \in BOOLEAN
    /\ Preinstalled \in BOOLEAN
    /\ MaxKeys \in Nat \ {0}
    /\ MaxCrashes \in Nat

VARIABLES
    certFile,   \* ca_cert_path
    keyFile,    \* ca_key_path
    keyMode,    \* permission bits of ca_key_path
    pc,         \* where each process is in main()
    new,        \* the key pair a process has generated in init()
    ca,         \* the CertificateAuthority a process has assembled
    linked,     \* is the file a process has open for writing still at its path?
    lastKey,    \* the last key pair generated
    crashes     \* processes that died so far

files == <<certFile, keyFile, keyMode>>
vars == <<certFile, keyFile, keyMode, pc, new, ca, linked, lastKey, crashes>>

Absent == [st |-> "absent", key |-> 0]
Torn == [st |-> "torn", key |-> 0]
Whole(k) == [st |-> "whole", key |-> k]
Content == {Absent, Torn} \cup {Whole(k) : k \in 1..MaxKeys}

NoCa == [cert |-> 0, key |-> 0]

PCs == {"down", "rmCert", "rmKey", "generate", "openCert", "dataCert",
        "openKey", "dataKey", "chmod", "readCert", "readKey", "parse",
        "bind", "serving"}

TypeOK ==
    /\ certFile \in Content
    /\ keyFile \in Content
    /\ keyMode \in {"none", "umask", "0600"}
    /\ pc \in [Procs -> PCs]
    /\ new \in [Procs -> 0..MaxKeys]
    /\ ca \in [Procs -> [cert : 0..MaxKeys, key : 0..MaxKeys]]
    /\ linked \in [Procs -> BOOLEAN]
    /\ lastKey \in 0..MaxKeys
    /\ crashes \in 0..MaxCrashes

Init ==
    /\ certFile = IF Preinstalled THEN Whole(1) ELSE Absent
    /\ keyFile = IF Preinstalled THEN Whole(1) ELSE Absent
    /\ keyMode = IF Preinstalled THEN "0600" ELSE "none"
    /\ pc = [p \in Procs |-> "down"]
    /\ new = [p \in Procs |-> 0]
    /\ ca = [p \in Procs |-> NoCa]
    /\ linked = [p \in Procs |-> FALSE]
    /\ lastKey = IF Preinstalled THEN 1 ELSE 0
    /\ crashes = 0

-----------------------------------------------------------------------------
(* main() chooses between init and load. *)

Exists(f) == f.st # "absent"

\* main() loads the CA or, with --genkey, runs init() with idempotent = false.
\* With idempotent = true, which the library offers, init() leaves the files
\* alone when both are there, and removes nothing when one is.
FirstStep(mode) ==
    CASE mode = "load" -> "readCert"
      [] mode = "genkey" -> "rmCert"
      [] mode = "idempotent" ->
            IF Exists(certFile) /\ Exists(keyFile) THEN "readCert" ELSE "generate"

Goto(p, l) == pc' = [pc EXCEPT ![p] = l]

\* A process that is neither down nor past its bind().
Starting(p) == pc[p] \notin {"down", "serving"}

\* A daemon may be started beside one that serves; only if Overlap, also
\* beside one that is still starting.  Within the bound, generation is left
\* to starts that still find a key pair.
Start(p) ==
    /\ pc[p] = "down"
    /\ Overlap \/ \A q \in Procs : ~Starting(q)
    /\ \E mode \in StartModes :
          /\ FirstStep(mode) = "readCert" \/ lastKey < MaxKeys
          /\ Goto(p, FirstStep(mode))
    /\ UNCHANGED <<files, new, ca, linked, lastKey, crashes>>

-----------------------------------------------------------------------------
(* init(): remove, generate, write, restrict. *)

\* A removed file stays open in the processes that were writing it; what
\* they write from then on is at no path.
Unlink(f, at) ==
    linked' = [q \in Procs |-> linked[q] /\ ~(Exists(f) /\ pc[q] = at)]

\* MUTANT of RemoveCert: a certificate that is not there ends init().
RemoveCertRequired(p) ==
    /\ pc[p] = "rmCert"
    /\ certFile' = Absent
    /\ Unlink(certFile, "dataCert")
    /\ Goto(p, IF Exists(certFile) THEN "rmKey" ELSE "down")
    /\ UNCHANGED <<keyFile, keyMode, new, ca, lastKey, crashes>>

RemoveCert(p) ==
    /\ pc[p] = "rmCert"
    /\ \/ /\ certFile' = Absent
          /\ Unlink(certFile, "dataCert")
       \/ /\ RemoveMayFail
          /\ UNCHANGED <<certFile, linked>>
    /\ Goto(p, "rmKey")
    /\ UNCHANGED <<keyFile, keyMode, new, ca, lastKey, crashes>>

\* MUTANT of RemoveKey: the files are written before a key pair is generated.
RemoveKeyThenWrite(p) ==
    /\ pc[p] = "rmKey"
    /\ keyFile' = Absent
    /\ keyMode' = "none"
    /\ Unlink(keyFile, "dataKey")
    /\ Goto(p, "openCert")
    /\ UNCHANGED <<certFile, new, ca, lastKey, crashes>>

\* MUTANT of RemoveKey: the old key is left for the write to replace.
RemoveKeySkipped(p) ==
    /\ pc[p] = "rmKey"
    /\ Goto(p, "generate")
    /\ UNCHANGED <<files, new, ca, linked, lastKey, crashes>>

RemoveKey(p) ==
    /\ pc[p] = "rmKey"
    /\ \/ /\ keyFile' = Absent
          /\ keyMode' = "none"
          /\ Unlink(keyFile, "dataKey")
       \/ /\ RemoveMayFail
          /\ UNCHANGED <<keyFile, keyMode, linked>>
    /\ Goto(p, "generate")
    /\ UNCHANGED <<certFile, new, ca, lastKey, crashes>>

GenerateKey(p) ==
    /\ pc[p] = "generate"
    /\ lastKey < MaxKeys
    /\ lastKey' = lastKey + 1
    /\ new' = [new EXCEPT ![p] = lastKey + 1]
    /\ Goto(p, "openCert")
    /\ UNCHANGED <<files, ca, linked, crashes>>

\* fs::write is an open that creates or truncates, then the data.
OpenCert(p) ==
    /\ pc[p] = "openCert"
    /\ certFile' = Torn
    /\ linked' = [linked EXCEPT ![p] = TRUE]
    /\ Goto(p, "dataCert")
    /\ UNCHANGED <<keyFile, keyMode, new, ca, lastKey, crashes>>

DataCert(p) ==
    /\ pc[p] = "dataCert"
    /\ certFile' = IF linked[p] THEN Whole(new[p]) ELSE certFile
    /\ linked' = [linked EXCEPT ![p] = FALSE]
    /\ Goto(p, "openKey")
    /\ UNCHANGED <<keyFile, keyMode, new, ca, lastKey, crashes>>

\* A file that open creates gets the process's default permissions; one that
\* it truncates keeps its own.
OpenKey(p) ==
    /\ pc[p] = "openKey"
    /\ keyFile' = Torn
    /\ keyMode' = IF Exists(keyFile) THEN keyMode ELSE "umask"
    /\ linked' = [linked EXCEPT ![p] = TRUE]
    /\ Goto(p, "dataKey")
    /\ UNCHANGED <<certFile, new, ca, lastKey, crashes>>

\* MUTANT of DataKey: the key written is not the one certified.
DataKeyStale(p) ==
    /\ pc[p] = "dataKey"
    /\ keyFile' = IF linked[p] THEN Whole(1) ELSE keyFile
    /\ linked' = [linked EXCEPT ![p] = FALSE]
    /\ Goto(p, "chmod")
    /\ UNCHANGED <<certFile, keyMode, new, ca, lastKey, crashes>>

DataKey(p) ==
    /\ pc[p] = "dataKey"
    /\ keyFile' = IF linked[p] THEN Whole(new[p]) ELSE keyFile
    /\ linked' = [linked EXCEPT ![p] = FALSE]
    /\ Goto(p, "chmod")
    /\ UNCHANGED <<certFile, keyMode, new, ca, lastKey, crashes>>

\* The CA that init() returns is the one it generated, not what the files hold.
Assembled(p) == ca' = [ca EXCEPT ![p] = [cert |-> new[p], key |-> new[p]]]

\* MUTANT of Chmod: set_mode_600 is not called.
ChmodSkipped(p) ==
    /\ pc[p] = "chmod"
    /\ Assembled(p)
    /\ Goto(p, "bind")
    /\ UNCHANGED <<files, new, linked, lastKey, crashes>>

\* set_mode_600 works on the path: without a file there init() fails.
Chmod(p) ==
    /\ pc[p] = "chmod"
    /\ IF Exists(keyFile)
       THEN /\ keyMode' = "0600"
            /\ Assembled(p)
            /\ Goto(p, "bind")
       ELSE /\ Goto(p, "down")
            /\ UNCHANGED <<keyMode, ca>>
    /\ UNCHANGED <<certFile, keyFile, new, linked, lastKey, crashes>>

-----------------------------------------------------------------------------
(* load(): read both files, then parse them. *)

\* A missing file ends the process; a torn one is read as text that only the
\* parsers reject (0).
ReadCert(p) ==
    /\ pc[p] = "readCert"
    /\ Goto(p, IF Exists(certFile) THEN "readKey" ELSE "down")
    /\ ca' = [ca EXCEPT ![p].cert = certFile.key]
    /\ UNCHANGED <<files, new, linked, lastKey, crashes>>

ReadKey(p) ==
    /\ pc[p] = "readKey"
    /\ Goto(p, IF Exists(keyFile) THEN "parse" ELSE "down")
    /\ ca' = [ca EXCEPT ![p].key = keyFile.key]
    /\ UNCHANGED <<files, new, linked, lastKey, crashes>>

\* load() parses each file by itself; it never compares the two.
Parses(c) == c.key # 0 /\ c.cert # 0

\* MUTANT of Parse: what was read is taken as it is.
ParseUnchecked(p) ==
    /\ pc[p] = "parse"
    /\ Goto(p, "bind")
    /\ UNCHANGED <<files, new, ca, linked, lastKey, crashes>>

Parse(p) ==
    /\ pc[p] = "parse"
    /\ Goto(p, IF Parses(ca[p]) THEN "bind" ELSE "down")
    /\ UNCHANGED <<files, new, ca, linked, lastKey, crashes>>

-----------------------------------------------------------------------------
(* run_listener() binds the vsock port; a port in use ends the process. *)

Serving(p) == pc[p] = "serving"

Bind(p) ==
    /\ pc[p] = "bind"
    /\ Goto(p, IF \E q \in Procs : Serving(q) THEN "down" ELSE "serving")
    /\ UNCHANGED <<files, new, ca, linked, lastKey, crashes>>

\* The process is killed, or exits because a system call failed.
Crash(p) ==
    /\ pc[p] # "down"
    /\ crashes < MaxCrashes
    /\ crashes' = crashes + 1
    /\ Goto(p, "down")
    /\ UNCHANGED <<files, new, ca, linked, lastKey>>

\* One step of main() in a process that is running.
Step(p) ==
    \/ RemoveCert(p) \/ RemoveKey(p) \/ GenerateKey(p)
    \/ OpenCert(p) \/ DataCert(p) \/ OpenKey(p) \/ DataKey(p) \/ Chmod(p)
    \/ ReadCert(p) \/ ReadKey(p) \/ Parse(p) \/ Bind(p)

Next == \E p \in Procs : Start(p) \/ Step(p) \/ Crash(p)

Spec == Init /\ [][Next]_vars

\* A running process is scheduled, and the service manager starts it again
\* whenever it has ended (Restart = "always").
FairSpec == Spec /\ \A p \in Procs : WF_vars(Start(p)) /\ WF_vars(Step(p))

-----------------------------------------------------------------------------
(* Properties *)

\* A daemon that is about to bind, or serves, signs with the key that its
\* certificate certifies: rcgen_cert() re-signs the certificate "with the
\* loaded key, producing an object with identical DN and key" (ca.rs).  load()
\* reads the two files one after the other and never compares them, so this
\* rests on init() removing both files first.
PairCoherent ==
    \A p \in Procs : pc[p] \in {"bind", "serving"} =>
        ca[p].key # 0 /\ ca[p].cert = ca[p].key

\* The CA that a daemon serves, returned by init() from memory or read by
\* load(), is the one in both files, as long as no other process is started.
ServingMatchesDisk ==
    \A p \in Procs : Serving(p) =>
        certFile = Whole(ca[p].cert) /\ keyFile = Whole(ca[p].key)

\* A second process with --genkey replaces the files under a daemon that goes
\* on serving from memory, and finds the port taken only then.  Whatever it,
\* and the crashes, leave there is never older than what is being served: a
\* restart does not go back behind a CA that guests have already been given.
ServedNotOlder ==
    \A p \in Procs : Serving(p) =>
        \A f \in {certFile, keyFile} : f.st = "whole" => f.key >= ca[p].key

\* When every process has ended or serves, a complete CA key is readable by
\* root only, whatever the interleaving of the processes that wrote, removed
\* and restricted it (set_mode_600 works on the path, not on the open file).
QuiescentKeyMode ==
    (\A p \in Procs : pc[p] \in {"down", "serving"}) /\ keyFile.st = "whole"
        => keyMode = "0600"

\* No daemon serves from a complete CA key file that others may read.
ServedKeyRestricted ==
    (\E p \in Procs : Serving(p)) /\ keyFile.st = "whole" => keyMode = "0600"

\* The CA on disk: the pair both files agree on.
CompleteCa == IF certFile = keyFile THEN certFile.key ELSE 0

\* Once crashes stop, a daemon ends up serving for good, whatever files the
\* crashes left behind: init() recovers from any of them, and load() serves
\* a complete CA.  The one excuse is a service that is started without
\* --genkey, again and again, on files that hold no complete CA.
EventuallyServing ==
    \/ <>[](\E p \in Procs : Serving(p))
    \/ []<>(\E p \in Procs : pc[p] = "readCert" /\ CompleteCa = 0)

\* The refinement mapping: the CA served is the certificate that the serving
\* process hands out.
ServedCa ==
    IF \E p \in Procs : Serving(p)
    THEN ca[CHOOSE p \in Procs : Serving(p)].cert
    ELSE 0

Lifecycle == INSTANCE CaLifecycle
    WITH disk <- CompleteCa, served <- ServedCa, lastKey <- lastKey

\* The file-by-file CA engine implements the life cycle the server relies on:
\* a complete CA on disk always is a pair, the last one generated whenever it
\* is new, and a daemon comes to serve exactly that.  It holds for processes
\* that are started one at a time, beside at most one that serves, whose
\* removals succeed and which use init() as main() does; with Overlap a load()
\* may read the two files of different pairs.
ImplementsLifecycle == Lifecycle!CaSpec

=============================================================================
