--------------------------- MODULE CaFilesProofs ---------------------------
(***************************************************************************)
(* What CaFiles checks on small instances, proved for every value of its   *)
(* constants: types; that a key is restricted while no process dies, for   *)
(* any number of processes; for one process the coherence of the CA that   *)
(* is served whatever fails, until it dies; and for any number of them,    *)
(* crashes included, that are started one at a time, the coherence and age *)
(* of the CA that is served and the implementation of CaLifecycle.         *)
(***************************************************************************)
EXTENDS CaFiles, TLAPS

\* Between its key generation and its chmod, init() has a key pair.
HasKey ==
    \A p \in Procs :
        pc[p] \in {"openCert", "dataCert", "openKey", "dataKey", "chmod"}
            => new[p] # 0

TypeInv == TypeOK /\ HasKey

\* The key pairs a file may name, and those the parsers read from it.
LEMMA ContentFacts ==
    /\ Absent \in Content /\ Torn \in Content
    /\ \A k \in 1..MaxKeys : Whole(k) \in Content
    /\ \A f \in Content :
          /\ f.key \in 0..MaxKeys
          /\ f.st = "whole" <=> f.key # 0
          /\ f.st = "whole" <=> f = Whole(f.key)
          /\ f.st \in {"absent", "torn", "whole"}
          /\ f.st = "absent" <=> f = Absent
          /\ f.st = "torn" <=> f = Torn
<1>1. /\ Absent \in Content /\ Torn \in Content
      /\ \A k \in 1..MaxKeys : Whole(k) \in Content
  BY DEF Content
<1>2. ASSUME NEW f \in Content
      PROVE  /\ f.key \in 0..MaxKeys
             /\ f.st = "whole" <=> f.key # 0
             /\ f.st = "whole" <=> f = Whole(f.key)
             /\ f.st \in {"absent", "torn", "whole"}
             /\ f.st = "absent" <=> f = Absent
             /\ f.st = "torn" <=> f = Torn
  <2>1. CASE f = Absent
    BY <2>1, CaFilesAssumption DEF Absent, Torn, Whole
  <2>2. CASE f = Torn
    BY <2>2, CaFilesAssumption DEF Absent, Torn, Whole
  <2>3. ASSUME NEW k \in 1..MaxKeys, f = Whole(k)
        PROVE  /\ f.key = k /\ f.st = "whole"
               /\ f = Whole(f.key) /\ f # Absent /\ f # Torn
    BY <2>3 DEF Absent, Torn, Whole
  <2> QED
    BY <2>1, <2>2, <2>3, CaFilesAssumption DEF Content
<1> QED
  BY <1>1, <1>2

\* A file holds a key pair exactly if it is complete.
LEMMA FileKeys ==
    /\ Absent.key = 0 /\ Torn.key = 0 /\ Absent # Torn
    /\ \A k : Whole(k).key = k /\ Whole(k) # Absent /\ Whole(k) # Torn
BY DEF Absent, Torn, Whole

\* main() begins with a removal, a generation or a read; only the idempotent
\* form of init() generates without a removal.
LEMMA FirstSteps ==
    ASSUME NEW mode \in StartModes
    PROVE  /\ FirstStep(mode) \in {"readCert", "rmCert", "generate"}
           /\ mode # "idempotent" => FirstStep(mode) \in {"readCert", "rmCert"}
<1>1. mode \in {"load", "genkey", "idempotent"}
  BY CaFilesAssumption
<1>2. CASE mode = "load"
  BY <1>2 DEF FirstStep
<1>3. CASE mode = "genkey"
  BY <1>3 DEF FirstStep
<1>4. CASE mode = "idempotent"
  BY <1>4 DEF FirstStep
<1> QED
  BY <1>1, <1>2, <1>3, <1>4

LEMMA TypeInit == Init => TypeInv
BY ContentFacts, CaFilesAssumption
   DEF Init, TypeInv, TypeOK, HasKey, PCs, NoCa

\* Every step of main() keeps the types.
LEMMA TypeStep == TypeInv /\ [Next]_vars => TypeInv'
<1> SUFFICES ASSUME TypeInv, [Next]_vars PROVE TypeInv'
  OBVIOUS
<1>1. CASE UNCHANGED vars
  BY <1>1 DEF TypeInv, TypeOK, HasKey, vars
<1>2. ASSUME NEW p \in Procs, Start(p) PROVE TypeInv'
  BY <1>2, FirstSteps DEF TypeInv, TypeOK, HasKey, PCs, Start, Goto, files
<1>3. ASSUME NEW p \in Procs, Crash(p) PROVE TypeInv'
  BY <1>3, CaFilesAssumption DEF TypeInv, TypeOK, HasKey, PCs, Crash, Goto, files
<1>4. ASSUME NEW p \in Procs, RemoveCert(p) PROVE TypeInv'
  BY <1>4, ContentFacts
     DEF TypeInv, TypeOK, HasKey, PCs, RemoveCert, Goto, Unlink
<1>5. ASSUME NEW p \in Procs, RemoveKey(p) PROVE TypeInv'
  BY <1>5, ContentFacts
     DEF TypeInv, TypeOK, HasKey, PCs, RemoveKey, Goto, Unlink
<1>6. ASSUME NEW p \in Procs, GenerateKey(p) PROVE TypeInv'
  BY <1>6, CaFilesAssumption
     DEF TypeInv, TypeOK, HasKey, PCs, GenerateKey, Goto, files
<1>7. ASSUME NEW p \in Procs, OpenCert(p) PROVE TypeInv'
  BY <1>7, ContentFacts DEF TypeInv, TypeOK, HasKey, PCs, OpenCert, Goto
<1>8. ASSUME NEW p \in Procs, DataCert(p) PROVE TypeInv'
  <2>1. new[p] \in 1..MaxKeys
    BY <1>8, CaFilesAssumption DEF TypeInv, TypeOK, HasKey, DataCert
  <2> QED
    BY <1>8, <2>1, ContentFacts DEF TypeInv, TypeOK, HasKey, PCs, DataCert, Goto
<1>9. ASSUME NEW p \in Procs, OpenKey(p) PROVE TypeInv'
  BY <1>9, ContentFacts DEF TypeInv, TypeOK, HasKey, PCs, OpenKey, Goto
<1>10. ASSUME NEW p \in Procs, DataKey(p) PROVE TypeInv'
  <2>1. new[p] \in 1..MaxKeys
    BY <1>10, CaFilesAssumption DEF TypeInv, TypeOK, HasKey, DataKey
  <2> QED
    BY <1>10, <2>1, ContentFacts DEF TypeInv, TypeOK, HasKey, PCs, DataKey, Goto
<1>11. ASSUME NEW p \in Procs, Chmod(p) PROVE TypeInv'
  BY <1>11 DEF TypeInv, TypeOK, HasKey, PCs, Chmod, Goto, Assembled
<1>12. ASSUME NEW p \in Procs, ReadCert(p) PROVE TypeInv'
  BY <1>12, ContentFacts DEF TypeInv, TypeOK, HasKey, PCs, ReadCert, Goto, files
<1>13. ASSUME NEW p \in Procs, ReadKey(p) PROVE TypeInv'
  BY <1>13, ContentFacts DEF TypeInv, TypeOK, HasKey, PCs, ReadKey, Goto, files
<1>14. ASSUME NEW p \in Procs, Parse(p) PROVE TypeInv'
  BY <1>14 DEF TypeInv, TypeOK, HasKey, PCs, Parse, Goto, files
<1>15. ASSUME NEW p \in Procs, Bind(p) PROVE TypeInv'
  BY <1>15 DEF TypeInv, TypeOK, HasKey, PCs, Bind, Goto, files
<1> QED
  BY <1>1, <1>2, <1>3, <1>4, <1>5, <1>6, <1>7, <1>8, <1>9, <1>10, <1>11,
     <1>12, <1>13, <1>14, <1>15 DEF Next, Step

\* The permission bits and contents that init() and load() leave are of their
\* types whatever the processes do.
THEOREM TypeCorrect == Spec => []TypeOK
<1>1. TypeInv => TypeOK
  BY DEF TypeInv
<1> QED
  BY TypeInit, TypeStep, <1>1, PTL DEF Spec

-----------------------------------------------------------------------------
(* Any number of processes, any way to start them *)

\* Until a process dies, a key file that others may read belongs to an init()
\* which is still to come to its set_mode_600.
KeyGuarded ==
    crashes = 0 /\ Exists(keyFile) /\ keyMode # "0600"
        => \E p \in Procs : pc[p] \in {"dataKey", "chmod"}

GuardInv == TypeInv /\ KeyGuarded

\* A step that neither touches the key file nor ends p's way to its chmod.
LEMMA GuardKept ==
    ASSUME GuardInv, NEW p \in Procs, NEW l,
           pc[p] \notin {"dataKey", "chmod"}, pc' = [pc EXCEPT ![p] = l],
           UNCHANGED <<keyFile, keyMode, crashes>>
    PROVE  KeyGuarded'
<1> SUFFICES ASSUME crashes = 0, Exists(keyFile), keyMode # "0600"
             PROVE  \E q \in Procs : pc'[q] \in {"dataKey", "chmod"}
  BY DEF KeyGuarded, Exists
<1>1. PICK q \in Procs : pc[q] \in {"dataKey", "chmod"}
  BY DEF GuardInv, KeyGuarded
<1>2. q # p
  BY <1>1
<1> QED
  BY <1>1, <1>2 DEF GuardInv, TypeInv, TypeOK

LEMMA GuardStep == GuardInv /\ [Next]_vars => GuardInv'
<1> SUFFICES ASSUME GuardInv, [Next]_vars PROVE KeyGuarded'
  BY TypeStep DEF GuardInv
<1>1. CASE UNCHANGED vars
  BY <1>1 DEF GuardInv, KeyGuarded, Exists, vars
<1>2. ASSUME NEW p \in Procs, Start(p) PROVE KeyGuarded'
  <2>1. PICK mode \in StartModes : Goto(p, FirstStep(mode))
    BY <1>2 DEF Start
  <2> QED
    BY <1>2, <2>1, GuardKept DEF Start, Goto, files
<1>3. ASSUME NEW p \in Procs, Crash(p) PROVE KeyGuarded'
  BY <1>3 DEF GuardInv, TypeInv, TypeOK, KeyGuarded, Crash
<1>4. ASSUME NEW p \in Procs, RemoveCert(p) PROVE KeyGuarded'
  BY <1>4, GuardKept DEF RemoveCert, Goto
<1>5. ASSUME NEW p \in Procs, RemoveKey(p) PROVE KeyGuarded'
  <2>1. CASE keyFile' = Absent
    BY <2>1 DEF KeyGuarded, Exists, Absent
  <2>2. CASE UNCHANGED <<keyFile, keyMode>>
    BY <1>5, <2>2, GuardKept DEF RemoveKey, Goto
  <2> QED
    BY <1>5, <2>1, <2>2 DEF RemoveKey
<1>6. ASSUME NEW p \in Procs, GenerateKey(p) PROVE KeyGuarded'
  BY <1>6, GuardKept DEF GenerateKey, Goto, files
<1>7. ASSUME NEW p \in Procs, OpenCert(p) PROVE KeyGuarded'
  BY <1>7, GuardKept DEF OpenCert, Goto
<1>8. ASSUME NEW p \in Procs, DataCert(p) PROVE KeyGuarded'
  BY <1>8, GuardKept DEF DataCert, Goto
<1>9. ASSUME NEW p \in Procs, OpenKey(p) PROVE KeyGuarded'
  BY <1>9 DEF GuardInv, TypeInv, TypeOK, KeyGuarded, OpenKey, Goto
<1>10. ASSUME NEW p \in Procs, DataKey(p) PROVE KeyGuarded'
  BY <1>10 DEF GuardInv, TypeInv, TypeOK, KeyGuarded, DataKey, Goto
<1>11. ASSUME NEW p \in Procs, Chmod(p) PROVE KeyGuarded'
  BY <1>11 DEF KeyGuarded, Exists, Chmod
<1>12. ASSUME NEW p \in Procs, ReadCert(p) PROVE KeyGuarded'
  BY <1>12, GuardKept DEF ReadCert, Goto, files
<1>13. ASSUME NEW p \in Procs, ReadKey(p) PROVE KeyGuarded'
  BY <1>13, GuardKept DEF ReadKey, Goto, files
<1>14. ASSUME NEW p \in Procs, Parse(p) PROVE KeyGuarded'
  BY <1>14, GuardKept DEF Parse, Goto, files
<1>15. ASSUME NEW p \in Procs, Bind(p) PROVE KeyGuarded'
  BY <1>15, GuardKept DEF Bind, Goto, files
<1> QED
  BY <1>1, <1>2, <1>3, <1>4, <1>5, <1>6, <1>7, <1>8, <1>9, <1>10, <1>11,
     <1>12, <1>13, <1>14, <1>15 DEF Next, Step

\* As long as no process has died, however many run init() and load() at the
\* same time, in whatever mode, and whichever removals fail: once all of them
\* have ended or serve, a complete CA key is readable by root only.
THEOREM KeyRestrictedUntilCrash ==
    Spec => [](crashes = 0 => QuiescentKeyMode)
<1>1. Init => GuardInv
  <2>1. Init => KeyGuarded
    BY DEF Init, KeyGuarded, Exists, Absent
  <2> QED
    BY <2>1, TypeInit DEF GuardInv
<1>2. GuardInv => (crashes = 0 => QuiescentKeyMode)
  BY DEF GuardInv, KeyGuarded, QuiescentKeyMode, Exists
<1> QED
  BY <1>1, <1>2, GuardStep, PTL DEF Spec

\* The same for a host on which nothing dies at all.
THEOREM KeyRestricted == ASSUME MaxCrashes = 0 PROVE Spec => []QuiescentKeyMode
<1>1. TypeOK => crashes = 0
  BY DEF TypeOK
<1> QED
  BY <1>1, TypeCorrect, KeyRestrictedUntilCrash, PTL

-----------------------------------------------------------------------------
(* One process per host, whatever fails but the process *)

OneProcess == \A p, q \in Procs : p = q

\* What the process relies on as long as it has never died: it comes to its
\* end only with both files written, or with neither touched.
Unbroken(p) ==
    /\ pc[p] \in {"down", "rmCert", "readCert", "readKey", "parse"}
          => certFile = keyFile
    /\ pc[p] \in {"dataCert", "dataKey"} => linked[p]
    /\ pc[p] \in {"openKey", "dataKey", "chmod"} => certFile = Whole(new[p])
    /\ pc[p] = "chmod" => keyFile = Whole(new[p])
    /\ pc[p] \in {"readKey", "parse"} => ca[p].cert = certFile.key
    /\ pc[p] = "parse" => ca[p].key = keyFile.key
    /\ pc[p] \in {"bind", "serving"} =>
          /\ ca[p].key # 0
          /\ ca[p].cert = ca[p].key
          /\ certFile = Whole(ca[p].key)
          /\ keyFile = Whole(ca[p].key)

UnbrokenInv == TypeInv /\ (crashes = 0 => \A p \in Procs : Unbroken(p))

LEMMA UnbrokenStep ==
    ASSUME OneProcess
    PROVE  UnbrokenInv /\ [Next]_vars => UnbrokenInv'
<1> SUFFICES ASSUME UnbrokenInv, [Next]_vars, crashes' = 0, NEW q \in Procs
             PROVE  Unbroken(q)'
  BY TypeStep DEF UnbrokenInv
<1>1. CASE UNCHANGED vars
  BY <1>1 DEF vars, UnbrokenInv, Unbroken
<1>2. ASSUME NEW p \in Procs, Crash(p) PROVE FALSE
  BY <1>2 DEF UnbrokenInv, TypeInv, TypeOK, Crash
<1>3. ASSUME Next PROVE crashes = 0 /\ Unbroken(q)
  BY <1>2, <1>3
     DEF Next, Step, UnbrokenInv, Start, RemoveCert, RemoveKey, GenerateKey,
         OpenCert, DataCert, OpenKey, DataKey, Chmod, ReadCert, ReadKey, Parse, Bind
<1> USE DEF OneProcess, UnbrokenInv, TypeInv, TypeOK, Goto
<1>4. ASSUME NEW p \in Procs, Start(p), Unbroken(q) PROVE Unbroken(q)'
  <2>1. PICK l \in {"readCert", "rmCert", "generate"} : pc' = [pc EXCEPT ![p] = l]
    BY <1>4, FirstSteps DEF Start
  <2> QED
    BY <1>4, <2>1 DEF Start, Unbroken, files
<1>5. ASSUME NEW p \in Procs, RemoveCert(p), Unbroken(q) PROVE Unbroken(q)'
  BY <1>5 DEF RemoveCert, Unbroken
<1>6. ASSUME NEW p \in Procs, RemoveKey(p), Unbroken(q) PROVE Unbroken(q)'
  BY <1>6 DEF RemoveKey, Unbroken
<1>7. ASSUME NEW p \in Procs, GenerateKey(p), Unbroken(q) PROVE Unbroken(q)'
  BY <1>7 DEF GenerateKey, Unbroken
<1>8. ASSUME NEW p \in Procs, OpenCert(p), Unbroken(q) PROVE Unbroken(q)'
  BY <1>8 DEF OpenCert, Unbroken
<1>9. ASSUME NEW p \in Procs, DataCert(p), Unbroken(q) PROVE Unbroken(q)'
  BY <1>9 DEF DataCert, Unbroken
<1>10. ASSUME NEW p \in Procs, OpenKey(p), Unbroken(q) PROVE Unbroken(q)'
  BY <1>10 DEF OpenKey, Unbroken
<1>11. ASSUME NEW p \in Procs, DataKey(p), Unbroken(q) PROVE Unbroken(q)'
  BY <1>11 DEF DataKey, Unbroken
<1>12. ASSUME NEW p \in Procs, Chmod(p), Unbroken(q) PROVE Unbroken(q)'
  BY <1>12, FileKeys DEF Chmod, Assembled, Unbroken, Exists, HasKey, Whole
<1>13. ASSUME NEW p \in Procs, ReadCert(p), Unbroken(q) PROVE Unbroken(q)'
  BY <1>13 DEF ReadCert, Unbroken, files
<1>14. ASSUME NEW p \in Procs, ReadKey(p), Unbroken(q) PROVE Unbroken(q)'
  BY <1>14 DEF ReadKey, Unbroken, files
<1>15. ASSUME NEW p \in Procs, Parse(p), Unbroken(q) PROVE Unbroken(q)'
  BY <1>15, ContentFacts DEF Parse, Parses, Unbroken, files
<1>16. ASSUME NEW p \in Procs, Bind(p), Unbroken(q) PROVE Unbroken(q)'
  BY <1>16 DEF Bind, Serving, Unbroken, files
<1> QED
  BY <1>1, <1>2, <1>3, <1>4, <1>5, <1>6, <1>7, <1>8, <1>9, <1>10, <1>11,
     <1>12, <1>13, <1>14, <1>15, <1>16 DEF Next, Step

\* Failing removals and the idempotent init() do harm only together with a
\* crash: until the one process on the files has died, it serves a pair, the
\* one on disk, whose key nobody else may read.
THEOREM UntilFirstCrash ==
    ASSUME OneProcess
    PROVE  Spec => [](crashes = 0 => /\ PairCoherent
                                     /\ ServingMatchesDisk
                                     /\ ServedKeyRestricted)
<1>1. Init => UnbrokenInv
  BY TypeInit DEF Init, UnbrokenInv, Unbroken
<1>2. UnbrokenInv /\ [Next]_vars => UnbrokenInv'
  BY UnbrokenStep
<1>3. UnbrokenInv => (crashes = 0 => PairCoherent /\ ServingMatchesDisk)
  BY DEF UnbrokenInv, Unbroken, PairCoherent, ServingMatchesDisk, Serving
<1>4. QuiescentKeyMode => ServedKeyRestricted
  BY DEF OneProcess, QuiescentKeyMode, ServedKeyRestricted, Serving
<1> QED
  BY <1>1, <1>2, <1>3, <1>4, KeyRestrictedUntilCrash, PTL DEF Spec

-----------------------------------------------------------------------------
(* Any number of processes, started one at a time, whose removals succeed *)

OneStart ==
    /\ ~Overlap
    /\ ~RemoveMayFail
    /\ "idempotent" \notin StartModes

\* At most one process is starting, and at most one serves.
OneStarting == \A p, q \in Procs : Starting(p) /\ Starting(q) => p = q

OneServing == \A p, q \in Procs : Serving(p) /\ Serving(q) => p = q

\* What a process knows of the files at each step of init() and load(); once
\* it serves, it knows only that its own CA is a pair generated before.
Progress(p) ==
    /\ pc[p] = "rmKey" => certFile = Absent
    /\ pc[p] \in {"generate", "openCert"} => certFile = Absent /\ keyFile = Absent
    /\ pc[p] = "dataCert" => certFile = Torn /\ keyFile = Absent /\ linked[p]
    /\ pc[p] = "openKey" => certFile = Whole(new[p]) /\ keyFile = Absent
    /\ pc[p] = "dataKey" => certFile = Whole(new[p]) /\ keyFile = Torn /\ linked[p]
    /\ pc[p] = "chmod" => certFile = Whole(new[p]) /\ keyFile = Whole(new[p])
    /\ pc[p] \in {"openCert", "dataCert", "openKey", "dataKey", "chmod"}
          => new[p] = lastKey
    /\ pc[p] \in {"readKey", "parse"} => ca[p].cert = certFile.key
    /\ pc[p] = "parse" => ca[p].key = keyFile.key
    /\ pc[p] = "bind" => certFile = Whole(ca[p].key) /\ keyFile = Whole(ca[p].key)
    /\ pc[p] \in {"bind", "serving"} =>
          ca[p].key # 0 /\ ca[p].cert = ca[p].key /\ ca[p].key <= lastKey

\* Two complete files belong together, also after a crash: the old files are
\* gone before the first new one is complete.
Paired == certFile.key # 0 /\ keyFile.key # 0 => certFile = keyFile

\* No file is of a key pair still to come, or older than what is served.
Recent ==
    \A f \in {certFile, keyFile} :
        /\ f.key <= lastKey
        /\ \A p \in Procs : Serving(p) /\ f.key # 0 => f.key >= ca[p].key

FilesInv == Paired /\ Recent /\ \A p \in Procs : Progress(p)

StartInv == TypeInv /\ OneStarting /\ OneServing /\ FilesInv

LEMMA StartInit == Init => StartInv
<1> SUFFICES ASSUME Init PROVE StartInv
  OBVIOUS
<1>1. TypeInv
  BY TypeInit
<1>2. OneStarting /\ OneServing /\ Paired
  BY DEF Init, OneStarting, OneServing, Paired, Starting, Serving
<1>3. Recent
  BY FileKeys DEF Init, Recent, Serving
<1>4. \A p \in Procs : Progress(p)
  BY DEF Init, Progress
<1> QED
  BY <1>1, <1>2, <1>3, <1>4 DEF StartInv, FilesInv

\* Only a start makes a process one of those starting, only bind() makes it
\* serve, and both look at the others first.
LEMMA OneEachStep ==
    ASSUME OneStart, StartInv, [Next]_vars
    PROVE  OneStarting' /\ OneServing'
<1> USE DEF StartInv, TypeInv, TypeOK, OneStarting, OneServing, Starting, Serving, Goto
<1>1. CASE UNCHANGED vars
  BY <1>1 DEF vars
<1>2. ASSUME NEW p \in Procs, Start(p) PROVE OneStarting' /\ OneServing'
  <2>1. PICK l \in {"readCert", "rmCert", "generate"} : pc' = [pc EXCEPT ![p] = l]
    BY <1>2, FirstSteps DEF Start
  <2> QED
    BY <1>2, <2>1 DEF Start, OneStart
<1>3. ASSUME NEW p \in Procs, Crash(p) PROVE OneStarting' /\ OneServing'
  BY <1>3 DEF Crash
<1>4. ASSUME NEW p \in Procs, Bind(p) PROVE OneStarting' /\ OneServing'
  BY <1>4 DEF Bind
<1>5. ASSUME NEW p \in Procs, Step(p), ~Bind(p) PROVE OneStarting' /\ OneServing'
  <2>1. PICK l \in PCs \ {"serving"} : pc' = [pc EXCEPT ![p] = l]
    BY <1>5 DEF Step, PCs, RemoveCert, RemoveKey, GenerateKey, OpenCert, DataCert,
         OpenKey, DataKey, Chmod, ReadCert, ReadKey, Parse
  <2>2. Starting(p)
    BY <1>5 DEF Step, RemoveCert, RemoveKey, GenerateKey, OpenCert, DataCert,
         OpenKey, DataKey, Chmod, ReadCert, ReadKey, Parse
  <2> QED
    BY <2>1, <2>2
<1> QED
  BY <1>1, <1>2, <1>3, <1>4, <1>5 DEF Next

\* While a process is starting, the others are down or serve, and keep what
\* they know whatever becomes of the files.
LEMMA OthersKept ==
    ASSUME StartInv, NEW p \in Procs, Starting(p), NEW q \in Procs, q # p,
           pc'[q] = pc[q], ca'[q] = ca[q], lastKey' \in Nat, lastKey' >= lastKey
    PROVE  Progress(q)'
<1>1. pc[q] \in {"down", "serving"}
  BY DEF StartInv, OneStarting, Starting
<1> QED
  BY <1>1, CaFilesAssumption DEF StartInv, FilesInv, Progress, TypeInv, TypeOK

LEMMA FilesStep ==
    ASSUME OneStart, StartInv, [Next]_vars
    PROVE  FilesInv'
<1> USE DEF StartInv, FilesInv
<1>1. CASE UNCHANGED vars
  BY <1>1 DEF vars, Paired, Recent, Serving, Progress
<1>2. ASSUME NEW p \in Procs, Start(p) PROVE FilesInv'
  <2>1. PICK l \in {"readCert", "rmCert"} : pc' = [pc EXCEPT ![p] = l]
    BY <1>2, FirstSteps DEF OneStart, Start, Goto
  <2>2. Paired' /\ Recent'
    BY <1>2, <2>1 DEF TypeInv, TypeOK, Paired, Recent, Serving, Start, files
  <2>3. \A q \in Procs : Progress(q)'
    BY <1>2, <2>1 DEF TypeInv, TypeOK, Progress, Start, files
  <2> QED
    BY <2>2, <2>3
<1>3. ASSUME NEW p \in Procs, Crash(p) PROVE FilesInv'
  <2>1. Paired' /\ Recent'
    BY <1>3 DEF TypeInv, TypeOK, Paired, Recent, Serving, Crash, Goto, files
  <2>2. \A q \in Procs : Progress(q)'
    BY <1>3 DEF TypeInv, TypeOK, Progress, Crash, Goto, files
  <2> QED
    BY <2>1, <2>2
<1>4. ASSUME NEW p \in Procs, RemoveCert(p) PROVE FilesInv'
  <2>1. Starting(p) /\ lastKey' \in Nat /\ lastKey' >= lastKey
    BY <1>4, CaFilesAssumption DEF RemoveCert, Starting, TypeInv, TypeOK
  <2>2. \A q \in Procs : q # p => Progress(q)'
    BY <1>4, <2>1, OthersKept DEF RemoveCert, Goto, TypeInv, TypeOK
  <2>3. Progress(p)'
    BY <1>4, FileKeys, ContentFacts, CaFilesAssumption
       DEF OneStart, TypeInv, TypeOK, HasKey, Paired, Recent, Progress, RemoveCert, Goto, Unlink, Exists
  <2>4. Paired' /\ Recent'
    BY <1>4, FileKeys, ContentFacts, CaFilesAssumption
       DEF OneStart, TypeInv, TypeOK, HasKey, Paired, Recent, Serving, Progress, RemoveCert, Goto, Unlink, Exists
  <2> QED
    BY <2>2, <2>3, <2>4
<1>5. ASSUME NEW p \in Procs, RemoveKey(p) PROVE FilesInv'
  <2>1. Starting(p) /\ lastKey' \in Nat /\ lastKey' >= lastKey
    BY <1>5, CaFilesAssumption DEF RemoveKey, Starting, TypeInv, TypeOK
  <2>2. \A q \in Procs : q # p => Progress(q)'
    BY <1>5, <2>1, OthersKept DEF RemoveKey, Goto, TypeInv, TypeOK
  <2>3. Progress(p)'
    BY <1>5, FileKeys, ContentFacts, CaFilesAssumption
       DEF OneStart, TypeInv, TypeOK, HasKey, Paired, Recent, Progress, RemoveKey, Goto, Unlink, Exists
  <2>4. Paired' /\ Recent'
    BY <1>5, FileKeys, ContentFacts, CaFilesAssumption
       DEF OneStart, TypeInv, TypeOK, HasKey, Paired, Recent, Serving, Progress, RemoveKey, Goto, Unlink, Exists
  <2> QED
    BY <2>2, <2>3, <2>4
<1>6. ASSUME NEW p \in Procs, GenerateKey(p) PROVE FilesInv'
  <2>1. Starting(p) /\ lastKey' \in Nat /\ lastKey' >= lastKey
    BY <1>6, CaFilesAssumption DEF GenerateKey, Starting, TypeInv, TypeOK
  <2>2. \A q \in Procs : q # p => Progress(q)'
    BY <1>6, <2>1, OthersKept DEF GenerateKey, Goto, TypeInv, TypeOK
  <2>3. Progress(p)'
    BY <1>6, FileKeys, ContentFacts, CaFilesAssumption
       DEF OneStart, TypeInv, TypeOK, HasKey, Paired, Recent, Progress, GenerateKey, Goto, files
  <2>4. Paired' /\ Recent'
    BY <1>6, FileKeys, ContentFacts, CaFilesAssumption
       DEF OneStart, TypeInv, TypeOK, HasKey, Paired, Recent, Serving, Progress, GenerateKey, Goto, files
  <2> QED
    BY <2>2, <2>3, <2>4
<1>7. ASSUME NEW p \in Procs, OpenCert(p) PROVE FilesInv'
  <2>1. Starting(p) /\ lastKey' \in Nat /\ lastKey' >= lastKey
    BY <1>7, CaFilesAssumption DEF OpenCert, Starting, TypeInv, TypeOK
  <2>2. \A q \in Procs : q # p => Progress(q)'
    BY <1>7, <2>1, OthersKept DEF OpenCert, Goto, TypeInv, TypeOK
  <2>3. Progress(p)'
    BY <1>7, FileKeys, ContentFacts, CaFilesAssumption
       DEF OneStart, TypeInv, TypeOK, HasKey, Paired, Recent, Progress, OpenCert, Goto
  <2>4. Paired' /\ Recent'
    BY <1>7, FileKeys, ContentFacts, CaFilesAssumption
       DEF OneStart, TypeInv, TypeOK, HasKey, Paired, Recent, Serving, Progress, OpenCert, Goto
  <2> QED
    BY <2>2, <2>3, <2>4
<1>8. ASSUME NEW p \in Procs, DataCert(p) PROVE FilesInv'
  <2>1. Starting(p) /\ lastKey' \in Nat /\ lastKey' >= lastKey
    BY <1>8, CaFilesAssumption DEF DataCert, Starting, TypeInv, TypeOK
  <2>2. \A q \in Procs : q # p => Progress(q)'
    BY <1>8, <2>1, OthersKept DEF DataCert, Goto, TypeInv, TypeOK
  <2>3. Progress(p)'
    BY <1>8, FileKeys, ContentFacts, CaFilesAssumption
       DEF OneStart, TypeInv, TypeOK, HasKey, Paired, Recent, Progress, DataCert, Goto
  <2>4. Paired' /\ Recent'
    BY <1>8, FileKeys, ContentFacts, CaFilesAssumption
       DEF OneStart, TypeInv, TypeOK, HasKey, Paired, Recent, Serving, Progress, DataCert, Goto
  <2> QED
    BY <2>2, <2>3, <2>4
<1>9. ASSUME NEW p \in Procs, OpenKey(p) PROVE FilesInv'
  <2>1. Starting(p) /\ lastKey' \in Nat /\ lastKey' >= lastKey
    BY <1>9, CaFilesAssumption DEF OpenKey, Starting, TypeInv, TypeOK
  <2>2. \A q \in Procs : q # p => Progress(q)'
    BY <1>9, <2>1, OthersKept DEF OpenKey, Goto, TypeInv, TypeOK
  <2>3. Progress(p)'
    BY <1>9, FileKeys, ContentFacts, CaFilesAssumption
       DEF OneStart, TypeInv, TypeOK, HasKey, Paired, Recent, Progress, OpenKey, Goto
  <2>4. Paired' /\ Recent'
    BY <1>9, FileKeys, ContentFacts, CaFilesAssumption
       DEF OneStart, TypeInv, TypeOK, HasKey, Paired, Recent, Serving, Progress, OpenKey, Goto
  <2> QED
    BY <2>2, <2>3, <2>4
<1>10. ASSUME NEW p \in Procs, DataKey(p) PROVE FilesInv'
  <2>1. Starting(p) /\ lastKey' \in Nat /\ lastKey' >= lastKey
    BY <1>10, CaFilesAssumption DEF DataKey, Starting, TypeInv, TypeOK
  <2>2. \A q \in Procs : q # p => Progress(q)'
    BY <1>10, <2>1, OthersKept DEF DataKey, Goto, TypeInv, TypeOK
  <2>3. Progress(p)'
    BY <1>10, FileKeys, ContentFacts, CaFilesAssumption
       DEF OneStart, TypeInv, TypeOK, HasKey, Paired, Recent, Progress, DataKey, Goto
  <2>4. Paired' /\ Recent'
    BY <1>10, FileKeys, ContentFacts, CaFilesAssumption
       DEF OneStart, TypeInv, TypeOK, HasKey, Paired, Recent, Serving, Progress, DataKey, Goto
  <2> QED
    BY <2>2, <2>3, <2>4
<1>11. ASSUME NEW p \in Procs, Chmod(p) PROVE FilesInv'
  <2>1. Starting(p) /\ lastKey' \in Nat /\ lastKey' >= lastKey
    BY <1>11, CaFilesAssumption DEF Chmod, Starting, TypeInv, TypeOK
  <2>2. \A q \in Procs : q # p => Progress(q)'
    BY <1>11, <2>1, OthersKept DEF Chmod, Goto, Assembled, TypeInv, TypeOK
  <2>3. Progress(p)'
    BY <1>11, FileKeys, ContentFacts, CaFilesAssumption
       DEF OneStart, TypeInv, TypeOK, HasKey, Paired, Recent, Progress, Chmod, Goto, Exists, Assembled
  <2>4. Paired' /\ Recent'
    BY <1>11, FileKeys, ContentFacts, CaFilesAssumption
       DEF OneStart, TypeInv, TypeOK, HasKey, Paired, Recent, Serving, Progress, Chmod, Goto, Exists, Assembled
  <2> QED
    BY <2>2, <2>3, <2>4
<1>12. ASSUME NEW p \in Procs, ReadCert(p) PROVE FilesInv'
  <2>1. Starting(p) /\ lastKey' \in Nat /\ lastKey' >= lastKey
    BY <1>12, CaFilesAssumption DEF ReadCert, Starting, TypeInv, TypeOK
  <2>2. \A q \in Procs : q # p => Progress(q)'
    BY <1>12, <2>1, OthersKept DEF ReadCert, Goto, TypeInv, TypeOK
  <2>3. Progress(p)'
    BY <1>12, FileKeys, ContentFacts, CaFilesAssumption
       DEF OneStart, TypeInv, TypeOK, HasKey, Paired, Recent, Progress, ReadCert, Goto, Exists, files
  <2>4. Paired' /\ Recent'
    BY <1>12, FileKeys, ContentFacts, CaFilesAssumption
       DEF OneStart, TypeInv, TypeOK, HasKey, Paired, Recent, Serving, Progress, ReadCert, Goto, Exists, files
  <2> QED
    BY <2>2, <2>3, <2>4
<1>13. ASSUME NEW p \in Procs, ReadKey(p) PROVE FilesInv'
  <2>1. Starting(p) /\ lastKey' \in Nat /\ lastKey' >= lastKey
    BY <1>13, CaFilesAssumption DEF ReadKey, Starting, TypeInv, TypeOK
  <2>2. \A q \in Procs : q # p => Progress(q)'
    BY <1>13, <2>1, OthersKept DEF ReadKey, Goto, TypeInv, TypeOK
  <2>3. Progress(p)'
    BY <1>13, FileKeys, ContentFacts, CaFilesAssumption
       DEF OneStart, TypeInv, TypeOK, HasKey, Paired, Recent, Progress, ReadKey, Goto, Exists, files
  <2>4. Paired' /\ Recent'
    BY <1>13, FileKeys, ContentFacts, CaFilesAssumption
       DEF OneStart, TypeInv, TypeOK, HasKey, Paired, Recent, Serving, Progress, ReadKey, Goto, Exists, files
  <2> QED
    BY <2>2, <2>3, <2>4
<1>14. ASSUME NEW p \in Procs, Parse(p) PROVE FilesInv'
  <2>1. Starting(p) /\ lastKey' \in Nat /\ lastKey' >= lastKey
    BY <1>14, CaFilesAssumption DEF Parse, Starting, TypeInv, TypeOK
  <2>2. \A q \in Procs : q # p => Progress(q)'
    BY <1>14, <2>1, OthersKept DEF Parse, Goto, TypeInv, TypeOK
  <2>3. Progress(p)'
    BY <1>14, FileKeys, ContentFacts, CaFilesAssumption
       DEF OneStart, TypeInv, TypeOK, HasKey, Paired, Recent, Progress, Parse, Goto, Parses, files
  <2>4. Paired' /\ Recent'
    BY <1>14, FileKeys, ContentFacts, CaFilesAssumption
       DEF OneStart, TypeInv, TypeOK, HasKey, Paired, Recent, Serving, Progress, Parse, Goto, Parses, files
  <2> QED
    BY <2>2, <2>3, <2>4
<1>15. ASSUME NEW p \in Procs, Bind(p) PROVE FilesInv'
  <2>1. Starting(p) /\ lastKey' \in Nat /\ lastKey' >= lastKey
    BY <1>15, CaFilesAssumption DEF Bind, Starting, TypeInv, TypeOK
  <2>2. \A q \in Procs : q # p => Progress(q)'
    BY <1>15, <2>1, OthersKept DEF Bind, Goto, TypeInv, TypeOK
  <2>3. Progress(p)'
    BY <1>15, FileKeys, ContentFacts, CaFilesAssumption
       DEF OneStart, TypeInv, TypeOK, HasKey, Paired, Recent, Progress, Bind, Goto, files
  <2>4. Paired' /\ Recent'
    BY <1>15, FileKeys, ContentFacts, CaFilesAssumption
       DEF OneStart, TypeInv, TypeOK, HasKey, Paired, Recent, Serving, Progress, Bind, Goto, files
  <2> QED
    BY <2>2, <2>3, <2>4
<1> QED
  BY <1>1, <1>2, <1>3, <1>4, <1>5, <1>6, <1>7, <1>8, <1>9, <1>10, <1>11,
     <1>12, <1>13, <1>14, <1>15 DEF Next, Step

LEMMA StartInvariant == ASSUME OneStart PROVE Spec => []StartInv
<1>1. StartInv /\ [Next]_vars => StartInv'
  BY TypeStep, OneEachStep, FilesStep DEF StartInv
<1> QED
  BY StartInit, <1>1, PTL DEF Spec

\* A daemon never signs with a key its certificate does not certify, though
\* load() compares nothing: however many processes are started, one at a time,
\* beside one that serves, and wherever they die.
THEOREM CoherentPair == ASSUME OneStart PROVE Spec => []PairCoherent
<1>1. StartInv => PairCoherent
  BY DEF StartInv, FilesInv, Progress, PairCoherent
<1> QED
  BY StartInvariant, <1>1, PTL

\* What a --genkey run beside a daemon, or a crash, leaves in the files never
\* sends a restart back behind the CA that the daemon serves.
THEOREM NotOlder == ASSUME OneStart PROVE Spec => []ServedNotOlder
<1>1. StartInv => ServedNotOlder
  BY ContentFacts DEF StartInv, FilesInv, TypeInv, TypeOK, Recent, ServedNotOlder, Serving
<1> QED
  BY StartInvariant, <1>1, PTL

-----------------------------------------------------------------------------
(* The refinement *)

\* At most one process serves, so the CA served is that one's.
LEMMA ServedCaIs ==
    ASSUME OneServing, NEW p \in Procs, Serving(p)
    PROVE  ServedCa = ca[p].cert
<1>1. (CHOOSE q \in Procs : Serving(q)) = p
  BY DEF OneServing
<1> QED
  BY <1>1 DEF ServedCa

LEMMA ServedCaNextIs ==
    ASSUME OneServing', NEW p \in Procs, pc'[p] = "serving"
    PROVE  ServedCa' = ca'[p].cert
<1>1. (CHOOSE q \in Procs : pc'[q] = "serving") = p
  BY DEF OneServing, Serving
<1> QED
  BY <1>1 DEF ServedCa, Serving

\* A step of a starting process that does not make it serve leaves the CA
\* served as it is.
LEMMA ServedCaKept ==
    ASSUME StartInv, StartInv', NEW p \in Procs, NEW l, ~Serving(p), l # "serving",
           pc' = [pc EXCEPT ![p] = l], \A q \in Procs : q # p => ca'[q] = ca[q]
    PROVE  ServedCa' = ServedCa
<1>1. \A q \in Procs : pc'[q] = "serving" <=> Serving(q)
  BY DEF Serving, StartInv, TypeInv, TypeOK
<1>2. CASE \E q \in Procs : Serving(q)
  <2>1. PICK q \in Procs : Serving(q)
    BY <1>2
  <2>2. pc'[q] = "serving" /\ ca'[q] = ca[q]
    BY <1>1, <2>1
  <2> QED
    BY <2>1, <2>2, ServedCaIs, ServedCaNextIs DEF StartInv
<1>3. CASE ~\E q \in Procs : Serving(q)
  BY <1>1, <1>3 DEF ServedCa, Serving
<1> QED
  BY <1>2, <1>3

LEMMA LifecycleInit == Init => Lifecycle!CaInit
<1> SUFFICES ASSUME Init PROVE Lifecycle!CaInit
  OBVIOUS
<1>1. CompleteCa = lastKey /\ lastKey \in 0..MaxKeys
  BY CaFilesAssumption, FileKeys DEF Init, CompleteCa
<1>2. ServedCa = 0
  BY DEF Init, ServedCa, Serving
<1> QED
  BY <1>1, <1>2 DEF Lifecycle!CaInit

\* Each step of main() is a step of the life cycle or leaves it as it is.
LEMMA LifecycleStep ==
    ASSUME OneStart, StartInv, StartInv', [Next]_vars
    PROVE  [Lifecycle!CaNext]_(Lifecycle!caVars)
<1> DEFINE Same == /\ CompleteCa' = CompleteCa
                   /\ ServedCa' = ServedCa
                   /\ lastKey' = lastKey
<1>0. Same => UNCHANGED Lifecycle!caVars
  BY DEF Lifecycle!caVars
<1> USE DEF StartInv, FilesInv
<1>1. CASE UNCHANGED vars
  BY <1>0, <1>1 DEF vars, CompleteCa, ServedCa, Serving
<1>2. ASSUME NEW p \in Procs, Start(p) PROVE Same
  <2>1. PICK l \in {"readCert", "rmCert"} : pc' = [pc EXCEPT ![p] = l]
    BY <1>2, FirstSteps DEF OneStart, Start, Goto
  <2>2. ServedCa' = ServedCa
    BY <1>2, <2>1, ServedCaKept DEF Start, Serving
  <2> QED
    BY <1>2, <2>2 DEF Start, CompleteCa, files
<1>3. ASSUME NEW p \in Procs, Crash(p) PROVE Same \/ Lifecycle!CaNext
  <2>1. CompleteCa' = CompleteCa /\ lastKey' = lastKey
    BY <1>3 DEF Crash, CompleteCa, files
  <2>2. CASE Serving(p)
    <3>1. ServedCa # 0
      BY <2>2, ServedCaIs DEF Serving, Progress
    <3>2. \A q \in Procs : pc'[q] # "serving"
      BY <1>3, <2>2 DEF Crash, Goto, Serving, OneServing, TypeInv, TypeOK
    <3>3. ServedCa' = 0
      BY <3>2 DEF ServedCa, Serving
    <3> QED
      BY <2>1, <3>1, <3>3 DEF Lifecycle!CaNext, Lifecycle!Stop
  <2>3. CASE ~Serving(p)
    BY <1>3, <2>1, <2>3, ServedCaKept DEF Crash, Goto
  <2> QED
    BY <2>2, <2>3
<1>4. ASSUME NEW p \in Procs, RemoveCert(p) PROVE Same \/ Lifecycle!CaNext
  <2>1. ServedCa' = ServedCa
    BY <1>4, ServedCaKept DEF RemoveCert, Goto, Serving
  <2>2. CompleteCa' = 0 /\ lastKey' = lastKey
    BY <1>4, FileKeys DEF RemoveCert, OneStart, CompleteCa
  <2> QED
    BY <2>1, <2>2 DEF Lifecycle!CaNext, Lifecycle!Wipe
<1>5. ASSUME NEW p \in Procs, RemoveKey(p) PROVE Same
  <2>1. ServedCa' = ServedCa
    BY <1>5, ServedCaKept DEF RemoveKey, Goto, Serving
  <2> QED
    BY <1>5, <2>1, FileKeys DEF RemoveKey, OneStart, CompleteCa, Progress
<1>6. ASSUME NEW p \in Procs, GenerateKey(p) PROVE Lifecycle!CaNext
  <2>1. ServedCa' = ServedCa
    BY <1>6, ServedCaKept DEF GenerateKey, Goto, Serving
  <2> QED
    BY <1>6, <2>1
       DEF GenerateKey, files, CompleteCa, Lifecycle!CaNext, Lifecycle!Generate
<1>7. ASSUME NEW p \in Procs, OpenCert(p) PROVE Same
  <2>1. ServedCa' = ServedCa
    BY <1>7, ServedCaKept DEF OpenCert, Goto, Serving
  <2> QED
    BY <1>7, <2>1, FileKeys DEF OpenCert, CompleteCa, Progress
<1>8. ASSUME NEW p \in Procs, DataCert(p) PROVE Same
  <2>1. ServedCa' = ServedCa
    BY <1>8, ServedCaKept DEF DataCert, Goto, Serving
  <2> QED
    BY <1>8, <2>1, FileKeys DEF DataCert, CompleteCa, Progress
<1>9. ASSUME NEW p \in Procs, OpenKey(p) PROVE Same
  <2>1. ServedCa' = ServedCa
    BY <1>9, ServedCaKept DEF OpenKey, Goto, Serving
  <2> QED
    BY <1>9, <2>1, FileKeys DEF OpenKey, CompleteCa, Progress
<1>10. ASSUME NEW p \in Procs, DataKey(p) PROVE Lifecycle!CaNext
  <2>1. ServedCa' = ServedCa
    BY <1>10, ServedCaKept DEF DataKey, Goto, Serving
  <2>2. CompleteCa = 0 /\ CompleteCa' = lastKey /\ lastKey' = lastKey
    BY <1>10, FileKeys DEF DataKey, CompleteCa, Progress
  <2>3. lastKey > 0
    BY <1>10 DEF DataKey, Progress, TypeInv, TypeOK, HasKey
  <2> QED
    BY <2>1, <2>2, <2>3 DEF Lifecycle!CaNext, Lifecycle!Publish
<1>11. ASSUME NEW p \in Procs, Chmod(p) PROVE Same
  <2>1. ServedCa' = ServedCa
    BY <1>11, ServedCaKept DEF Chmod, Goto, Serving, Assembled, TypeInv, TypeOK
  <2> QED
    BY <1>11, <2>1 DEF Chmod, CompleteCa
<1>12. ASSUME NEW p \in Procs, ReadCert(p) PROVE Same
  <2>1. ServedCa' = ServedCa
    BY <1>12, ServedCaKept DEF ReadCert, Goto, Serving, TypeInv, TypeOK
  <2> QED
    BY <1>12, <2>1 DEF ReadCert, CompleteCa, files
<1>13. ASSUME NEW p \in Procs, ReadKey(p) PROVE Same
  <2>1. ServedCa' = ServedCa
    BY <1>13, ServedCaKept DEF ReadKey, Goto, Serving, TypeInv, TypeOK
  <2> QED
    BY <1>13, <2>1 DEF ReadKey, CompleteCa, files
<1>14. ASSUME NEW p \in Procs, Parse(p) PROVE Same
  <2>1. ServedCa' = ServedCa
    BY <1>14, ServedCaKept DEF Parse, Goto, Serving
  <2> QED
    BY <1>14, <2>1 DEF Parse, CompleteCa, files
<1>15. ASSUME NEW p \in Procs, Bind(p) PROVE Same \/ Lifecycle!CaNext
  <2>1. CompleteCa' = CompleteCa /\ lastKey' = lastKey /\ ca' = ca
    BY <1>15 DEF Bind, files, CompleteCa
  <2>2. CASE \E q \in Procs : Serving(q)
    BY <1>15, <2>1, <2>2, ServedCaKept DEF Bind, Goto, Serving
  <2>3. CASE ~\E q \in Procs : Serving(q)
    <3>1. pc'[p] = "serving"
      BY <1>15, <2>3 DEF Bind, Goto, TypeInv, TypeOK
    <3>2. ServedCa = 0 /\ ServedCa' = ca[p].cert
      BY <2>1, <2>3, <3>1, ServedCaNextIs DEF ServedCa
    <3>3. CompleteCa = ca[p].cert /\ ca[p].cert # 0
      BY <1>15, FileKeys DEF Bind, CompleteCa, Progress
    <3> QED
      BY <2>1, <3>2, <3>3 DEF Lifecycle!CaNext, Lifecycle!Serve
  <2> QED
    BY <2>2, <2>3
<1> QED
  BY <1>0, <1>1, <1>2, <1>3, <1>4, <1>5, <1>6, <1>7, <1>8, <1>9, <1>10,
     <1>11, <1>12, <1>13, <1>14, <1>15 DEF Next, Step

\* The file-by-file CA engine implements the abstract life cycle the server is
\* built on, for any number of processes that are started one at a time beside
\* one that serves, and die anywhere: what is published is the last key pair
\* generated, and what a daemon comes to serve is the complete CA on disk.
THEOREM LifecycleImplemented ==
    ASSUME OneStart PROVE Spec => ImplementsLifecycle
<1>1. StartInv /\ StartInv' /\ [Next]_vars
        => [Lifecycle!CaNext]_(Lifecycle!caVars)
  BY LifecycleStep
<1> QED
  BY StartInvariant, LifecycleInit, <1>1, PTL
     DEF Spec, ImplementsLifecycle, Lifecycle!CaSpec

=============================================================================
