---------------------------- MODULE AgentProofs ----------------------------
(***************************************************************************)
(* The types of Agent, that what it reports as stored is usable, and that  *)
(* it implements CredentialFiles for each entity: for any list of          *)
(* entities, host, file system and number of crashes.                      *)
(***************************************************************************)
EXTENDS Agent, TLAPS

Storing == {"open", "data", "chmod", "chown"}

\* File f of the current entity has what this request gives it.
Has(f) ==
    /\ file[Entity][f].st = "whole"
    /\ file[Entity][f].key = Written(f).key
    /\ file[Entity][f].ca = Written(f).ca

Complete(f) ==
    Has(f) /\ file[Entity][f].mode = "set" /\ file[Entity][f].owned

\* The entities from the current one on have not been reported.
Pending ==
    pc \in Looping =>
        \A i \in idx..Len(Entities) : Entities[i] \notin done

\* How far store_entity_credentials() is.
Stage ==
    /\ pc \in Storing => resp.key = key
    /\ pc \in Storing => \A g \in 1..fidx : g < fidx => Complete(Files[g])
    /\ pc \in {"chmod", "chown"} => Has(File)
    /\ pc = "chown" => file[Entity][File].mode = "set"

\* A CA file names no entity's key.
NoCaKey == \A e \in Names : file[e]["ca"].key = 0

Inv == TypeOK /\ Pending /\ Stage /\ NoCaKey /\ StoredIsUsable

LEMMA FilesFacts ==
    /\ Len(Files) = 3
    /\ Files[1] = "cert" /\ Files[2] = "key" /\ Files[3] = "ca"
    /\ FileNames = {"cert", "key", "ca"}
BY DEF Files, FileNames

LEMMA EntitiesFacts ==
    /\ Len(Entities) \in Nat
    /\ DOMAIN Entities = 1..Len(Entities)
    /\ \A i \in 1..Len(Entities) : Entities[i] \in Names
    /\ \A i, j \in 1..Len(Entities) : Entities[i] = Entities[j] => i = j
BY AgentAssumption DEF Names

LEMMA InvInit == Init => Inv
<1> SUFFICES ASSUME Init PROVE Inv
  OBVIOUS
<1>1. TypeOK
  BY AgentAssumption, EntitiesFacts, FilesFacts
     DEF Init, TypeOK, PCs, Looping, Absent, NoCert, MaxAttempts, Keys
<1>2. Pending /\ Stage /\ StoredIsUsable
  BY DEF Init, Pending, Looping, Stage, Storing, StoredIsUsable
<1>3. NoCaKey
  BY FilesFacts DEF Init, NoCaKey, Absent
<1> QED
  BY <1>1, <1>2, <1>3 DEF Inv

\* The locals of request_cert() are not needed once it has returned.
LEMMA Quiet ==
    ASSUME Inv, file' = file, pc' \notin Storing
    PROVE  Stage' /\ NoCaKey'
BY DEF Inv, Stage, NoCaKey, Storing

LEMMA GoOnKeeps ==
    ASSUME Inv, pc \in Looping, GoOn,
           \/ UNCHANGED done
           \/ done' = done \cup {Entity}
    PROVE  /\ Pending' /\ pc' \in {"csr", "secure"}
           /\ idx' = 1 \/ idx' \in 1..Len(Entities)
           /\ pc' \in Looping => idx' \in 1..Len(Entities)
           /\ fidx' \in 1..Len(Files)
           /\ attempts' \in 0..MaxAttempts /\ key' \in Keys \cup {0}
           /\ resp' \in [key : Keys \cup {0}, ca : 0..MaxCa]
           /\ done' \subseteq Names
<1>1. idx \in 1..Len(Entities) /\ done \subseteq Names /\ Entity \in Names
  BY EntitiesFacts DEF Inv, TypeOK, Entity
<1>2. Pending'
  BY <1>1, EntitiesFacts DEF Inv, Pending, GoOn, Entity, Looping
<1>3. resp' \in [key : Keys \cup {0}, ca : 0..MaxCa]
  BY AgentAssumption DEF GoOn, NoLocals, NoCert
<1> QED
  BY <1>1, <1>2, <1>3, EntitiesFacts, FilesFacts
     DEF GoOn, NoLocals, MaxAttempts, Looping

\* Steps of the surroundings: the agent's own state stays.
LEMMA FrameKeeps ==
    ASSUME Inv, UNCHANGED <<pc, idx, fidx, attempts, key, resp, file, done>>
    PROVE  Pending' /\ Stage' /\ NoCaKey' /\ StoredIsUsable'
BY DEF Inv, Pending, Looping, Stage, NoCaKey, StoredIsUsable, Usable, Has, Complete,
       Entity, File, Written

\* Steps that end or never begin a store, and report nothing new.
LEMMA NoStoreKeeps ==
    ASSUME Inv, file' = file, done' \subseteq done, pc' \notin Storing
    PROVE  Stage' /\ NoCaKey' /\ StoredIsUsable'
BY Quiet DEF Inv, StoredIsUsable, Usable

\* A request or a store that fails.
LEMMA FailedKeeps ==
    ASSUME Inv, pc \in Looping, Failed,
           UNCHANGED env, port' \in {"free", "agent", "linger", "rival"}
    PROVE  Inv'
<1>1. Pending' /\ TypeOK'
  BY GoOnKeeps DEF Failed, env, Inv, TypeOK, PCs, Looping
<1>2. pc' \notin Storing
  BY GoOnKeeps DEF Failed, Storing
<1> QED
  BY <1>1, <1>2, NoStoreKeeps DEF Failed, Inv

\* The process ends.
LEMMA EndedKeeps ==
    ASSUME Inv, Ended, UNCHANGED <<hostCa, rivals>>, crashes' \in 0..MaxCrashes,
           port' \in {"free", "agent", "linger", "rival"}
    PROVE  Inv'
<1>1. TypeOK'
  BY AgentAssumption, EntitiesFacts, FilesFacts
     DEF Ended, NoLocals, NoCert, Inv, TypeOK, PCs, Looping, MaxAttempts
<1>2. Pending' /\ pc' \notin Storing
  BY DEF Ended, Pending, Looping, Storing
<1> QED
  BY <1>1, <1>2, NoStoreKeeps DEF Ended, Inv

\* A key that none of the entity's files names is left for a new request.
LEMMA FreshKey ==
    ASSUME Inv, pc = "csr"
    PROVE  (CHOOSE k \in Keys : \A f \in FileNames : file[Entity][f].key # k) \in Keys
<1>1. Entity \in Names
  BY EntitiesFacts DEF Inv, TypeOK, Entity, Looping
<1> DEFINE a == file[Entity]["cert"].key
           b == file[Entity]["key"].key
<1>2. file[Entity]["ca"].key = 0
  BY <1>1 DEF Inv, NoCaKey
<1>3. \E k \in Keys : k # a /\ k # b
  <2>1. CASE a # 1 /\ b # 1
    BY <2>1 DEF Keys
  <2>2. CASE a # 2 /\ b # 2
    BY <2>2 DEF Keys
  <2>3. CASE a # 3 /\ b # 3
    BY <2>3 DEF Keys
  <2> QED
    BY <2>1, <2>2, <2>3
<1>4. \E k \in Keys : \A f \in FileNames : file[Entity][f].key # k
  BY <1>2, <1>3, FilesFacts DEF Keys
<1> QED
  BY <1>4

\* The steps of request_cert() up to the response.
LEMMA RequestStep == Inv /\ Request => Inv'
<1> SUFFICES ASSUME Inv, Request PROVE Inv'
  OBVIOUS
<1>1. CASE GenerateCsr
  <2>1. TypeOK'
    BY <1>1, FreshKey DEF GenerateCsr, Inv, TypeOK, PCs, Looping, env
  <2>2. Pending' /\ pc' \notin Storing
    BY <1>1 DEF GenerateCsr, Inv, Pending, Looping, Storing
  <2> QED
    BY <1>1, <2>1, <2>2, NoStoreKeeps DEF GenerateCsr, Inv
<1>2. CASE BindClientPort
  <2>1. TypeOK' /\ Pending' /\ pc' \notin Storing
    BY <1>2 DEF BindClientPort, Inv, TypeOK, PCs, Looping, env, Pending, Storing, MaxAttempts
  <2> QED
    BY <1>2, <2>1, NoStoreKeeps DEF BindClientPort, Inv
<1>3. CASE BindAgain
  <2>1. TypeOK' /\ Pending' /\ pc' \notin Storing
    BY <1>3 DEF BindAgain, Inv, TypeOK, PCs, Looping, env, Pending, Storing, MaxAttempts
  <2> QED
    BY <1>3, <2>1, NoStoreKeeps DEF BindAgain, Inv
<1>4. CASE BindGivesUp
  BY <1>4, FailedKeeps DEF BindGivesUp, Inv, TypeOK, Looping
<1>5. CASE Connect
  <2>1. TypeOK' /\ Pending' /\ pc' \notin Storing
    BY <1>5 DEF Connect, Inv, TypeOK, PCs, Looping, env, Pending, Storing
  <2> QED
    BY <1>5, <2>1, NoStoreKeeps DEF Connect, Inv
<1>6. CASE ConnectFails
  BY <1>6, FailedKeeps DEF ConnectFails, PortClosed, Looping
<1>7. CASE ConnectionLost
  BY <1>7, FailedKeeps DEF ConnectionLost, PortClosed, Looping
<1>8. CASE ReceiveError
  BY <1>8, FailedKeeps DEF ReceiveError, PortClosed, Looping
<1>9. CASE ReceiveOk
  <2>1. TypeOK'
    BY <1>9, FilesFacts, AgentAssumption DEF ReceiveOk, Inv, TypeOK, PCs, Looping, env
  <2>2. Pending' /\ NoCaKey' /\ StoredIsUsable'
    BY <1>9 DEF ReceiveOk, Inv, Pending, Looping, NoCaKey, StoredIsUsable, Usable
  <2>3. Stage'
    BY <1>9 DEF ReceiveOk, Stage, Storing
  <2> QED
    BY <2>1, <2>2, <2>3 DEF Inv
<1> QED
  BY <1>1, <1>2, <1>3, <1>4, <1>5, <1>6, <1>7, <1>8, <1>9 DEF Request

FileRec == [st : {"absent", "torn", "whole"}, key : Keys \cup {0},
            ca : 0..MaxCa, mode : {"none", "umask", "set"}, owned : BOOLEAN]

\* A step of write_file() touches one file, of an entity not yet reported.
LEMMA OneFile ==
    ASSUME Inv, pc \in Storing, NEW r \in FileRec,
           file' = [file EXCEPT ![Entity][File] = r],
           File = "ca" => r.key = 0
    PROVE  /\ file' \in [Names -> [FileNames -> FileRec]]
           /\ file'[Entity][File] = r
           /\ \A f \in FileNames : f # File => file'[Entity][f] = file[Entity][f]
           /\ \A e \in done : e # Entity /\ file'[e] = file[e]
           /\ NoCaKey'
<1>1. Entity \in Names /\ File \in FileNames
  BY EntitiesFacts, FilesFacts DEF Inv, TypeOK, Entity, File, Storing, Looping
<1>2. file \in [Names -> [FileNames -> FileRec]]
  BY DEF Inv, TypeOK, FileRec
<1>3. Entity \notin done /\ done \subseteq Names
  BY EntitiesFacts DEF Inv, TypeOK, Pending, Looping, Entity, Storing
<1>4. /\ file' \in [Names -> [FileNames -> FileRec]]
      /\ file'[Entity][File] = r
      /\ \A f \in FileNames : f # File => file'[Entity][f] = file[Entity][f]
      /\ \A e \in Names : e # Entity => file'[e] = file[e]
  BY <1>1, <1>2
<1>5. NoCaKey'
  <2> SUFFICES ASSUME NEW e \in Names PROVE file'[e]["ca"].key = 0
    BY DEF NoCaKey
  <2>1. CASE e = Entity
    BY <1>1, <1>4, <2>1, FilesFacts DEF Inv, NoCaKey
  <2>2. CASE e # Entity
    BY <1>4, <2>2 DEF Inv, NoCaKey
  <2> QED
    BY <2>1, <2>2
<1> QED
  BY <1>3, <1>4, <1>5

\* The files are written in this order, so those before are others.
LEMMA EarlierFiles ==
    ASSUME Inv, NEW g \in 1..fidx, g < fidx
    PROVE  Files[g] \in FileNames /\ Files[g] # File
BY FilesFacts DEF Inv, TypeOK, File

\* What a request writes to a file, by file.
LEMMA WrittenFacts ==
    /\ Written("cert").key = resp.key /\ Written("cert").ca = resp.ca
    /\ Written("key").key = key /\ Written("key").ca = 0
    /\ Written("ca").key = 0 /\ Written("ca").ca = resp.ca
BY DEF Written

LEMMA WrittenTyped ==
    ASSUME Inv
    PROVE  Written(File).key \in Keys \cup {0} /\ Written(File).ca \in 0..MaxCa
<1>1. File \in {"cert", "key", "ca"}
  BY FilesFacts DEF Inv, TypeOK, File
<1> QED
  BY <1>1, WrittenFacts, AgentAssumption DEF Inv, TypeOK

\* While the request stays the same, so does what its files are to hold, and
\* the files that are complete stay so.
LEMMA EarlierKept ==
    ASSUME Inv, pc \in Storing, UNCHANGED <<idx, fidx, key, resp>>,
           \A f \in FileNames : f # File => file'[Entity][f] = file[Entity][f]
    PROVE  /\ Entity' = Entity /\ File' = File
           /\ Written(File)' = Written(File)
           /\ \A g \in 1..fidx : g < fidx => Complete(Files[g])'
           /\ resp'.key = key'
<1>1. Entity' = Entity /\ File' = File
  BY DEF Entity, File
<1>2. \A f : Written(f)' = Written(f)
  BY DEF Written
<1>3. ASSUME NEW g \in 1..fidx, g < fidx PROVE Complete(Files[g])'
  <2>1. Complete(Files[g])
    BY <1>3 DEF Inv, Stage
  <2>2. file'[Entity][Files[g]] = file[Entity][Files[g]]
    BY <1>3, EarlierFiles
  <2> QED
    BY <1>1, <1>2, <2>1, <2>2 DEF Complete, Has
<1>4. Written(File)' = Written(File)
  BY <1>1 DEF Written
<1>5. resp'.key = key'
  BY DEF Inv, Stage
<1> QED
  BY <1>1, <1>3, <1>4, <1>5

LEMMA StoreStep == Inv /\ Store => Inv'
<1> SUFFICES ASSUME Inv, Store PROVE Inv'
  OBVIOUS
<1>0. /\ Entity \in Names /\ File \in FileNames
      /\ file \in [Names -> [FileNames -> FileRec]]
      /\ file[Entity][File] \in FileRec
  <2>1. pc \in Looping
    BY DEF Store, OpenFile, WriteData, SetMode, SetOwner, StoreFails, Looping
  <2>2. Entity \in Names /\ File \in FileNames
    BY <2>1, EntitiesFacts, FilesFacts DEF Inv, TypeOK, Entity, File
  <2>3. file \in [Names -> [FileNames -> FileRec]]
    BY DEF Inv, TypeOK, FileRec
  <2> QED
    BY <2>2, <2>3
<1>1. CASE OpenFile
  <2> DEFINE r == Truncated(file[Entity][File])
  <2>1. /\ r \in FileRec /\ r.key = 0
        /\ file' = [file EXCEPT ![Entity][File] = r]
    <3>1. r \in FileRec /\ r.key = 0
      BY <1>0, AgentAssumption DEF FileRec, Truncated
    <3>2. file' = [file EXCEPT ![Entity][File] = r]
      BY <1>1 DEF OpenFile
    <3> QED
      BY <3>1, <3>2
  <2> HIDE DEF r
  <2>2. /\ file' \in [Names -> [FileNames -> FileRec]]
        /\ \A f \in FileNames : f # File => file'[Entity][f] = file[Entity][f]
        /\ \A e \in done : e # Entity /\ file'[e] = file[e]
        /\ NoCaKey'
    BY <1>1, <2>1, OneFile DEF OpenFile, Storing
  <2>3. TypeOK' /\ Pending'
    BY <1>1, <2>2 DEF OpenFile, Inv, TypeOK, PCs, Looping, env, FileRec, Pending
  <2>4. StoredIsUsable'
    BY <1>1, <2>2 DEF OpenFile, Inv, StoredIsUsable, Usable
  <2>5. Stage'
    <3>1. /\ UNCHANGED <<idx, fidx, key, resp>> /\ pc \in Storing
          /\ pc' \in Storing
      BY <1>1 DEF OpenFile, Storing
    <3>2. /\ Entity' = Entity /\ File' = File
          /\ Written(File)' = Written(File)
          /\ \A g \in 1..fidx : g < fidx => Complete(Files[g])'
          /\ resp'.key = key'
      BY <2>2, <3>1, EarlierKept
    <3> QED
      BY <1>1, <3>1, <3>2 DEF OpenFile, Stage
  <2> QED
    BY <2>2, <2>3, <2>4, <2>5 DEF Inv
<1>2. CASE WriteData
  <2> DEFINE r == [file[Entity][File] EXCEPT !.st = "whole",
                     !.key = Written(File).key, !.ca = Written(File).ca]
  <2>1. r \in FileRec /\ file' = [file EXCEPT ![Entity][File] = r]
    BY <1>0, <1>2, WrittenTyped DEF WriteData, FileRec
  <2>1a. /\ r.st = "whole" /\ r.key = Written(File).key /\ r.ca = Written(File).ca
         /\ File = "ca" => r.key = 0
    BY <1>0, WrittenFacts DEF FileRec
  <2> HIDE DEF r
  <2>2. /\ file' \in [Names -> [FileNames -> FileRec]]
        /\ file'[Entity][File] = r
        /\ \A f \in FileNames : f # File => file'[Entity][f] = file[Entity][f]
        /\ \A e \in done : e # Entity /\ file'[e] = file[e]
        /\ NoCaKey'
    BY <1>2, <2>1, <2>1a, OneFile DEF WriteData, Storing
  <2>3. TypeOK' /\ Pending'
    BY <1>2, <2>2 DEF WriteData, Inv, TypeOK, PCs, Looping, env, FileRec, Pending
  <2>4. StoredIsUsable'
    BY <1>2, <2>2 DEF WriteData, Inv, StoredIsUsable, Usable
  <2>5. Stage'
    <3>1. /\ UNCHANGED <<idx, fidx, key, resp>> /\ pc \in Storing
          /\ pc' \in Storing
      BY <1>2 DEF WriteData, Storing
    <3>2. /\ Entity' = Entity /\ File' = File
          /\ Written(File)' = Written(File)
          /\ \A g \in 1..fidx : g < fidx => Complete(Files[g])'
          /\ resp'.key = key'
      BY <2>2, <3>1, EarlierKept
    <3>3. Has(File)'
      BY <1>2, <2>1a, <2>2, <3>2 DEF Has
    <3> QED
      BY <1>2, <2>1a, <2>2, <3>1, <3>2, <3>3 DEF WriteData, Stage
  <2> QED
    BY <2>2, <2>3, <2>4, <2>5 DEF Inv
<1>3. CASE SetMode
  <2> DEFINE r == [file[Entity][File] EXCEPT !.mode = "set"]
  <2>1. r \in FileRec /\ file' = [file EXCEPT ![Entity][File] = r]
    BY <1>0, <1>3 DEF SetMode, FileRec
  <2>1a. /\ r.mode = "set" /\ r.st = file[Entity][File].st
         /\ r.key = file[Entity][File].key /\ r.ca = file[Entity][File].ca
         /\ File = "ca" => r.key = 0
    BY <1>0 DEF FileRec, Inv, NoCaKey
  <2> HIDE DEF r
  <2>2. /\ file' \in [Names -> [FileNames -> FileRec]]
        /\ file'[Entity][File] = r
        /\ \A f \in FileNames : f # File => file'[Entity][f] = file[Entity][f]
        /\ \A e \in done : e # Entity /\ file'[e] = file[e]
        /\ NoCaKey'
    BY <1>3, <2>1, <2>1a, OneFile DEF SetMode, Storing
  <2>3. TypeOK' /\ Pending'
    BY <1>3, <2>2 DEF SetMode, Inv, TypeOK, PCs, Looping, env, FileRec, Pending
  <2>4. StoredIsUsable'
    BY <1>3, <2>2 DEF SetMode, Inv, StoredIsUsable, Usable
  <2>5. Stage'
    <3>1. /\ UNCHANGED <<idx, fidx, key, resp>> /\ pc \in Storing
          /\ pc' \in Storing
      BY <1>3 DEF SetMode, Storing
    <3>2. /\ Entity' = Entity /\ File' = File
          /\ Written(File)' = Written(File)
          /\ \A g \in 1..fidx : g < fidx => Complete(Files[g])'
          /\ resp'.key = key'
      BY <2>2, <3>1, EarlierKept
    <3>3. Has(File)'
      BY <1>3, <2>1a, <2>2, <3>2 DEF SetMode, Inv, Stage, Has
    <3> QED
      BY <1>3, <2>1a, <2>2, <3>1, <3>2, <3>3 DEF SetMode, Stage
  <2> QED
    BY <2>2, <2>3, <2>4, <2>5 DEF Inv
<1>4. CASE SetOwner
  <2> DEFINE r == [file[Entity][File] EXCEPT !.owned = TRUE]
  <2>1. r \in FileRec /\ file' = [file EXCEPT ![Entity][File] = r]
    BY <1>0, <1>4 DEF SetOwner, FileRec
  <2>1a. /\ r.owned /\ r.mode = file[Entity][File].mode
         /\ r.st = file[Entity][File].st
         /\ r.key = file[Entity][File].key /\ r.ca = file[Entity][File].ca
         /\ File = "ca" => r.key = 0
    BY <1>0 DEF FileRec, Inv, NoCaKey
  <2> HIDE DEF r
  <2>2. /\ file' \in [Names -> [FileNames -> FileRec]]
        /\ file'[Entity][File] = r
        /\ \A f \in FileNames : f # File => file'[Entity][f] = file[Entity][f]
        /\ \A e \in done : e # Entity /\ file'[e] = file[e]
        /\ NoCaKey'
    BY <1>4, <2>1, <2>1a, OneFile DEF SetOwner, Storing
  <2>3. \A g \in 1..fidx :
           /\ file'[Entity][Files[g]].st = "whole"
           /\ file'[Entity][Files[g]].key = Written(Files[g]).key
           /\ file'[Entity][Files[g]].ca = Written(Files[g]).ca
           /\ file'[Entity][Files[g]].mode = "set"
           /\ file'[Entity][Files[g]].owned
    <3>1. ASSUME NEW g \in 1..fidx, g < fidx
          PROVE  Complete(Files[g]) /\ file'[Entity][Files[g]] = file[Entity][Files[g]]
      BY <1>4, <2>2, <3>1, EarlierFiles DEF SetOwner, Inv, Stage, Storing
    <3>2. /\ r.st = "whole" /\ r.key = Written(File).key
          /\ r.ca = Written(File).ca /\ r.mode = "set" /\ r.owned
      BY <1>4, <2>1a DEF SetOwner, Inv, Stage, Has
    <3>3. fidx \in Nat /\ File = Files[fidx]
      BY FilesFacts DEF Inv, TypeOK, File
    <3> QED
      BY <2>2, <3>1, <3>2, <3>3 DEF Complete, Has
  <2>4. CASE fidx < Len(Files)
    <3>0. /\ pc = "chown" /\ pc' = "open" /\ fidx' = fidx + 1
          /\ UNCHANGED <<idx, attempts, key, resp, done, port, env>>
      BY <1>4, <2>4 DEF SetOwner
    <3>1. TypeOK' /\ Pending'
      <4>1. fidx' \in 1..Len(Files)
        BY <2>4, <3>0, FilesFacts DEF Inv, TypeOK
      <4>2. TypeOK'
        BY <2>2, <3>0, <4>1 DEF Inv, TypeOK, PCs, Looping, env, FileRec
      <4>3. Pending'
        BY <3>0 DEF Inv, Pending, Looping
      <4> QED
        BY <4>2, <4>3
    <3>2. StoredIsUsable'
      BY <1>4, <2>2, <2>4 DEF SetOwner, Inv, StoredIsUsable, Usable
    <3>3. Stage'
      <4>1. /\ pc' = "open" /\ fidx' = fidx + 1 /\ fidx \in 1..3
            /\ Entity' = Entity /\ resp'.key = key'
        BY <1>4, <2>4, FilesFacts
           DEF SetOwner, Inv, TypeOK, Stage, Storing, Entity
      <4>2. \A f : Written(f)' = Written(f)
        BY <1>4, <2>4 DEF SetOwner, Written
      <4>3. ASSUME NEW g \in 1..fidx', g < fidx' PROVE Complete(Files[g])'
        <5>1. g \in 1..fidx
          BY <4>1, <4>3
        <5> QED
          BY <2>3, <4>1, <4>2, <5>1 DEF Complete, Has
      <4> QED
        BY <4>1, <4>3 DEF Stage
    <3> QED
      BY <2>2, <3>1, <3>2, <3>3 DEF Inv
  <2>5. CASE ~(fidx < Len(Files))
    <3>1. fidx = 3 /\ PortClosed /\ GoOn /\ done' = done \cup {Entity} /\ env' = env
      BY <1>4, <2>5, FilesFacts DEF SetOwner, Succeeded, Inv, TypeOK
    <3>2. Pending' /\ TypeOK'
      BY <1>4, <2>2, <3>1, GoOnKeeps
         DEF SetOwner, PortClosed, env, Inv, TypeOK, PCs, Looping, FileRec
    <3>3. pc' \notin Storing
      BY <1>4, <3>1, GoOnKeeps DEF SetOwner, Storing, Looping
    <3>4. resp.key = key
      BY <1>4 DEF SetOwner, Inv, Stage, Storing
    <3>5. ASSUME NEW e \in done' PROVE Usable(e)'
      <4>1. CASE e = Entity
        BY <2>3, <3>1, <3>4, <4>1, FilesFacts, WrittenFacts DEF Usable
      <4>2. CASE e # Entity
        BY <2>2, <3>1, <4>2 DEF Inv, StoredIsUsable, Usable
      <4> QED
        BY <4>1, <4>2
    <3>6. StoredIsUsable'
      BY <3>5 DEF StoredIsUsable
    <3> QED
      BY <2>2, <3>2, <3>3, <3>6 DEF Inv, Stage, Storing
  <2> QED
    BY <2>4, <2>5
<1>5. CASE StoreFails
  BY <1>5, FailedKeeps DEF StoreFails, PortClosed, Looping
<1> QED
  BY <1>1, <1>2, <1>3, <1>4, <1>5 DEF Store

\* Starting, and binding the port for good.
LEMMA SecureStep == Inv /\ (Start \/ Secure) => Inv'
<1> SUFFICES ASSUME Inv, Start \/ Secure PROVE Inv'
  OBVIOUS
<1>1. CASE Start
  <2>1. TypeOK' /\ Pending' /\ pc' \notin Storing
    BY <1>1 DEF Start, Inv, TypeOK, PCs, Looping, env, Pending, Storing
  <2> QED
    BY <1>1, <2>1, NoStoreKeeps DEF Start, Inv
<1>2. CASE SecurePort
  <2>1. TypeOK' /\ Pending' /\ pc' \notin Storing
    BY <1>2 DEF SecurePort, Inv, TypeOK, PCs, Looping, env, Pending, Storing, MaxAttempts
  <2> QED
    BY <1>2, <2>1, NoStoreKeeps DEF SecurePort, Inv
<1>3. CASE SecureAgain
  <2>1. TypeOK' /\ Pending' /\ pc' \notin Storing
    BY <1>3 DEF SecureAgain, Inv, TypeOK, PCs, Looping, env, Pending, Storing, MaxAttempts
  <2> QED
    BY <1>3, <2>1, NoStoreKeeps DEF SecureAgain, Inv
<1>4. CASE SecureGivesUp
  BY <1>4, EndedKeeps DEF SecureGivesUp, env, Inv, TypeOK
<1> QED
  BY <1>1, <1>2, <1>3, <1>4 DEF Secure

\* Crashes, other processes and the host.
LEMMA EnvironmentStep == Inv /\ Environment => Inv'
<1> SUFFICES ASSUME Inv, Environment PROVE Inv'
  OBVIOUS
<1>1. CASE Crash
  <2>1. crashes' \in 0..MaxCrashes /\ port' \in {"free", "agent", "linger", "rival"}
    BY <1>1, AgentAssumption DEF Crash, PortClosed, Inv, TypeOK
  <2> QED
    BY <1>1, <2>1, EndedKeeps DEF Crash
<1>2. CASE LingerEnds \/ RivalBinds \/ RivalLeaves \/ HostRegenerates
  <2>1. UNCHANGED <<pc, idx, fidx, attempts, key, resp, file, done>>
    BY <1>2 DEF LingerEnds, RivalBinds, RivalLeaves, HostRegenerates
  <2>2. /\ port' \in {"free", "agent", "linger", "rival"} /\ hostCa' \in 1..MaxCa
        /\ rivals' \in 0..MaxRivals /\ crashes' \in 0..MaxCrashes
    <3>0. /\ port \in {"free", "agent", "linger", "rival"} /\ hostCa \in 1..MaxCa
          /\ rivals \in 0..MaxRivals /\ crashes \in 0..MaxCrashes
          /\ MaxCa \in Nat /\ MaxRivals \in Nat
      BY AgentAssumption DEF Inv, TypeOK
    <3>1. CASE LingerEnds \/ RivalLeaves
      BY <3>0, <3>1 DEF LingerEnds, RivalLeaves, env
    <3>2. CASE RivalBinds
      BY <3>0, <3>2 DEF RivalBinds
    <3>3. CASE HostRegenerates
      BY <3>0, <3>3 DEF HostRegenerates
    <3> QED
      BY <1>2, <3>1, <3>2, <3>3
  <2>3. TypeOK'
    BY <2>1, <2>2 DEF Inv, TypeOK
  <2> QED
    BY <2>1, <2>3, FrameKeeps DEF Inv
<1> QED
  BY <1>1, <1>2 DEF Environment

\* The inductive invariant.
THEOREM Invariant == Spec => []Inv
<1>1. Init => Inv
  BY InvInit
<1>2. Inv /\ [Next]_vars => Inv'
  <2> SUFFICES ASSUME Inv, [Next]_vars PROVE Inv'
    OBVIOUS
  <2>1. CASE Next
    BY <2>1, RequestStep, StoreStep, SecureStep, EnvironmentStep DEF Next, Step
  <2>2. CASE UNCHANGED vars
    <3>1. TypeOK'
      BY <2>2 DEF vars, Inv, TypeOK
    <3> QED
      BY <2>2, <3>1, FrameKeeps DEF vars, Inv
  <2> QED
    BY <2>1, <2>2
<1> QED
  BY <1>1, <1>2, PTL DEF Spec

\* Every variable of the agent keeps its type: the loops over entities and
\* files stay in bounds, and an unused key is always left.
THEOREM TypeCorrect == Spec => []TypeOK
<1>1. Inv => TypeOK
  BY DEF Inv
<1> QED
  BY <1>1, Invariant, PTL

\* What the agent reports as stored is a certificate, its key and the CA that
\* issued it, with their mode and owner, whatever failed or crashed before.
THEOREM StoredUsable == Spec => []StoredIsUsable
<1>1. Inv => StoredIsUsable
  BY DEF Inv
<1> QED
  BY <1>1, Invariant, PTL

-----------------------------------------------------------------------------
(* The files as AuthScope has them *)

\* Which step of CredentialFiles comes next for an entity.
StepIs(e, step) ==
    /\ Entity # e \/ pc \notin Storing => step = "rest"
    /\ Entity = e /\ File = "cert" =>
          /\ pc = "open" => step = "openCert"
          /\ pc = "data" => step = "dataCert"
          /\ pc \in {"chmod", "chown"} => step = "openCa"
    /\ Entity = e /\ File = "key" /\ pc \in Storing => step = "openCa"
    /\ Entity = e /\ File = "ca" =>
          /\ pc = "open" => step = "openCa"
          /\ pc = "data" => step = "dataCa"
          /\ pc \in {"chmod", "chown"} => step = "rest"

LEMMA StepsNow == ASSUME NEW e PROVE StepIs(e, CredentialStep(e))
BY DEF StepIs, CredentialStep, Storing

LEMMA StepsNext == ASSUME NEW e PROVE StepIs(e, CredentialStep(e))'
BY DEF StepIs, CredentialStep, Storing

\* A request has a key pair for its answer.
HasKeyPair == pc \in {"bind", "connect", "await"} => key \in Keys

LEMMA HasKeyPairStep == Inv /\ HasKeyPair /\ [Next]_vars => HasKeyPair'
<1> SUFFICES ASSUME Inv, HasKeyPair, [Next]_vars PROVE HasKeyPair'
  OBVIOUS
<1> USE DEF HasKeyPair
<1>1. CASE UNCHANGED vars
  BY <1>1 DEF vars
<1>2. CASE Start \/ Secure \/ Store
  BY <1>2
     DEF Start, Secure, SecurePort, SecureAgain, SecureGivesUp, Store, OpenFile, WriteData,
         SetMode, SetOwner, StoreFails, Failed, Succeeded, Ended, GoOn
<1>3. CASE GenerateCsr
  BY <1>3, FreshKey DEF GenerateCsr
<1>4. CASE Request /\ ~GenerateCsr
  BY <1>4
     DEF Request, BindClientPort, BindAgain, BindGivesUp, Connect, ConnectFails,
         ConnectionLost, ReceiveError, ReceiveOk, Failed, GoOn
<1>5. CASE Environment
  BY <1>5 DEF Environment, Crash, Ended, LingerEnds, RivalBinds, RivalLeaves, HostRegenerates
<1> QED
  BY <1>1, <1>2, <1>3, <1>4, <1>5 DEF Next, Step

\* A step outside store_entity_credentials(), or one that ends it.
LEMMA RestMapped ==
    ASSUME file' = file, pc' \notin Storing, NEW e \in Names
    PROVE  [Credentials(e)!CredNext]_(Credentials(e)!credVars)
<1>1. CredentialStep(e)' = "rest"
  BY StepsNext DEF StepIs
<1>2. CASE CredentialStep(e) = "rest"
  BY <1>1, <1>2 DEF Credentials!credVars
<1>3. CASE CredentialStep(e) # "rest"
  BY <1>1, <1>3 DEF Credentials!CredNext, Credentials!Abandon
<1> QED
  BY <1>2, <1>3

\* A step that leaves the agent where it is.
LEMMA SameMapped ==
    ASSUME UNCHANGED <<pc, idx, fidx, resp, file>>, NEW e \in Names
    PROVE  [Credentials(e)!CredNext]_(Credentials(e)!credVars)
BY DEF CredentialStep, Response, Entity, File, Credentials!credVars

LEMMA ReceiveMapped ==
    ASSUME Inv, HasKeyPair, ReceiveOk, NEW e \in Names
    PROVE  [Credentials(e)!CredNext]_(Credentials(e)!credVars)
<1>1. /\ pc \notin Storing /\ pc' = "open" /\ pc' \in Storing /\ File' = "cert"
      /\ Entity' = Entity /\ file' = file
  BY FilesFacts DEF ReceiveOk, Storing, Entity, File
<1>2. CredentialStep(e) = "rest"
  BY <1>1, StepsNow DEF StepIs
<1>3. CASE Entity = e
  <2>1. CredentialStep(e)' = "openCert"
    BY <1>1, <1>3, StepsNext DEF StepIs
  <2>2. /\ resp' = [key |-> key, ca |-> hostCa] /\ resp'.ca = hostCa
        /\ key \in Keys /\ hostCa \in 1..MaxCa
    BY DEF ReceiveOk, HasKeyPair, Inv, TypeOK
  <2> QED
    BY <1>1, <1>2, <2>1, <2>2 DEF Response, Credentials!CredNext, Credentials!Receive
<1>4. CASE Entity # e
  <2>1. CredentialStep(e)' = "rest"
    BY <1>1, <1>4, StepsNext DEF StepIs
  <2> QED
    BY <1>1, <1>2, <2>1 DEF Credentials!credVars
<1> QED
  BY <1>3, <1>4

LEMMA AtHand ==
    ASSUME Inv, Names # {}
    PROVE  /\ Entity \in Names /\ File \in FileNames /\ FileNames = {"cert", "key", "ca"}
           /\ file \in [Names -> [FileNames -> FileRec]]
           /\ resp = [key |-> resp.key, ca |-> resp.ca]
<1>1. Entity \in Names /\ File \in FileNames /\ FileNames = {"cert", "key", "ca"}
  <2>1. 1 \in 1..Len(Entities)
    BY EntitiesFacts DEF Names
  <2>2. idx \in 1..Len(Entities) /\ fidx \in 1..Len(Files)
    BY <2>1 DEF Inv, TypeOK
  <2> QED
    BY <2>2, EntitiesFacts, FilesFacts DEF Entity, File
<1>2. file \in [Names -> [FileNames -> FileRec]]
  BY DEF Inv, TypeOK, FileRec
<1>3. resp = [key |-> resp.key, ca |-> resp.ca]
  BY DEF Inv, TypeOK
<1> QED
  BY <1>1, <1>2, <1>3

\* Modes and owners are not shown.
LEMMA ModesHidden ==
    ASSUME Inv, NEW r \in FileRec, file' = [file EXCEPT ![Entity][File] = r],
           r.key = file[Entity][File].key, r.ca = file[Entity][File].ca,
           NEW e \in Names, NEW f \in FileNames
    PROVE  file'[e][f].key = file[e][f].key /\ file'[e][f].ca = file[e][f].ca
<1>1. CASE e = Entity /\ f = File
  BY <1>1, AtHand
<1>2. CASE ~(e = Entity /\ f = File)
  BY <1>2, AtHand
<1> QED
  BY <1>1, <1>2

LEMMA ModeStep ==
    ASSUME Inv, SetMode \/ SetOwner, NEW e \in Names
    PROVE  \A f \in FileNames : /\ file'[e][f].key = file[e][f].key
                               /\ file'[e][f].ca = file[e][f].ca
<1>0. file[Entity][File] \in FileRec
  BY AtHand
<1>1. \E r \in FileRec : /\ file' = [file EXCEPT ![Entity][File] = r]
                        /\ r.key = file[Entity][File].key
                        /\ r.ca = file[Entity][File].ca
  <2>1. CASE SetMode
    <3> DEFINE r == [file[Entity][File] EXCEPT !.mode = "set"]
    <3>1. r \in FileRec /\ r.key = file[Entity][File].key /\ r.ca = file[Entity][File].ca
      BY <1>0 DEF FileRec
    <3>2. file' = [file EXCEPT ![Entity][File] = r]
      BY <1>0, <2>1 DEF SetMode, FileRec
    <3> QED
      BY <3>1, <3>2
  <2>2. CASE SetOwner
    <3> DEFINE r == [file[Entity][File] EXCEPT !.owned = TRUE]
    <3>1. r \in FileRec /\ r.key = file[Entity][File].key /\ r.ca = file[Entity][File].ca
      BY <1>0 DEF FileRec
    <3>2. file' = [file EXCEPT ![Entity][File] = r]
      BY <1>0, <2>2 DEF SetOwner, FileRec
    <3> QED
      BY <3>1, <3>2
  <2> QED
    BY <2>1, <2>2
<1> QED
  BY <1>1, ModesHidden

\* The steps of write_file(), for the entity at hand or another.
LEMMA WriteMapped ==
    ASSUME Inv, OpenFile \/ WriteData \/ SetMode \/ (SetOwner /\ fidx < Len(Files)),
           NEW e \in Names
    PROVE  [Credentials(e)!CredNext]_(Credentials(e)!credVars)
<1> USE DEF Credentials!credVars
<1>0. /\ Entity \in Names /\ File \in {"cert", "key", "ca"} /\ FileNames = {"cert", "key", "ca"}
      /\ file \in [Names -> [FileNames -> FileRec]]
      /\ resp = [key |-> resp.key, ca |-> resp.ca]
      /\ pc \in Storing /\ Entity' = Entity /\ Response' = Response
      /\ fidx' = fidx => File' = File
  <2>1. pc \in Storing /\ idx' = idx /\ resp' = resp
    BY DEF OpenFile, WriteData, SetMode, SetOwner, Storing
  <2> QED
    BY <2>1, AtHand DEF Entity, File, Response
<1>1. CASE Entity # e
  <2>1. CredentialStep(e) = "rest" /\ CredentialStep(e)' = "rest"
    BY <1>0, <1>1, StepsNow, StepsNext DEF StepIs
  <2>2. file'[e] = file[e]
    BY <1>0, <1>1 DEF OpenFile, WriteData, SetMode, SetOwner
  <2> QED
    BY <2>1, <2>2
<1>2. CASE Entity = e /\ OpenFile
  <2>1. /\ pc = "open" /\ pc' = "data" /\ File' = File
        /\ \A f \in FileNames : f # File => file'[e][f] = file[e][f]
        /\ file'[e][File].key = 0 /\ file'[e][File].ca = 0
    BY <1>0, <1>2 DEF OpenFile, Truncated
  <2>2. CASE File = "cert"
    <3>1. CredentialStep(e) = "openCert" /\ CredentialStep(e)' = "dataCert"
      BY <1>0, <1>2, <2>1, <2>2, StepsNow, StepsNext DEF StepIs
    <3> QED
      BY <1>0, <2>1, <2>2, <3>1 DEF NoCert, Credentials!CredNext, Credentials!OpenCert
  <2>3. CASE File = "key"
    <3>1. CredentialStep(e) = "openCa" /\ CredentialStep(e)' = "openCa"
      BY <1>0, <1>2, <2>1, <2>3, StepsNow, StepsNext DEF StepIs, Storing
    <3> QED
      BY <1>0, <2>1, <2>3, <3>1
  <2>4. CASE File = "ca"
    <3>1. CredentialStep(e) = "openCa" /\ CredentialStep(e)' = "dataCa"
      BY <1>0, <1>2, <2>1, <2>4, StepsNow, StepsNext DEF StepIs
    <3> QED
      BY <1>0, <2>1, <2>4, <3>1 DEF Credentials!CredNext, Credentials!OpenCa
  <2> QED
    BY <1>0, <2>2, <2>3, <2>4
<1>3. CASE Entity = e /\ WriteData
  <2>1. /\ pc = "data" /\ pc' = "chmod" /\ File' = File
        /\ \A f \in FileNames : f # File => file'[e][f] = file[e][f]
        /\ file'[e][File].key = Written(File).key /\ file'[e][File].ca = Written(File).ca
    BY <1>0, <1>3 DEF WriteData, FileRec
  <2>2. CASE File = "cert"
    <3>1. CredentialStep(e) = "dataCert" /\ CredentialStep(e)' = "openCa"
      BY <1>0, <1>3, <2>1, <2>2, StepsNow, StepsNext DEF StepIs
    <3>2. [key |-> file'[e]["cert"].key, ca |-> file'[e]["cert"].ca] = resp
      BY <1>0, <2>1, <2>2, WrittenFacts
    <3> QED
      BY <1>0, <2>1, <2>2, <3>1, <3>2
         DEF Response, Credentials!CredNext, Credentials!DataCert
  <2>3. CASE File = "key"
    <3>1. CredentialStep(e) = "openCa" /\ CredentialStep(e)' = "openCa"
      BY <1>0, <1>3, <2>1, <2>3, StepsNow, StepsNext DEF StepIs, Storing
    <3> QED
      BY <1>0, <2>1, <2>3, <3>1
  <2>4. CASE File = "ca"
    <3>1. CredentialStep(e) = "dataCa" /\ CredentialStep(e)' = "rest"
      BY <1>0, <1>3, <2>1, <2>4, StepsNow, StepsNext DEF StepIs
    <3>2. file'[e]["ca"].ca = resp.ca
      BY <2>1, <2>4, WrittenFacts
    <3> QED
      BY <1>0, <2>1, <2>4, <3>1, <3>2 DEF Response, Credentials!CredNext, Credentials!DataCa
  <2> QED
    BY <1>0, <2>2, <2>3, <2>4
<1>4. CASE Entity = e /\ (SetMode \/ (SetOwner /\ fidx < Len(Files)))
  <2>1. CredentialStep(e)' = CredentialStep(e)
    <3>1. CASE SetMode
      BY <1>0, <1>4, <3>1, StepsNow, StepsNext DEF SetMode, StepIs, Storing
    <3>2. CASE SetOwner /\ fidx < Len(Files)
      <4>1. /\ pc = "chown" /\ pc' = "open" /\ fidx' = fidx + 1
            /\ \/ File = "cert" /\ File' = "key"
               \/ File = "key" /\ File' = "ca"
        BY <3>2, FilesFacts DEF SetOwner, File, Inv, TypeOK
      <4> QED
        BY <1>0, <1>4, <4>1, StepsNow, StepsNext DEF StepIs, Storing
    <3> QED
      BY <1>4, <3>1, <3>2
  <2>2. \A f \in FileNames : /\ file'[e][f].key = file[e][f].key
                            /\ file'[e][f].ca = file[e][f].ca
    BY <1>4, ModeStep
  <2> QED
    BY <1>0, <2>1, <2>2
<1> QED
  BY <1>1, <1>2, <1>3, <1>4

\* The last chown ends the store: the CA file was the last to matter.
LEMMA LastMapped ==
    ASSUME Inv, SetOwner, ~(fidx < Len(Files)), NEW e \in Names
    PROVE  [Credentials(e)!CredNext]_(Credentials(e)!credVars)
<1>1. pc = "chown" /\ File = "ca" /\ pc' \notin Storing /\ FileNames = {"cert", "key", "ca"}
  <2>1. fidx = 3 /\ pc = "chown" /\ GoOn
    BY FilesFacts DEF SetOwner, Succeeded, Inv, TypeOK
  <2> QED
    BY <2>1, AtHand, FilesFacts DEF GoOn, Storing, File
<1>2. CredentialStep(e) = "rest" /\ CredentialStep(e)' = "rest"
  BY <1>1, StepsNow, StepsNext DEF StepIs
<1>3. \A f \in FileNames : /\ file'[e][f].key = file[e][f].key
                          /\ file'[e][f].ca = file[e][f].ca
  BY ModeStep
<1> QED
  BY <1>1, <1>2, <1>3 DEF Credentials!credVars

LEMMA AgentMapped ==
    ASSUME Inv, HasKeyPair, [Next]_vars, NEW e \in Names
    PROVE  [Credentials(e)!CredNext]_(Credentials(e)!credVars)
<1>1. CASE ReceiveOk
  BY <1>1, ReceiveMapped
<1>2. CASE OpenFile \/ WriteData \/ SetMode \/ SetOwner
  BY <1>2, WriteMapped, LastMapped
<1>3. CASE \/ UNCHANGED vars \/ BindAgain \/ SecureAgain \/ LingerEnds \/ RivalBinds
           \/ RivalLeaves \/ HostRegenerates
  BY <1>3, SameMapped
     DEF vars, BindAgain, SecureAgain, LingerEnds, RivalBinds, RivalLeaves, HostRegenerates
<1>4. CASE \/ Start \/ GenerateCsr \/ BindClientPort \/ BindGivesUp \/ Connect
           \/ ConnectFails \/ ConnectionLost \/ ReceiveError \/ StoreFails
           \/ SecurePort \/ SecureGivesUp \/ Crash
  <2>1. file' = file /\ pc' \notin Storing
    BY <1>4
       DEF Start, GenerateCsr, BindClientPort, BindGivesUp, Connect, ConnectFails,
           ConnectionLost, ReceiveError, StoreFails, SecurePort, SecureGivesUp, Crash,
           Failed, Ended, GoOn, Storing
  <2> QED
    BY <2>1, RestMapped
<1> QED
  BY <1>1, <1>2, <1>3, <1>4 DEF Next, Step, Request, Store, Secure, Environment

\* Each entity's certificate and CA files change as CredentialFiles says, on
\* which AuthScope's agents are built, for any list of entities, host,
\* failures and crashes: from one answer, in order, torn in between.
THEOREM CredentialsImplemented == Spec => ImplementsCredentials
<1>1. Init => HasKeyPair /\ \A e \in Names : Credentials(e)!CredInit
  <2> SUFFICES ASSUME Init, NEW e \in Names
               PROVE  HasKeyPair /\ Credentials(e)!CredInit
    BY EntitiesFacts DEF Init, HasKeyPair
  <2>1. CredentialStep(e) = "rest"
    BY StepsNow DEF StepIs, Init, Storing
  <2> QED
    BY <2>1, FilesFacts DEF Init, HasKeyPair, Absent, NoCert, Credentials!CredInit
<1>2. Inv /\ HasKeyPair /\ [Next]_vars
        => \A e \in Names : [Credentials(e)!CredNext]_(Credentials(e)!credVars)
  BY AgentMapped
<1> QED
  BY <1>1, <1>2, HasKeyPairStep, Invariant, PTL DEF Spec, ImplementsCredentials

=============================================================================
