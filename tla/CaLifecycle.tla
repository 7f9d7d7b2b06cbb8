---------------------------- MODULE CaLifecycle ----------------------------
(***************************************************************************)
(* What the CA engine promises the rest of the server: there is at most    *)
(* one complete CA on disk; a new one is wiped, generated and published in *)
(* that order, also while a daemon serves the old one, because main() runs *)
(* init() before it finds the port taken; and what a daemon comes to serve *)
(* is the complete CA on disk at that moment.  CaFiles is the file-by-file *)
(* account and is shown to implement this specification for processes that *)
(* are started one at a time; Server builds on this one.                   *)
(*                                                                         *)
(* A CA is identified by the number of its key pair; 0 stands for none.    *)
(***************************************************************************)
EXTENDS Integers

CONSTANT MaxKeys     \* bound: key pairs ever generated

ASSUME MaxKeysAssumption == MaxKeys \in Nat

VARIABLES
    disk,       \* the complete CA in the two PEM files, or 0
    served,     \* the CA held in memory by the running daemon, or 0
    lastKey     \* the last key pair generated

caVars == <<disk, served, lastKey>>

CaInit ==
    /\ disk \in 0..MaxKeys
    /\ served = 0
    /\ lastKey = disk

CaTypeOK ==
    /\ lastKey \in 0..MaxKeys
    /\ disk \in 0..lastKey
    /\ served \in 0..lastKey

\* init() produces a key pair that no CA had before.
Generate ==
    /\ lastKey < MaxKeys
    /\ lastKey' = lastKey + 1
    /\ UNCHANGED <<disk, served>>

\* init() has removed a file: no complete CA is left on disk.  A daemon that
\* serves keeps the CA it has in memory.
Wipe ==
    /\ disk # 0
    /\ disk' = 0
    /\ UNCHANGED <<served, lastKey>>

\* init() has completed the second file.
Publish ==
    /\ disk = 0
    /\ lastKey > 0
    /\ disk' = lastKey
    /\ UNCHANGED <<served, lastKey>>

\* The daemon holds the CA and its listener is bound.
Serve ==
    /\ served = 0
    /\ disk # 0
    /\ served' = disk
    /\ UNCHANGED <<disk, lastKey>>

\* The daemon process ends.
Stop ==
    /\ served # 0
    /\ served' = 0
    /\ UNCHANGED <<disk, lastKey>>

CaNext == Generate \/ Wipe \/ Publish \/ Serve \/ Stop

CaSpec == CaInit /\ [][CaNext]_caVars

=============================================================================
