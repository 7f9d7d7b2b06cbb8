-------------------------- MODULE CredentialFiles --------------------------
(***************************************************************************)
(* What an agent does to the certificate and the CA file of one entity, as *)
(* those who evaluate with them see it: a file is torn from its opening to *)
(* its writing, it is only ever given what the answer at hand brought, the *)
(* CA file after the certificate, and the agent may stop anywhere.  Agent  *)
(* (for each entity) and AuthScope (for each guest) both implement it.     *)
(***************************************************************************)

CONSTANTS
    Answers,    \* certificates and the CA certificates that come with them
    NoAnswer,
    NoCert,     \* a certificate file that is missing or torn
    NoCa        \* likewise the CA file

VARIABLES
    step,       \* the next step of store_entity_credentials(), or "rest"
    answer,     \* what it stores
    cert, ca    \* what the files hold

credVars == <<step, answer, cert, ca>>

CredInit == step = "rest" /\ answer = NoAnswer /\ cert = NoCert /\ ca = NoCa

Receive ==
    /\ step = "rest"
    /\ step' = "openCert" /\ answer' \in Answers
    /\ UNCHANGED <<cert, ca>>

OpenCert ==
    /\ step = "openCert"
    /\ step' = "dataCert" /\ cert' = NoCert
    /\ UNCHANGED <<answer, ca>>

DataCert ==
    /\ step = "dataCert"
    /\ step' = "openCa" /\ cert' = answer.cert
    /\ UNCHANGED <<answer, ca>>

OpenCa ==
    /\ step = "openCa"
    /\ step' = "dataCa" /\ ca' = NoCa
    /\ UNCHANGED <<answer, cert>>

DataCa ==
    /\ step = "dataCa"
    /\ step' = "rest" /\ ca' = answer.ca_cert /\ answer' = NoAnswer
    /\ UNCHANGED cert

\* The agent dies, or a system call fails.
Abandon ==
    /\ step # "rest"
    /\ step' = "rest" /\ answer' = NoAnswer
    /\ UNCHANGED <<cert, ca>>

CredNext == Receive \/ OpenCert \/ DataCert \/ OpenCa \/ DataCa \/ Abandon

CredSpec == CredInit /\ [][CredNext]_credVars

=============================================================================
