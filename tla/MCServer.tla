------------------------------ MODULE MCServer ------------------------------
(* Instances of Server: two guests, a configuration that is edited, and the *)
(* frames that reach every check of the handler.                            *)
EXTENDS Server

\* Two guests, and one of them again from a port that is not the agents'.
MCPeers == {[cid |-> 3, port |-> 901], [cid |-> 4, port |-> 901],
            [cid |-> 3, port |-> 2000]}

MCCaps == {"r", "w"}

Entry(cid, entities) == [vm_cid |-> cid, entities |-> entities]
Grant(caps, days) == [caps |-> caps, validity_days |-> days]

Host(port, vms) == [server_port |-> port, peer_port |-> 901,
                    cert_validity_days |-> 365, vms |-> vms]

\* The configuration of the start; the VMs exchange their CIDs and one gets a
\* validity beyond the last date; a port that from_file refuses.
Original ==
    Host(900, [front |-> Entry(3, [web |-> Grant({"r"}, NoOverride),
                                   db |-> Grant({"w"}, NoOverride)]),
               back |-> Entry(4, [db |-> Grant({"r", "w"}, 730)])])
Moved ==
    Host(900, [front |-> Entry(4, [web |-> Grant({}, 30)]),
               back |-> Entry(3, [db |-> Grant({"r"}, 365 * 7976)])])
Unprivileged == Host(1000, Original.vms)

MCConfigs == {Original, Moved, Unprivileged}
OneConfig == {Original}

Csr(cn, parses) == [cn |-> cn, pub |-> cn, parses |-> parses]

Req(version, vm, entity, csr) ==
    [version |-> version, vm_name |-> vm, entity |-> entity, csr |-> csr]

FrontWeb == Req(1, "front", "web", Csr("web", TRUE))
BackDb == Req(1, "back", "db", Csr("db", TRUE))
OtherWeb == Req(1, "other", "web", Csr("web", TRUE))

\* Two good requests, and one for each check: VM, version, entity, CSR, and a
\* CSR whose subject is not the entity.
MCRequests ==
    {FrontWeb, BackDb, OtherWeb,
     Req(2, "front", "web", Csr("web", TRUE)),
     Req(1, "back", "web", Csr("web", TRUE)),
     Req(1, "front", "web", Csr("web", FALSE)),
     Req(1, "front", "web", Csr("db", TRUE))}

TwoRequests == {FrontWeb, BackDb}

\* Frames whose answer does not fit: a broken one, and a certificate asked for.
Large == {BadFrame, FrontWeb}

\* And one whose VM name, of up to 4 MiB, the answer quotes.
LargeOrQuoted == Large \cup {OtherWeb}

=============================================================================
