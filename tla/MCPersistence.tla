----------------------------- MODULE MCPersistence -----------------------------
(* Two requests at a time; a workspace with a "tls" reference and one with   *)
(* the legacy OPC UA key paths.                                              *)
EXTENDS Persistence

MCWorkspaces == {[tls |-> {OpcCert}, opc |-> "none"], [tls |-> {}, opc |-> "legacy"]}

(* User requests meet each other, and certificate requests meet deploys; the *)
(* two groups share nothing but the mutex of the file storage.               *)
MCTraffic == {UserOps, CertOps \cup DeployOps}

================================================================================
