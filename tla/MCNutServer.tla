------------------------------ MODULE MCNutServer ------------------------------
(* Clients that log in and clients of a server without credentials.           *)
EXTENDS NutServer

CONSTANT Single   \* the client of the workloads where one is enough

MCWorkloads ==
    {[authRequired |-> TRUE, clients |-> Conn,
      inputs |-> {"piece", "username", "password", "logout"}],
     [authRequired |-> TRUE, clients |-> {Single},
      inputs |-> {"query", "username", "password", "tracking", "instcmd"}],
     [authRequired |-> TRUE, clients |-> Conn, inputs |-> {"query", "silence"}],
     [authRequired |-> FALSE, clients |-> {Single}, inputs |-> {"set", "tracking"}]}

==============================================================================
