------------------------------ MODULE MCProxy ------------------------------
(***************************************************************************)
(* Environments for checking Proxy: one request of any kind, over a fresh  *)
(* or a pooled connection, with any kind of response; two requests of one  *)
(* client, the second over what the first has left; two clients that share *)
(* the pool.                                                               *)
(***************************************************************************)
EXTENDS Proxy

CONSTANTS client1, client2

Req(method, body, plan, routes) ==
    [method |-> method, body |-> body, plan |-> plan, routes |-> routes]
Resp(err, framing, close) ==
    [err |-> err, framing |-> framing, close |-> close]

AnyResponse ==
    {Resp(FALSE, "fixed", FALSE), Resp(FALSE, "chunked", FALSE),
     Resp(FALSE, "eof", FALSE), Resp(TRUE, "none", FALSE),
     Resp(TRUE, "fixed", FALSE), Resp(FALSE, "none", TRUE)}

OneRequest ==
    [clients : {{client1}}, count : {1}, tls : {FALSE}, warm : {0, 1},
     requests :
        {{Req("GET", 0, "fast", FALSE), Req("POST", 2, "full", FALSE),
          Req("GET", 0, "fast", TRUE), Req("POST", 1, "full", TRUE),
          Req("GET", 1, "full", FALSE), Req("GET", 1, "hooked", TRUE),
          Req("POST", 2, "hooked", FALSE), Req("POST", 1, "auth", TRUE),
          Req("POST", 1, "local", FALSE)}},
     plans : {{"fast", "full", "auth", "hooked"}}, responses : {AnyResponse}]

\* Over TLS an upload is not interrupted by a response.
Encrypted ==
    [clients : {{client1}}, count : {1}, tls : {TRUE}, warm : {1},
     requests : {{Req("GET", 0, "fast", FALSE), Req("POST", 2, "hooked", FALSE)}},
     plans : {{"full"}}, responses : {AnyResponse}]

TwoRequests ==
    [clients : {{client1}}, count : {2}, tls : {FALSE}, warm : {0},
     requests :
        {{Req("HEAD", 0, "auth", FALSE), Req("GET", 0, "fast", FALSE)},
         {Req("POST", 2, "full", FALSE), Req("HEAD", 0, "full", FALSE)}},
     plans : {{"full"}},
     responses :
        {{Resp(FALSE, "fixed", FALSE), Resp(FALSE, "eof", FALSE),
          Resp(TRUE, "none", FALSE)}}]

TwoClients ==
    [clients : {{client1, client2}}, count : {2}, tls : {FALSE}, warm : {1},
     requests :
        {{Req("GET", 0, "fast", FALSE), Req("POST", 1, "full", FALSE)}},
     plans : {{}}, responses : {{Resp(TRUE, "none", FALSE)}}]

MCEnvironments == OneRequest \cup Encrypted \cup TwoRequests \cup TwoClients
=============================================================================
