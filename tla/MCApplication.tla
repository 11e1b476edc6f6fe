--------------------------- MODULE MCApplication ----------------------------
(* Two deployments: a messaging worker, and a service with both servers.   *)
(* t is a transaction message, p a plain one that is longer than the       *)
(* native producer allows (the adapter sends it).                          *)
EXTENDS Application

CONSTANTS t, p
MCMessage == {t, p}
MCTransactional == {t}
MCOversized == {p}
MCDeployments == {<<"producer", "consumer">>, <<"grpc", "http">>}
=============================================================================
