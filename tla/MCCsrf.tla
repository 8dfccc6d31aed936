------------------------------- MODULE MCCsrf -------------------------------
(* Csrf for TLC, with the deployments whose answers break a property. *)
EXTENDS Csrf

Setup(adapter, renamed, onError) ==
    [adapter |-> adapter, renamed |-> renamed, onError |-> onError]

GinWithOnError == { Setup("gin", FALSE, TRUE) }
EchoRenamed == { Setup("echo", TRUE, FALSE) }
=============================================================================
