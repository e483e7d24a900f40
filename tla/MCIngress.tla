----------------------------- MODULE MCIngress -----------------------------
(* A small instance of Ingress for TLC.                                    *)
EXTENDS Ingress

Texts ==
    [tenant |-> {"acme"}, request_id |-> {"r1", "r2"},
     request_class |-> {"chat", "jobs", "ghost"}, idempotency_key |-> {"k"}]
=============================================================================
