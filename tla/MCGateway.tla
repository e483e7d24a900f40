----------------------------- MODULE MCGateway -----------------------------
(* Small instances of Gateway for TLC.                                     *)
EXTENDS Gateway

\* Two classes that differ in their first choice: the mock, which has no
\* deadline, and a provider that has one.
TwoClasses == [interactive |-> <<"cohere", "mock">>, chaos |-> <<"mock">>]

OneClass == [chaos |-> <<"mock">>]
=============================================================================
