------------------------------- MODULE MCHub -------------------------------
(* Two sockets of one owner and one of another.                             *)
EXTENDS Hub

CONSTANTS a, b, x, ann, bob

MCClients == {a, b, x}
MCOwners  == {ann, bob}
MCOwnerOf == [c \in MCClients |-> IF c = x THEN bob ELSE ann]
=============================================================================
