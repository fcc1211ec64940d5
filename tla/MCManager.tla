------------------------------ MODULE MCManager ------------------------------
(* The user's key is one of the system's, which has two addresses and no    *)
(* host name; factors around the edges.                                     *)
EXTENDS Manager

MCUserProperties == {InsertIn(Empty, "ipv4", "v1")}

MCIps == <<"a1", "a2">>

==============================================================================
