------------------------------ MODULE MCSharing ------------------------------
(* Small instances of Sharing: pipelines of one and of two cache nodes.    *)
EXTENDS Sharing, TLC

MCRoute == "r1" :> <<"a", "b">> @@ "r2" :> <<"a", "b">> @@ "r3" :> <<"b">>
=============================================================================
