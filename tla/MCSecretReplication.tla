------------------------ MODULE MCSecretReplication ------------------------
(***************************************************************************)
(* Instances of SecretReplication for TLC: two instances of two versions,  *)
(* each with its own workload cluster or both on one, two pull secrets,    *)
(* and lists that swap, withdraw or break entries.                         *)
(***************************************************************************)
EXTENDS SecretReplication

CONSTANTS i1, i2, w1, w2, n1, n2, v1, v2

Requested == (i1 :> v1) @@ (i2 :> v2)
Dedicated == (i1 :> w1) @@ (i2 :> w2)
Shared == (i1 :> w1) @@ (i2 :> w1)

Private(v) == [version |-> v, chart |-> n1, images |-> <<n1, n2>>]
Broken(v) == [version |-> v, chart |-> n1, images |-> Malformed]
Public(v) == [version |-> v, chart |-> NoName, images |-> <<>>]

MCLists == {<<Private(v1), Public(v2)>>, <<Public(v2), Private(v1)>>,
            <<Broken(v1), Private(v2)>>, <<Public(v2)>>}
=============================================================================
