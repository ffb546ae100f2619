----------------------------- MODULE MCServices -----------------------------
(***************************************************************************)
(* Services on small instances; handlers are interchangeable.              *)
(***************************************************************************)
EXTENDS Services, TLC

Symmetry == Permutations(Workers)

MCOwner    == <<"ann", "ann", "bob">>
MCCarrier  == <<"dan", "eve", "dan">>
MCDistance == <<7, 1, 4>>

MCQueries ==
  [role : {"CLIENT"}, user : {"ann"}, status : {"ANY"},
   near : {FALSE}, k : {2}, page : {1}, limit : {1, 2}]
  \union
  [role : {"DRIVER"}, user : {"dan"}, status : {"ANY"},
   near : {TRUE}, k : {0, 3, 4}, page : {1, 2}, limit : {1}]
  \union
  [role : {"DRIVER"}, user : {"dan"}, status : {"OPEN"},
   near : {TRUE}, k : {0}, page : {1}, limit : {2}]
=============================================================================
