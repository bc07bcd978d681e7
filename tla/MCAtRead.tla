------------------------------ MODULE MCAtRead ------------------------------
(* Instance of AtRead. *)
EXTENDS AtRead

MCTexts == <<"first", "second", "third">>
=============================================================================
