------------------------------- MODULE MCCodec -------------------------------
(* Words of all tables, spelled right and wrong.                           *)
EXTENDS Codec

MCTexts ==
  {<<>>, <<"is">>, <<"IS", "NOT">>} \cup
  {<<w>> : w \in UNION {Range(Table[part]) : part \in Parts}}
=============================================================================
