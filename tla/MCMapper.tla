------------------------------ MODULE MCMapper ------------------------------
(***************************************************************************)
(* An interface with a pointer, two structs, one of them written as a      *)
(* tuple, a struct whose tuple has another size, and two boxes.            *)
(***************************************************************************)
EXTENDS Mapper

MCImplementers == {"Ptr", "Val", "Pair", "Triple", "Box", "ValBox"}

MCBodyOf ==
  [t \in {"Ptr", "Val", "Pair", "Triple"} |->
     CASE t = "Pair" -> <<"arr2", "num", "val">>
       [] t = "Triple" -> <<"arr3", "str", "val">>
       [] OTHER -> <<"val">>]

\* With a gap, as after an implementer that is gone.
MCID ==
  [t \in MCImplementers |->
     CASE t = "Val" -> 1 [] t = "Ptr" -> 2 [] t = "Box" -> 3
       [] t = "Pair" -> 5 [] t = "Triple" -> 6 [] t = "ValBox" -> 7]

MCShapes ==
  {<<>>, <<"Ptr">>, <<"Val">>, <<"Pair">>, <<"Triple">>,
   <<"Box">>, <<"ValBox", "Pair">>, <<"Box", "Box", "Val">>}

\* All, and what there was before two of them, one with an ID below the rest.
MCGenerations == {MCImplementers, MCImplementers \ {"Val", "Pair"}}
=============================================================================
