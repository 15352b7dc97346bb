---------------------------- MODULE MCProjectTool ----------------------------
(* ProjectTool from the versions next to a carry.                          *)
EXTENDS ProjectTool

MCStarts == {<<0, 6, 9>>, <<0, 7, 8>>, <<0, 8, 0, 8>>, <<0, 9, 9, 9>>,
             <<9, 9, 9, 9>>}
=============================================================================
