------------------------------- MODULE MCWire -------------------------------
(* Wire on small texts and payloads. *)
EXTENDS Wire

SmallTexts == {<< >>, <<<<1>>>>, <<Replacement, Replacement>>, <<Mark, <<0>>>>}

SmallPayloads == {<< >>, <<3>>, <<0, 2>>}

NodeBytes == <<1, 0>>

=============================================================================
