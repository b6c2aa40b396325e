------------------------------ MODULE MCCodec ------------------------------
(***************************************************************************)
(* Codec with a path or none, reply addresses that fill zero, one, two and *)
(* three words of the reply address field (one with a leading zero), and   *)
(* data of three lengths.                                                  *)
(***************************************************************************)
EXTENDS Codec

MCPaths      == {<<>>, <<3, 31>>}
MCReplyAddrs == {<<>>, <<5>>, <<0, 7, 0, 9>>, <<1, 2, 3, 4, 5>>,
                 [i \in 1 .. 12 |-> i]}
MCDatas      == {<<>>, <<0>>, <<255, 1, 128>>}

=============================================================================
