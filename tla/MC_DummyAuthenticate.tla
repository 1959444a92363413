------------------------ MODULE MC_DummyAuthenticate ------------------------
(* Names over two letters; keys of up to five characters, so that keys    *)
(* with two "/" and one or two "@", empty pieces and both separators in    *)
(* one key all occur.  The file may list a plain user, an email user, the  *)
(* empty name, or none of them, in either list.                            *)
EXTENDS DummyAuthenticate

MCFileUsers == {<<"a">>, <<"b">>, <<"a", "@", "b">>, <<>>}
MCConfigIDs == {<<>>, <<"a">>, <<"b", "a">>, <<"a", "@">>, <<"a", "/">>}
=============================================================================
