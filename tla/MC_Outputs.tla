----------------------------- MODULE MC_Outputs ------------------------------
(* Two attempts of a run, two uploads of a name, two streams, three publishers. *)
EXTENDS Outputs

OwnAttempt == [u \in Uploads |-> u]

\* A value in a file, one that is part of it, and one that begins with its end.
TextOf == [s \in {"long", "inner", "next"} |->
             CASE s = "long" -> <<"a", "b", "c", " ">> [] s = "inner" -> <<"b", "c">>
               [] OTHER -> <<"c", "d">>]
ProviderOf == [s \in {"long", "inner", "next"} |->
                 CASE s = "long" -> "text-file" [] s = "inner" -> "environment-variable"
                   [] OTHER -> "plugin"]
TokenText == <<"t", "k">>
Around == {<<>>, <<"d">>}

Challenge == [p \in Publishers |->
                CASE p = "p1" -> "bearer" [] p = "p2" -> "basic" [] OTHER -> "nothing"]
=============================================================================
