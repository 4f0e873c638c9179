----------------------------- MODULE MCJobCards ------------------------------
(* Analyses for the configurations of JobCards: a video with two qualities,  *)
(* sound and subtitles; and a silent one with one quality.                   *)
EXTENDS JobCards

TwoResults == {[videos |-> <<"sd", "hd">>, audio |-> TRUE, subs |-> {"fr"}],
               [videos |-> <<"only">>, audio |-> FALSE, subs |-> {}]}

=============================================================================
