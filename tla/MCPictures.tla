------------------------------ MODULE MCPictures ----------------------------
(* Two applications: one with two pictures, of which the second has no big   *)
(* one, and one without any; lists of none, one, and three icons.            *)
EXTENDS Pictures, TLC

CONSTANTS s1, s2, b1, b2, edit, play

MCUrls == {s1, s2, b1, b2}
MCApps == {edit, play}
MCSmall == edit :> <<s1, s2, s2>> @@ play :> <<>>
MCBig == edit :> <<b1, NULL, b2>> @@ play :> <<>>
MCLists == {<<>>, <<edit>>, <<play, edit, play>>}
=============================================================================
