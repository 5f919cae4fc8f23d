------------------------------ MODULE MCContent ------------------------------
(* Instances of Content for TLC.                                            *)
EXTENDS Content, TLC

\* Rule 2 is in every feed that has rules which compile; rule 1 is retired and
\* comes back, rule 3 is new in the second feed.
FeedRules == 1 :> <<2, 1>> @@ 2 :> <<3, 2>> @@ 3 :> <<1, 3>>
FeedSigs == 1 :> <<1>> @@ 2 :> <<1, 2>> @@ 3 :> <<3>>

\* Every rule is complete, or rule 1 needs rule 2.
SomeAlone == {Rules, {2, 3}}
AllAlone == {Rules}
=============================================================================
