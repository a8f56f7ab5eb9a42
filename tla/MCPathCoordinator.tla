-------------------------- MODULE MCPathCoordinator --------------------------
(* TLC instance of PathCoordinator: three names behind links, and three      *)
(* renames each of which can need what the next one holds, or work on the    *)
(* directory above one of the targets.                                       *)
EXTENDS PathCoordinator

D  == <<"d">>
DF == <<"d", "f">>
EG == <<"e", "g">>
HI == <<"h", "i">>
ToDF == <<"k", "f">>
ToEG == <<"l", "g">>
ToHI == <<"m", "i">>

MCPaths == {D, DF, EG, HI, ToDF, ToEG, ToHI}
MCTargets == [p \in MCPaths |->
  CASE p = ToDF -> {DF, ToDF} [] p = ToEG -> {EG} [] p = ToHI -> {HI} [] OTHER -> {p}]
MCRequests == {<<ToDF, EG>>, <<ToEG, HI>>, <<ToHI, DF>>, <<D>>}
=============================================================================
