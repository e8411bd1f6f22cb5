----------------------------- MODULE MCWallClock -----------------------------
(* Instances of WallClock for TLC: days of Day units, rules that name times of *)
(* day, and a change of offset in the middle of the period.                    *)
EXTENDS WallClock, FiniteSetsExt

CONSTANTS Day, MaxOffset, Change

Offsets == -MaxOffset .. MaxOffset

MCZones == [before : Offsets, after : Offsets, change : {Change}]

\* One or two times of day.
MCRules == {{a, b} : a \in 0 .. Day - 1, b \in 0 .. Day - 1}

MCWallTimes == Start - MaxOffset .. End + MaxOffset

\* Every rule ends with the last wall time of the period.
MCNextWall ==
    LET ahead(r, w) == {v \in w + 1 .. End : v % Day \in r}
    IN [r \in MCRules |-> [w \in MCWallTimes |->
          IF ahead(r, w) = {} THEN Never ELSE Min(ahead(r, w))]]
=============================================================================
