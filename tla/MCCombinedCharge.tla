-------------------------- MODULE MCCombinedCharge --------------------------
EXTENDS CombinedCharge, TLC

CONSTANTS p1, p2, p3, t1, t2

TwoRows   == {p1, p2}
ThreeRows == {p1, p2, p3}
OneTab    == {t1}
TwoTabs   == {t1, t2}

Stoppages == {"hook_dies", "review_dies", "note_lost", "early_decline"}
Haste == {"hasty"}
RowSymmetry == Permutations(Rows) \cup Permutations(Tabs)
=============================================================================
