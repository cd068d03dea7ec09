----------------------------- MODULE MCSolvCache -----------------------------
EXTENDS SolvCache, TLC

ProcSymmetry == Permutations(Proc)
ExtsInOrder == <<"FILENAMES", "OTHER", "UPDATEINFO">>
TwoExts == <<"FILENAMES", "UPDATEINFO">>
=============================================================================
