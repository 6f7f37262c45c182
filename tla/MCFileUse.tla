------------------------------- MODULE MCFileUse -------------------------------
\* Instances of FileUse for TLC.
EXTENDS FileUse, TLC

UploadSymmetry == Permutations(Tokens) \cup Permutations(Files)
================================================================================
