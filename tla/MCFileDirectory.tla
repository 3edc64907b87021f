-------------------------- MODULE MCFileDirectory --------------------------
(* Two folder names, a file name in each; the owner and one sharee.        *)
EXTENDS FileDirectory

MCFolders == {<<"a">>, <<"b">>}
MCSymmetry == Permutations(Threads)
=============================================================================
