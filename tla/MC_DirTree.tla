---------------------------- MODULE MC_DirTree ----------------------------
(* Model-checking instance of DirTree: the paths a caller passes.          *)
EXTENDS DirTree

CONSTANTS d, e, f, sep

\* A caller that creates f as a file and then a file under the path f/f.
LeakDirPaths == {}
LeakFilePaths == {<<f>>, <<f, sep, f>>}
=============================================================================
