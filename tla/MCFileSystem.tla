---------------------------- MODULE MCFileSystem ----------------------------
(***************************************************************************)
(* Paths for TLC.                                                          *)
(***************************************************************************)
EXTENDS FileSystem

CONSTANTS a, b

\* Directories in directories, so that rm -r meets grandchildren, and two
\* names side by side.
DeepPaths == {<<a>>, <<b>>, <<a, a>>, <<a, a, a>>}

\* Names in the root, which two shells create at the same time.
RootPaths == {<<a>>, <<b>>}
=============================================================================
