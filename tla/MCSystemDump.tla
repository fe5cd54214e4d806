---------------------------- MODULE MCSystemDump ----------------------------
(***************************************************************************)
(* Instances of SystemDump for TLC.                                        *)
(***************************************************************************)
EXTENDS SystemDump

\* Workers, unknown hashes and pids of one kind are interchangeable.
Accessible == Pids \ Protected
Symmetry ==
  UNION {Permutations(S) : S \in {Accessible \cap Loaders, Accessible \ Loaders,
                                  Workers, Hashes \ Known}}
=============================================================================
