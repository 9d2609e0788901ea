-------------------------- MODULE MCOrderedAppender --------------------------
(* Small instances of OrderedAppender for TLC. *)
EXTENDS OrderedAppenderRefinement

\* Expected seqs with a hole at 2.
MCSeqs     == {0, 1, 3}
\* One shard holding them all, or a retried shard around seq 1, whose own
\* shard fails only by aborting the build.
MCOneShard == {{0, 1, 3}}
MCShards   == {{0, 3}}
MCBytes  == [s \in Seqs |-> IF s = 3 THEN 2 ELSE 1]
=============================================================================
