---------------------------- MODULE MCPkgInstall ----------------------------
\* Two packages; the second revision of package 1, which two repositories
\* have, depends on package 2.
EXTENDS PkgFiles

MCSources == {<<1, 1, "a">>, <<1, 2, "a">>, <<1, 2, "b">>, <<2, 1, "a">>}
MCDeps ==
    [s \in MCSources |-> IF RevisionOf(s) = 2 THEN {<<2, 1, "a">>} ELSE {}]

\* Nothing tells one archive's bytes from another's but their being equal.
HashSymmetry == Permutations(Hashes)
=============================================================================
