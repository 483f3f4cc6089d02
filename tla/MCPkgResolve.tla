---------------------------- MODULE MCPkgResolve ----------------------------
\* Instances of PkgResolve: three packages, two revisions of the first; the
\* second revision declares the module namespace of package 3.
EXTENDS PkgResolve

MCSources == {<<1, 1>>, <<1, 2>>, <<2, 1>>, <<3, 1>>}
MCModuleOf == [s \in MCSources |-> IF s = <<1, 2>> THEN 3 ELSE s[1]]
=============================================================================
