------------------------------ MODULE PkgGraph ------------------------------
(***************************************************************************)
(* Dependency graphs of packages.  A source (owner/repo@sha) is a tuple    *)
(* <<name, revision>>, or <<name, revision, location>> where the commit    *)
(* and the repository it is fetched from (a fork has it too) are told      *)
(* apart; deps maps a source to the dependencies listed in its             *)
(* package.myon.                                                           *)
(***************************************************************************)
EXTENDS Naturals, FiniteSets

NameOf(s) == s[1]
RevisionOf(s) == s[2]

\* No manifest holds the same key twice (deps_add, pkg_manifest_upsert_dep).
ManifestsOver(Sources) ==
    {D \in SUBSET Sources : \A s, u \in D : NameOf(s) = NameOf(u) => s = u}

\* D and everything it depends on: what is in every set of sources that has
\* D and the dependencies of its members.
Closure(deps, D) ==
    {s \in DOMAIN deps :
        \A S \in SUBSET DOMAIN deps :
            D \subseteq S /\ (\A u \in S : deps[u] \subseteq S) => s \in S}

OneRevisionEach(D) == \A s, u \in D : NameOf(s) = NameOf(u) => s = u

Acyclic(deps, D) ==
    \A s \in Closure(deps, D) : s \notin Closure(deps, deps[s])
=============================================================================
