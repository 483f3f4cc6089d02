------------------------------ MODULE PkgFiles ------------------------------
(***************************************************************************)
(* The files of a project (PkgFormats) under the commands that write and   *)
(* read them (PkgInstall): what myon.toml and myon.lock hold as texts, and *)
(* what a file means that a user has edited by hand.                       *)
(*                                                                         *)
(* The meaning is stated apart from the parser, line against line, after   *)
(* docs/package_manager.md sections 3, 4 and 6: which lines a good file    *)
(* has, and what they say.                                                 *)
(***************************************************************************)
EXTENDS PkgInstall, PkgFormats

Read(lines)      == [i \in DOMAIN lines |-> TlNext(lines[i])]
Headers(lines)   == {i \in DOMAIN lines : lines[i][1] \in {"section", "tables"}}
Assigns(lines)   == {i \in DOMAIN lines : lines[i][1] = "assign"}
\* The lines under header h; h = 0 stands for the top of the file.
Under(lines, h)  == {i \in Assigns(lines) : i > h /\ \A j \in Headers(lines) : j <= h \/ j > i}
Once(lines, S)   == \A i, j \in S : lines[i][2] = lines[j][2] => i = j
Keys(lines, S)   == {lines[i][2] : i \in S}
TextOf(lines, S, k) == Value(lines[CHOOSE i \in S : lines[i][2] = k])
IsTop(lines)     == Once(lines, Under(lines, 0)) /\
                    {lines[i] : i \in Under(lines, 0)} = {Num("format", 1)}

SectionLines(lines, x) == UNION {Under(lines, h) : h \in {i \in Headers(lines) : lines[i][2] = x}}

MeaningOfManifest(text, file) ==
  LET lines == Read(text)
      own   == SectionLines(lines, file.section)
      deps  == SectionLines(lines, "dependencies")
      good  ==
        /\ \A l \in ToSet(lines) : l[1] \in {"blank", "section", "assign"}
        /\ \A i \in Headers(lines) : lines[i][2] \in {file.section, "dependencies"}
        /\ Once(lines, Headers(lines))
        /\ IsTop(lines)
        /\ Once(lines, own) /\ Keys(lines, own) = DOMAIN file.keys
        /\ \A i \in own : Takes(file.keys[lines[i][2]], lines[i])
        /\ Once(lines, deps) /\ NoName \notin Keys(lines, deps)
        /\ \A i \in deps : Takes("source", lines[i])
  IN IF good
     THEN [fields |-> [k \in DOMAIN file.keys |-> TextOf(lines, own, k)],
           deps   |-> [k \in Keys(lines, deps) |-> TextOf(lines, deps, k)[1][2]]]
     ELSE Refused

MeaningOfLock(text) ==
  LET lines  == Read(text)
      kept(h) == {i \in Under(lines, h) : lines[i][2] # "archive"}
      says(h, k) == TextOf(lines, kept(h), k)
      text0(h, k) == IF k \in Keys(lines, kept(h)) THEN says(h, k) ELSE <<>>
      rev(h) == says(h, "revision")[1][2]
      good ==
        /\ \A l \in ToSet(lines) : l[1] \in {"blank", "tables", "assign"}
        /\ IsTop(lines)
        /\ \A h \in Headers(lines) :
             /\ lines[h][2] = "package"
             /\ Once(lines, kept(h)) /\ Needed \subseteq Keys(lines, kept(h))
             /\ \A i \in Under(lines, h) :
                  lines[i][2] \in DOMAIN LockKeys /\ Takes(LockKeys[lines[i][2]], lines[i])
             /\ Spells(says(h, "source"), "repo")
             /\ text0(h, "dependencies") = <<>> \/ Spells(says(h, "dependencies"), "names")
        /\ \A g, h \in Headers(lines) : says(g, "name") = says(h, "name") => rev(g) = rev(h)
      named(x) == {h \in Headers(lines) : says(h, "name")[1][2] = x}
      entry(h) == [version |-> text0(h, "version"), module |-> text0(h, "module"),
                   source |-> <<says(h, "source")[1][2], rev(h)>>,
                   sha256 |-> says(h, "sha256")[1][2],
                   deps   |-> ParseDepNames(text0(h, "dependencies"))]
  IN IF good
     THEN [x \in {says(h, "name")[1][2] : h \in Headers(lines)} |->
             entry(CHOOSE h \in named(x) : \A g \in named(x) : g <= h)]
     ELSE Refused

-----------------------------------------------------------------------------
(* The files of this project.                                              *)
PkgName(s)  == "pkg" \o ToString(NameOf(s))
RepoOf(s)   == <<NameOf(s), s[3]>>
DepsText(M) == [x \in {PkgName(s) : s \in M} |-> CHOOSE s \in M : PkgName(s) = x]
Word(x)     == Spelt("word", x)

ManifestOf(M) == [fields |-> [name |-> Word("app"), version |-> Word("1")], deps |-> DepsText(M)]
PackageOf(s)  ==
  [fields |-> [name |-> Spelt("name", PkgName(s)), version |-> Word("1"),
               module |-> Spelt("module", PkgName(s))],
   deps |-> DepsText(Deps[s])]
EntryOf(e) ==
  [version |-> Word("1"), module |-> Spelt("module", PkgName(e.src)),
   source |-> <<RepoOf(e.src), RevisionOf(e.src)>>, sha256 |-> e.sha256, deps |-> {PkgName(s) : s \in Deps[e.src]}]
LockOf(L) ==
  [x \in {PkgName(e.src) : e \in L} |-> EntryOf(CHOOSE e \in L : PkgName(e.src) = x)]

(* One slip of the hand: a line lost, doubled, moved past its neighbour,   *)
(* overwritten or added.                                                   *)
Edits(lines, strays) ==
  LET at == DOMAIN lines
      swap(i) == [lines EXCEPT ![i] = lines[i + 1], ![i + 1] = lines[i]]
  IN {RemoveAt(lines, i) : i \in at} \cup {InsertAt(lines, i, lines[i]) : i \in at}
     \cup {swap(i) : i \in at \ {Len(lines)}}
     \cup {ReplaceAt(lines, i, x) : i \in at, x \in strays}
     \cup {InsertAt(lines, i, x) : i \in at, x \in strays}

Quoted == <<Char("backslash"), Char("quote")>>
ManifestStrays ==
  {Garbled, Section("dependencies"), Section("tool"), Tables("package"), Num("format", 2),
   Num("version", 1), Str("version", Quoted), Str("version", <<Char("quote")>>),
   Str(NoName, Word("x")), Str("module", Word("x"))}
     \cup {Str("pkg1", Spelt("source", s)) : s \in Sources}
LockStrays ==
  {Garbled, Section("package"), Tables("package"), Tables("tool"), Num("format", 1),
   Num("version", 1), Str("version", Quoted), Str("module", Word("X")),
   Str("source", Word("x")), Str("revision", Word("x")), Str("dependencies", Word("X y")),
   Str("archive", Word("x")), Str("checksum", Word("x"))}

Locks == UNION {Resolutions(M) : M \in Manifests}

Alphabet == {Char(c) : c \in {"quote", "backslash", "newline", "hash", "n", "x"}}
Short    == BoundedSeq(Alphabet, 3)
Encode(text) ==
  FlattenSeq([i \in DOMAIN text |->
    CASE text[i] = Char("newline") -> <<Char("backslash"), Char("n")>>
      [] text[i] \in {Char("quote"), Char("backslash")} -> <<Char("backslash"), text[i]>>
      [] OTHER -> <<text[i]>>])

\* A text written with its escapes is decoded to itself.  Nothing else is
\* legal, but for what a quote followed by a comment leaves unread.
StringsDecoded ==
  /\ \A t \in Short : TlParseString("k", Encode(t)) = Str("k", t)
  /\ \A raw \in Short :
       LET cut(t) == Encode(t) \o <<Char("quote"), Char("hash")>>
       IN (\A i \in DOMAIN raw : raw[i] # Char("newline")) =>
            (TlParseString("k", raw) = Garbled
               <=> \A t \in Short : Encode(t) # raw /\ ~IsPrefix(cut(t), raw))

\* The texts that pkg_manifest_render and pkg_lock_render, which escape
\* nothing, can write: those with nothing in them that has to be escaped.
\* Any other one is refused when it is read again, or is read as another.
Plain(text) == \A i \in DOMAIN text : text[i] \notin Control \cup {Char("quote"), Char("backslash")}

PlainFieldsReadBack ==
  \A t \in Short :
    /\ \A k \in {"name", "version"} :
         LET m == [ManifestOf({}) EXCEPT !.fields[k] = t]
         IN ManifestParse(ManifestRender(m, ProjectFile), ProjectFile) = m <=> Plain(t)
    /\ \A e \in Archives :
         LET l == PkgName(e.src) :> [EntryOf(e) EXCEPT !.version = t]
         IN LockParse(LockRender(l)) = l <=> Plain(t)

HandEditsUnderstood ==
  /\ \A M \in Manifests : \A f \in Edits(ManifestRender(ManifestOf(M), ProjectFile), ManifestStrays) :
       ManifestParse(f, ProjectFile) = MeaningOfManifest(f, ProjectFile)
  /\ \A s \in Sources : \A f \in Edits(ManifestRender(PackageOf(s), PackageFile), ManifestStrays) :
       ManifestParse(f, PackageFile) = MeaningOfManifest(f, PackageFile)
  /\ \A L \in Locks : \A f \in Edits(LockRender(LockOf(L)), LockStrays) :
       LockParse(f) = MeaningOfLock(f)
  /\ \A L \in Locks, e \in Archives :
       LET f == LockRender(LockOf(L)) \o EntryRender(PkgName(e.src), EntryOf(e))
       IN LockParse(f) = MeaningOfLock(f)

\* The names, versions and dependencies that a command writes to myon.toml
\* and myon.lock the next one reads back as they were, if and only if the
\* free texts among them (name and version of the project, the versions of
\* the packages) are Plain: nothing is escaped.  Comments are no part of it:
\* a file is written anew without them.  A file with a line lost, doubled,
\* moved, overwritten or added by hand is refused, or means what its lines
\* say, of two entries for a package at one commit the later; never something
\* else (pkg_manifest_parse, pkg_package_manifest_parse, pkg_lock_parse and
\* the functions that render, package.c).
FilesReadBack ==
  /\ pc = "idle" =>
       /\ ManifestParse(ManifestRender(ManifestOf(toml), ProjectFile), ProjectFile)
            = ManifestOf(toml)
       /\ LockParse(LockRender(LockOf(lockFile))) = LockOf(lockFile)
  /\ StringsDecoded
  /\ PlainFieldsReadBack
  /\ HandEditsUnderstood
=============================================================================
