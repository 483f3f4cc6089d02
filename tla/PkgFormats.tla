----------------------------- MODULE PkgFormats -----------------------------
(***************************************************************************)
(* The files of the package tool (src/src/package.c): myon.toml,           *)
(* package.myon and myon.lock, in a small part of TOML that is read line   *)
(* by line, and written anew as a whole.                                   *)
(*                                                                         *)
(* A string is a sequence of pieces <<kind, x>>: a character that matters  *)
(* to a string literal, or a stretch of others that spells what its kind   *)
(* says - a package name, a source github:<owner>/<repo>@<sha>, ... - and  *)
(* so passes the validator of that kind.  A key is what it spells, NoName  *)
(* one that is no package name.  Dependencies and lock entries are kept    *)
(* sorted by name and a name occurs once: a list of them is a function.    *)
(***************************************************************************)
EXTENDS Naturals, SequencesExt, TLC

NoName == "_"

Char(c)        == <<"char", c>>
Spelt(kind, x) == <<<<kind, x>>>>
Spells(text, kind) == Len(text) = 1 /\ text[1][1] = kind

(* Lines.                                                                  *)
Blank       == <<"blank">>
Garbled     == <<"garbled">>
Section(x)  == <<"section", x>>
Tables(x)   == <<"tables", x>>
Num(k, n)   == <<"assign", k, <<"int", n>>>>
Str(k, raw) == <<"assign", k, <<"string", raw>>>>

IsString(l) == l[3][1] = "string"
Value(l)    == l[3][2]

(* A string ends at the first quote that is not escaped; what is before it *)
(* is decoded, and only blanks or a comment may follow, on its line and on *)
(* those that a newline in the text adds (of these pieces nothing else can *)
(* be spelt that is a line).                                               *)
Escapable == {Char("quote"), Char("backslash"), Char("n"), Char("t"), Char("r")}
Control   == {Char("newline"), Char("tab"), Char("return")}
Escaped(c) ==
  CASE c = Char("n") -> Char("newline")
    [] c = Char("t") -> Char("tab")
    [] c = Char("r") -> Char("return")
    [] OTHER         -> c

Decode(raw) ==
  FoldLeft(LAMBDA s, c :
             CASE s.closed -> [s EXCEPT !.rest = Append(@, c)]
               [] ~s.closed /\ s.esc ->
                    [s EXCEPT !.esc = FALSE, !.ok = @ /\ c \in Escapable,
                              !.text = Append(@, Escaped(c))]
               [] ~s.closed /\ ~s.esc /\ c = Char("backslash") -> [s EXCEPT !.esc = TRUE]
               [] ~s.closed /\ ~s.esc /\ c = Char("quote") -> [s EXCEPT !.closed = TRUE]
               [] OTHER -> [s EXCEPT !.ok = @ /\ c \notin Control, !.text = Append(@, c)],
           [text |-> <<>>, rest |-> <<>>, esc |-> FALSE, closed |-> FALSE, ok |-> TRUE],
           Append(raw, Char("quote")))

SaysNothing(rest) ==
  LET r == SelectSeq(rest, LAMBDA c : c \notin {Char("tab"), Char("return")})
  IN \A i \in DOMAIN r :
       i = 1 \/ r[i - 1] = Char("newline") => r[i] \in {Char("hash"), Char("newline")}

TlParseString(k, raw) ==
  LET s == Decode(raw)
  IN IF s.ok /\ s.closed /\ SaysNothing(s.rest) THEN Str(k, s.text) ELSE Garbled

TlNext(l) ==
  IF l[1] # "assign" THEN l ELSE IF IsString(l) THEN TlParseString(l[2], Value(l)) ELSE l

-----------------------------------------------------------------------------
(* Manifests.  A file says which section it has besides the dependencies,  *)
(* and which kind of text each key of that section takes; "any" is any.    *)
ProjectFile == [section |-> "project", keys |-> [name |-> "any", version |-> "any"]]
PackageFile == [section |-> "package",
                keys |-> [name |-> "name", version |-> "any", module |-> "module"]]

Refused == [refused |-> TRUE]
Refuse(m) == [m EXCEPT !.ok = FALSE]
Takes(kind, l) == IsString(l) /\ (kind = "any" \/ Spells(Value(l), kind))

IsFormat(m, l) == l[2] = "format" /\ ~m.format /\ l[3] = <<"int", 1>>

OnSection(m, x, file) ==
  IF x \in {file.section, "dependencies"} \ m.seen
  THEN [m EXCEPT !.seen = @ \cup {x}, !.sec = x] ELSE Refuse(m)

OnTop(m, l) == IF IsFormat(m, l) THEN [m EXCEPT !.format = TRUE] ELSE Refuse(m)

OnField(m, l, keys) ==
  IF l[2] \notin DOMAIN keys \ DOMAIN m.fields THEN Refuse(m)
  ELSE IF Takes(keys[l[2]], l) THEN [m EXCEPT !.fields = @ @@ (l[2] :> Value(l))]
  ELSE Refuse(m)

BadDepsAdd(m, l) ==    \* the last of two equal keys counts
  IF l[2] # NoName /\ Takes("source", l)
  THEN [m EXCEPT !.deps = (l[2] :> Value(l)[1][2]) @@ @] ELSE Refuse(m)

DepsAdd(m, l) ==
  IF l[2] # NoName /\ Takes("source", l) /\ l[2] \notin DOMAIN m.deps
  THEN [m EXCEPT !.deps = @ @@ (l[2] :> Value(l)[1][2])] ELSE Refuse(m)

ManifestLine(m, l, file) ==
  CASE ~m.ok \/ l[1] = "blank" -> m
    [] m.ok /\ l[1] \in {"garbled", "tables"} -> Refuse(m)
    [] m.ok /\ l[1] = "section" -> OnSection(m, l[2], file)
    [] m.ok /\ l[1] = "assign" ->
         CASE m.sec = "top"          -> OnTop(m, l)
           [] m.sec = "dependencies" -> DepsAdd(m, l)
           [] OTHER                  -> OnField(m, l, file.keys)

ManifestParse(lines, file) ==
  LET m == FoldLeft(LAMBDA s, l : ManifestLine(s, TlNext(l), file),
                    [ok |-> TRUE, sec |-> "top", format |-> FALSE, seen |-> {},
                     fields |-> <<>>, deps |-> <<>>], lines)
  IN IF m.ok /\ m.format /\ DOMAIN file.keys \subseteq DOMAIN m.fields
     THEN [fields |-> m.fields, deps |-> m.deps] ELSE Refused

(* Texts are written as they are, with nothing escaped.                    *)
ManifestRender(m, file) ==
  LET keys == SelectSeq(<<"name", "version", "module">>, LAMBDA k : k \in DOMAIN file.keys)
      deps == SetToSeq(DOMAIN m.deps)
  IN <<Num("format", 1), Blank, Section(file.section)>>
       \o [i \in 1..Len(keys) |-> Str(keys[i], m.fields[keys[i]])]
       \o (IF deps = <<>> THEN <<>> ELSE <<Blank, Section("dependencies")>>)
       \o [i \in 1..Len(deps) |-> Str(deps[i], Spelt("source", m.deps[deps[i]]))]

-----------------------------------------------------------------------------
(* Locks.                                                                  *)
LockKeys == [name |-> "name", version |-> "any", module |-> "module", source |-> "any",
             revision |-> "sha", archive |-> "url", sha256 |-> "sha256", dependencies |-> "any"]
Needed   == {"name", "source", "revision", "sha256"}

Field(cur, k) == IF k \in DOMAIN cur THEN cur[k] ELSE <<>>

(* A package is at one revision; the same one again replaces what was      *)
(* recorded of it.                                                         *)
LockUpsert(l, x, e) ==
  IF x \in DOMAIN l.entries /\ l.entries[x].source[2] # e.source[2] THEN Refuse(l)
  ELSE [l EXCEPT !.entries = (x :> e) @@ @]

ParseDepNames(text) == IF text = <<>> THEN {} ELSE ToSet(text[1][2])

(* FINALISE_ENTRY.                                                         *)
Finalise(l) ==
  LET cur  == l.cur
      deps == Field(cur, "dependencies")
      entry == [version |-> Field(cur, "version"), module |-> Field(cur, "module"),
                source |-> <<cur.source[1][2], cur.revision[1][2]>>,
                sha256 |-> cur.sha256[1][2], deps |-> ParseDepNames(deps)]
      ready == /\ Needed \subseteq DOMAIN cur
               /\ Spells(cur.source, "repo")
               /\ deps = <<>> \/ Spells(deps, "names")
  IN CASE ~l.ok \/ ~l.inEntry -> l
       [] l.ok /\ l.inEntry /\ ready ->
            LockUpsert([l EXCEPT !.inEntry = FALSE, !.cur = <<>>], cur.name[1][2], entry)
       [] OTHER -> Refuse(l)

OnTables(l, x) ==
  LET f == Finalise(l)
  IN IF x = "package" /\ f.ok THEN [f EXCEPT !.inEntry = TRUE] ELSE Refuse(f)

(* The archive can be told from source and revision: checked, not kept.    *)
OnLockKey(l, k, line) ==
  IF k \notin DOMAIN LockKeys THEN Refuse(l)
  ELSE IF ~Takes(LockKeys[k], line) \/ k \in DOMAIN l.cur THEN Refuse(l)
  ELSE IF k = "archive" THEN l ELSE [l EXCEPT !.cur = @ @@ (k :> Value(line))]

LockLine(l, line) ==
  CASE ~l.ok \/ line[1] = "blank" -> l
    [] l.ok /\ line[1] \in {"garbled", "section"} -> Refuse(l)
    [] l.ok /\ line[1] = "tables" -> OnTables(l, line[2])
    [] l.ok /\ line[1] = "assign" ->
         IF l.inEntry THEN OnLockKey(l, line[2], line) ELSE OnTop(l, line)

LockParse(lines) ==
  LET l == Finalise(FoldLeft(LAMBDA s, x : LockLine(s, TlNext(x)),
                             [ok |-> TRUE, format |-> FALSE, inEntry |-> FALSE,
                              cur |-> <<>>, entries |-> <<>>], lines))
  IN IF l.ok /\ l.format THEN l.entries ELSE Refused

EntryRender(x, e) ==
  <<Blank, Tables("package"),
    Str("name", Spelt("name", x)), Str("version", e.version), Str("module", e.module),
    Str("source", Spelt("repo", e.source[1])), Str("revision", Spelt("sha", e.source[2])),
    Str("archive", Spelt("url", e.source)), Str("sha256", Spelt("sha256", e.sha256)),
    Str("dependencies", IF e.deps = {} THEN <<>> ELSE Spelt("names", SetToSeq(e.deps)))>>

LockRender(entries) ==
  LET names == SetToSeq(DOMAIN entries)
  IN <<Num("format", 1)>>
       \o FlattenSeq([i \in 1..Len(names) |-> EntryRender(names[i], entries[names[i]])])
=============================================================================
