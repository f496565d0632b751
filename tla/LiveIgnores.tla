----------------------------- MODULE LiveIgnores -----------------------------
(***************************************************************************)
(* Which findings of the design detector the overlay hides on a page.  The *)
(* project's waivers name project files; the page only knows its URL, and  *)
(* has to work out which file it is (live-browser-ignores.js).             *)
(*                                                                         *)
(* A path is a sequence of segments and a glob the set of paths it names;  *)
(* what is left out is how a glob is written, and entries of a wrong type. *)
(* External: the dev server's document root, the configuration the live    *)
(* server hands over, and the command line's detector, which sees the file.*)
(***************************************************************************)
EXTENDS Sequences, FiniteSets, SequencesExt

CONSTANTS
  Directories,   \* bound: the directories of the project
  Rules, Values  \* of findings; normalised

\* A directory is a sequence of segments.
ASSUME IgnoresAssumption ==
  /\ << >> \in Directories /\ "*" \notin Values
  /\ IsFiniteSet(Directories) /\ \A d \in Directories : d \in Seq(Range(d))

VARIABLES
  project,     \* the pages served, the roots of the inject config's globs, the document root, and whether the pages could be listed
  visited,     \* the page open in the browser, if any, and whether its URL is that of its directory
  waivers      \* .impeccable's detector ignores

ivars == <<project, visited, waivers>>

Leaves == {"index.html", "foo.html"}
Paths == {Append(d, l) : d \in Directories, l \in Leaves}

\* The globs tried: one file, or everything in a directory.
Globs == {{p} : p \in Paths} \cup {{p \in Paths : IsStrictPrefix(d, p)} : d \in Directories \ {<< >>}}

\* value "*" is a wildcard; no globs: not scoped.
Waivers ==
  [kind : {"file"}, globs : {{g} : g \in Globs}]
  \cup [kind : {"rule"}, rule : Rules]
  \cup [kind : {"value"}, rule : Rules, value : Values \cup {"*"}, globs : {{}} \cup {{g} : g \in Globs}]

NoPage == [slash |-> FALSE]

Findings == [rule : Rules, value : Values]

\* One document root lies at or above every page, and every page lies under a root of the globs.
Projects ==
  {p \in [pages : SUBSET Paths, roots : SUBSET Directories, docroot : Directories, listed : BOOLEAN] :
     /\ Cardinality(p.pages) \in 1 .. 2 /\ Cardinality(p.roots) \in 1 .. 2
     /\ \A r \in p.roots : IsPrefix(p.docroot, r) /\ \E f \in p.pages : IsStrictPrefix(r, f)
     /\ \A f \in p.pages : \E r \in p.roots : IsStrictPrefix(r, f)}

IgnoresTypeOK ==
  /\ project \in [pages : SUBSET Paths, roots : SUBSET Directories, docroot : Directories, listed : BOOLEAN]
  /\ visited \in [file : Paths, slash : BOOLEAN] \cup {NoPage}
  /\ waivers \subseteq Waivers

----------------------------------------------------------------------------
(* live-browser-ignores.js                                                 *)

\* decodeURIComponent and the index of a directory URL are done: the path a URL asks for.
PagePath(url, slash) == IF slash \/ url = << >> THEN Append(url, "index.html") ELSE url

PathSuffixes(path) == Suffixes(path) \ {<< >>}

KnownPages(path, pageFiles) == {f \in pageFiles : IsSuffix(path, f)}

CommonRoot(roots) == LongestCommonPrefix(roots)

\* Mutant of PageCandidates: every page listed that fits the URL counts.
PageCandidatesOfAll(path, roots, pageFiles) ==
  PathSuffixes(path) \cup UNION {PathSuffixes(f) : f \in KnownPages(path, pageFiles)}

\* pageCandidates: the one page listed that fits the URL, else the URL below the common root.
PageCandidates(path, roots, pageFiles) ==
  LET known == KnownPages(path, pageFiles)
      common == CommonRoot(roots)
  IN PathSuffixes(path) \cup
     CASE Cardinality(known) = 1 -> UNION {PathSuffixes(f) : f \in known}
       [] Cardinality(known) # 1 /\ common # << >> -> PathSuffixes(common \o path)
       [] OTHER -> {}

MatchesScope(globs, candidates) == \E g \in globs : g \cap candidates # {}

\* resolveDetectIgnores
ResolveDetectIgnores(W, candidates) ==
  LET skipped == \E w \in W : w.kind = "file" /\ MatchesScope(w.globs, candidates)
      valued == {w \in W : w.kind = "value"}
  IN IF skipped THEN [skipScan |-> TRUE, disabledRules |-> {}, disabledValues |-> {}]
     ELSE [skipScan |-> FALSE,
           disabledRules |-> {w.rule : w \in {v \in W : v.kind = "rule"}}
             \cup {w.rule : w \in {v \in valued : v.value = "*" /\ MatchesScope(v.globs, candidates)}},
           disabledValues |->
             {[rule |-> w.rule, value |-> w.value] :
                w \in {v \in valued : v.value # "*" /\ (v.globs = {} \/ MatchesScope(v.globs, candidates))}}]

\* The detector, for a scan with these ignores.
HiddenByOverlay(finding, ignores) ==
  ignores.skipScan \/ finding.rule \in ignores.disabledRules \/ finding \in ignores.disabledValues

----------------------------------------------------------------------------
(* The command line, which knows the file and matches every suffix of it.  *)

HiddenByCli(finding, W, file) ==
  \E w \in W :
    CASE w.kind = "file" -> MatchesScope(w.globs, PathSuffixes(file))
      [] w.kind = "rule" -> w.rule = finding.rule
      [] w.kind = "value" ->
           /\ w.rule = finding.rule /\ w.value \in {"*", finding.value}
           /\ \/ w.globs = {} /\ w.value # "*"
              \/ MatchesScope(w.globs, PathSuffixes(file))

----------------------------------------------------------------------------
(* The browser.                                                            *)

Url(file) == SubSeq(file, Len(project.docroot) + 1, Len(file))
AskedPath ==
  LET url == Url(visited.file)
  IN IF visited.slash THEN PagePath(Front(url), TRUE) ELSE PagePath(url, FALSE)
PageFiles == IF project.listed THEN project.pages ELSE {}

Visitable(f, slash) == f \in project.pages /\ (slash => Last(f) = "index.html")

IgnoresInit ==
  /\ project \in Projects
  /\ \E w \in Waivers : waivers \in {{}, {w}}
  /\ visited = NoPage

\* A page of the project is opened, by either form of its URL.
Browse ==
  /\ \E f \in Paths, slash \in BOOLEAN : Visitable(f, slash) /\ visited' = [file |-> f, slash |-> slash]
  /\ UNCHANGED <<project, waivers>>

IgnoresNext == Browse

IgnoresSpec == IgnoresInit /\ [][IgnoresNext]_ivars

----------------------------------------------------------------------------
(* Properties.                                                             *)

\* The URL tells the file: one listed page fits it, or the document root is the common root.
Certain ==
  Cardinality(KnownPages(AskedPath, PageFiles)) = 1 \/ project.docroot = LongestCommonPrefix(project.roots)

\* On the page of a certain file the overlay hides the findings that the command line and the edit
\* hook hide in that file, no more (a page never borrows the waivers of another file of the same
\* name) and no fewer (pageCandidates, resolveDetectIgnores; "the overlay filters the same findings
\* the CLI and the edit hook do", at requestDetectScan).
OverlayAgreesWithCli ==
  visited # NoPage /\ Certain =>
    LET ignores == ResolveDetectIgnores(waivers, PageCandidates(AskedPath, project.roots, PageFiles))
    IN \A f \in Findings : HiddenByOverlay(f, ignores) <=> HiddenByCli(f, waivers, visited.file)
=============================================================================
