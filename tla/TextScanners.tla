---------------------------- MODULE TextScanners ----------------------------
(***************************************************************************)
(* The scanners whose verdicts other modules take as given: what the       *)
(* content gate strips from foundry.toml before it compares two packages   *)
(* (soldeer_gate.rs), what the append-only gate strips from a snapshot     *)
(* (frozen_snapshots.rs), the paths a source file imports                  *)
(* (relative_src_imports.rs) and the globs of prompt-cap (prompt_cap.rs).  *)
(* Each loop is an action, one turn of it a step, next to a definition     *)
(* that reads nothing in order.                                            *)
(*                                                                         *)
(* A text is a sequence of lines, of tokens or of characters, each of them *)
(* one of the kinds the scanner tells apart. A span is a set of positions. *)
(***************************************************************************)
EXTENDS Integers, Sequences, FiniteSets, FiniteSetsExt

CONSTANT Samples  \* what is scanned: [scan, text], and a name for a glob

\* A name that holds a `*` is left out: the code compares characters before it
\* looks for a wildcard, so there a `*` of the pattern matches itself only.
ASSUME SamplesAssumption ==
  \A s \in Samples :
    /\ s.scan \in {"metadata", "dependencies", "imports", "glob"}
    /\ s.text \in Seq({s.text[i] : i \in DOMAIN s.text})
    /\ s.scan = "glob" =>
         s.name \in Seq({s.name[i] : i \in DOMAIN s.name} \ {"*"})

VARIABLES
  sample,
  at,        \* where the scanner is in the text
  found,     \* the positions it has found so far
  inImport,  \* import_paths: whether an import waits for its path
  depth,     \* without_dependencies: the depth of braces,
  runFrom,   \*   where the span of a statement that starts now would start,
  stmt,      \*   the start of the current statement's span, 0 before it starts,
  tokens,    \*   and its first tokens
  nameAt,    \* segment_matches: where it is in the name,
  star,      \*   the last `*` met, 0 before one,
  retry,     \*   how much of the name that `*` leaves,
  verdict    \*   and the answer

lexer == <<depth, runFrom, stmt, tokens>>
matcher == <<nameAt, star, retry, verdict>>
scanVars == <<sample, at, found, inImport, lexer, matcher>>

Text == sample.text
Scanning(scan) == sample.scan = scan /\ at <= Len(Text)

-----------------------------------------------------------------------------
(* strip_release_metadata: lines                                           *)

\* A release-metadata header, any other header, a comment, or the rest.
IsHeader(kind) == kind \in {"metadata", "header"}

\* The first line of the comment block that ends above line i, i without one.
BlockAbove(lines, i, floor) ==
  Min({j \in floor .. i : \A k \in j .. i - 1 : lines[k] = "comment"})
NextHeader(lines, i) ==
  Min({j \in i .. Len(lines) : IsHeader(lines[j])} \union {Len(lines) + 1})
\* The end of the section at i: the next header, less the block attached to it.
SectionEndWithBlock(lines, i, after) == after
SectionEnd(lines, i, after) ==
  IF after <= Len(lines) THEN BlockAbove(lines, after, i + 1) ELSE after

KeepLine ==
  /\ Scanning("metadata")
  /\ Text[at] # "metadata"
  /\ at' = at + 1
  /\ UNCHANGED <<sample, found, inImport, lexer, matcher>>

StripSection ==
  /\ Scanning("metadata")
  /\ Text[at] = "metadata"
  /\ at' = NextHeader(Text, at + 1)
  /\ found' = found \union (BlockAbove(Text, at, 1) .. SectionEnd(Text, at, at') - 1)
  /\ UNCHANGED <<sample, inImport, lexer, matcher>>

-----------------------------------------------------------------------------
(* without_dependencies: tokens of a Solidity file                         *)

Declaration == <<"bytes", "constant", "DEPENDENCIES", "=">>
IsCode(kind) == kind \notin {"space", "natspec", "comment"}

ReadSpace ==
  /\ Scanning("dependencies")
  /\ Text[at] \in {"space", "natspec"}
  /\ at' = at + 1
  /\ UNCHANGED <<sample, found, inImport, lexer, matcher>>

ReadComment ==
  /\ Scanning("dependencies")
  /\ Text[at] = "comment"
  /\ at' = at + 1
  /\ runFrom' = at + 1
  /\ UNCHANGED <<sample, found, inImport, depth, stmt, tokens, matcher>>

\* A statement starts at depth 0, with the span before it; a `;` or a closing
\* brace at depth 0 ends it.
Starts == depth = 0 /\ stmt = 0
Deeper ==
  IF Text[at] = "open" THEN depth + 1
  ELSE IF Text[at] = "close" /\ depth > 0 THEN depth - 1 ELSE depth
ReadCode ==
  /\ Scanning("dependencies")
  /\ IsCode(Text[at])
  /\ at' = at + 1
  /\ runFrom' = at + 1
  /\ depth' = Deeper
  /\ tokens' = LET before == IF Starts THEN <<>> ELSE tokens
               IN  IF depth = 0 /\ Len(before) < Len(Declaration)
                   THEN Append(before, Text[at]) ELSE before
  /\ LET from == IF Starts THEN runFrom ELSE stmt
         ends == Text[at] \in {"semicolon", "close"} /\ Deeper = 0
     IN  /\ stmt' = IF ends THEN 0 ELSE from
         /\ found' = IF ends /\ from # 0 /\ tokens' = Declaration
                     THEN found \union (from .. at) ELSE found
  /\ UNCHANGED <<sample, inImport, matcher>>

-----------------------------------------------------------------------------
(* import_paths: tokens, comments gone and string literals whole           *)

ReadImport ==
  /\ Scanning("imports")
  /\ at' = at + 1
  /\ inImport' = (Text[at] = "import" \/ (inImport /\ Text[at] \notin {"string", "semicolon"}))
  /\ found' = IF Text[at] = "string" /\ inImport THEN found \union {at} ELSE found
  /\ UNCHANGED <<sample, lexer, matcher>>

-----------------------------------------------------------------------------
(* segment_matches: characters                                             *)

Name == sample.name
Matching == sample.scan = "glob" /\ verdict = "none"
IsOne == at <= Len(Text) /\ Text[at] \in {"?", Name[nameAt]}
IsStar == at <= Len(Text) /\ Text[at] = "*"

MatchOne ==
  /\ Matching /\ nameAt <= Len(Name)
  /\ IsOne
  /\ at' = at + 1 /\ nameAt' = nameAt + 1
  /\ UNCHANGED <<sample, found, inImport, lexer, star, retry, verdict>>

MeetStar ==
  /\ Matching /\ nameAt <= Len(Name)
  /\ ~IsOne /\ IsStar
  /\ star' = at /\ at' = at + 1 /\ retry' = nameAt
  /\ UNCHANGED <<sample, found, inImport, lexer, nameAt, verdict>>

\* The last `*` takes one character more.
Backtrack ==
  /\ Matching /\ nameAt <= Len(Name)
  /\ ~IsOne /\ ~IsStar
  /\ star # 0
  /\ at' = star + 1 /\ retry' = retry + 1 /\ nameAt' = retry + 1
  /\ UNCHANGED <<sample, found, inImport, lexer, star, verdict>>

Mismatch ==
  /\ Matching /\ nameAt <= Len(Name)
  /\ ~IsOne /\ ~IsStar
  /\ star = 0
  /\ verdict' = "no"
  /\ UNCHANGED <<sample, at, found, inImport, lexer, nameAt, star, retry>>

NameEnds ==
  /\ Matching /\ nameAt > Len(Name)
  /\ verdict' = IF \A k \in at .. Len(Text) : Text[k] = "*" THEN "yes" ELSE "no"
  /\ UNCHANGED <<sample, at, found, inImport, lexer, nameAt, star, retry>>

-----------------------------------------------------------------------------
ScanStarts ==
  /\ at = 1 /\ found = {} /\ inImport = FALSE
  /\ depth = 0 /\ runFrom = 1 /\ stmt = 0 /\ tokens = <<>>
  /\ nameAt = 1 /\ star = 0 /\ retry = 1 /\ verdict = "none"
ScanInit == sample \in Samples /\ ScanStarts

Scanned == IF sample.scan = "glob" THEN verdict # "none" ELSE at > Len(Text)
ScanDone == Scanned /\ UNCHANGED scanVars

ScanNext ==
  \/ KeepLine \/ StripSection
  \/ ReadSpace \/ ReadComment \/ ReadCode
  \/ ReadImport
  \/ MatchOne \/ MeetStar \/ Backtrack \/ Mismatch \/ NameEnds
  \/ ScanDone

ScanSpec == ScanInit /\ [][ScanNext]_scanVars

-----------------------------------------------------------------------------
(***************************************************************************)
(* Properties, against definitions that read nothing in order.             *)
(***************************************************************************)

\* The header a line belongs to: the one its comment block stands on, else the
\* last one above it; 0 before the first.
Owner(lines, k) ==
  LET attached == {h \in k + 1 .. Len(lines) :
                     IsHeader(lines[h]) /\ \A j \in k .. h - 1 : lines[j] = "comment"}
      above == {h \in 1 .. k : IsHeader(lines[h])}
  IN  IF attached # {} THEN Min(attached) ELSE Max(above \union {0})
OwnedByMetadata(lines) ==
  {k \in DOMAIN lines : Owner(lines, k) # 0 /\ lines[Owner(lines, k)] = "metadata"}

\* The declarations by their place: a statement ends with a `;` or a closing
\* brace outside all braces, and starts after the one before it.
DepthAt(src, p) ==
  Cardinality({q \in 1 .. p : src[q] = "open"}) - Cardinality({q \in 1 .. p : src[q] = "close"})
Balanced(src) == \A p \in DOMAIN src : DepthAt(src, p) >= 0
Ends(src) == {p \in DOMAIN src : src[p] \in {"semicolon", "close"} /\ DepthAt(src, p) = 0}
CodeOf(src, e) ==
  {p \in Max({q \in Ends(src) : q < e} \union {0}) + 1 .. e : IsCode(src[p])}
Declares(src, e) ==
  \E p1, p2, p3, p4 \in CodeOf(src, e) :
    /\ p1 < p2 /\ p2 < p3 /\ p3 < p4
    /\ \A q \in CodeOf(src, e) : q <= p4 => q \in {p1, p2, p3, p4}
    /\ <<src[p1], src[p2], src[p3], src[p4]>> = Declaration
SpanStart(src, first) ==
  Max({q \in 1 .. first - 1 : IsCode(src[q]) \/ src[q] = "comment"} \union {0}) + 1
DependencySpans(src) ==
  UNION {SpanStart(src, Min(CodeOf(src, e))) .. e : e \in {p \in Ends(src) : Declares(src, p)}}

\* The first string between the word `import` and the `;` that ends it.
FirstStrings(src) ==
  {p \in DOMAIN src :
     /\ src[p] = "string"
     /\ \E q \in 1 .. p - 1 :
          src[q] = "import" /\ \A r \in q + 1 .. p - 1 : src[r] \notin {"string", "semicolon"}}

\* A cut of the name into one piece per character of the pattern: any piece for
\* `*`, one character for `?`, the character itself otherwise.
Fits(p, n) ==
  \E cut \in [0 .. Len(p) -> 0 .. Len(n)] :
    /\ cut[0] = 0 /\ cut[Len(p)] = Len(n)
    /\ \A k \in DOMAIN p :
         IF p[k] = "*" THEN cut[k] >= cut[k - 1]
         ELSE cut[k] = cut[k - 1] + 1 /\ p[k] \in {"?", n[cut[k]]}

\* Each scanner finds what its definition says, wherever comments, headers,
\* braces and wildcards stand: a section leaves with the comment block on its
\* header and without the block on the next; a declaration leaves with its
\* NatSpec wherever it stands outside braces; only the first string of an
\* import is its path; a glob matches the names it describes. The braces of a
\* snapshot are balanced.
ScansAreExact ==
  Scanned =>
    /\ sample.scan = "metadata" => found = OwnedByMetadata(Text)
    /\ sample.scan = "dependencies" /\ Balanced(Text) => found = DependencySpans(Text)
    /\ sample.scan = "imports" => found = FirstStrings(Text)
    /\ sample.scan = "glob" => (verdict = "yes" <=> Fits(Text, Name))
=============================================================================
