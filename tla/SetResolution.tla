--------------------------- MODULE SetResolution ----------------------------
(***************************************************************************)
(* Finding and reading the document set of a document (resolveSet() of     *)
(* dbspec-language/src/set.ts and its node host), and reading a set file   *)
(* whose place is given (readDbspecSet() of set_read.ts), which takes the  *)
(* same steps.  The set files of the document's directories are looked for *)
(* one question to the file system at a time, and the tree may change      *)
(* between two questions.  A path is a sequence of names; a set file's     *)
(* content is what parseSetOn() makes of its bytes, and a document's       *)
(* content the name in its header.                                         *)
(***************************************************************************)
EXTENDS Integers, Sequences, FiniteSets, SequencesExt

CONSTANTS
  Document,    \* the absolute path of the document
  SetName,     \* dbspec-set.json
  Dbs,         \* the names that end in .dbs
  Trees,       \* the file systems to start from, each [entries, bytes]
  Changes(_),  \* what another process may make of a file system
  MaxChanges   \* bound on such changes

VARIABLES
  tree,      \* entries: path -> [kind, ino, to, exact]; bytes: ino -> content
  changes,
  given,     \* the directory of the set file to read, or -1 to resolve
  pc,
  depth,     \* how many names of the document's path the directory has
  owners,    \* the set files found that list the document, nearest first
  errors,    \* the errors so far, as [rule, path]
  i, j,      \* the listed path and the name of it that is examined
  passed,    \* the listed paths that were found to be files
  files,     \* the files read, as [entry, ino, name]
  result

found == <<owners, errors, passed, files>>
vars == <<tree, changes, given, pc, depth, found, i, j, result>>

Init ==
  /\ tree \in Trees
  /\ changes = 0
  /\ given \in -1..(Len(Document) - 1)
  /\ pc = IF given < 0 THEN "hold" ELSE "root"
  /\ depth = IF given < 0 THEN Len(Document) - 1 ELSE given
  /\ owners = <<>> /\ errors = <<>> /\ passed = <<>> /\ files = <<>>
  /\ i = 1 /\ j = 1
  /\ result = [kind |-> "none", owner |-> -1, set |-> {}, diagnostics |-> {}]

-----------------------------------------------------------------------------
(* The file system.  Another spelling of a name is found by the system but *)
(* not listed by it (exact is FALSE).                                      *)

KindAt(at) ==
  IF at = <<>> THEN "directory" ELSE IF at \in DOMAIN tree.entries THEN tree.entries[at].kind ELSE "absent"

Real(at) == IF KindAt(at) = "link" THEN tree.entries[at].to ELSE at

\* Where a path leads without following its last name.  Nothing can be asked
\* about what is in a sealed directory.
Locate(path) ==
  LET enter(acc, name) ==
        LET here == Real(acc.at) IN
        IF acc.why # "" THEN acc
        ELSE IF KindAt(here) # "directory"
        THEN [why |-> IF KindAt(here) = "sealed" THEN "error" ELSE "absent", at |-> <<>>]
        ELSE [why |-> "", at |-> IF name # ".." THEN Append(here, name) ELSE IF here = <<>> THEN here ELSE Front(here)]
  IN FoldLeft(enter, [why |-> "", at |-> <<>>], path)

Kind(why, at) == IF why # "" THEN why ELSE IF KindAt(at) = "sealed" THEN "directory" ELSE KindAt(at)
lstat(path) == LET l == Locate(path) IN Kind(l.why, l.at)
stat(path) == LET l == Locate(path) IN Kind(l.why, Real(l.at))

\* lists(): a directory that cannot be listed is an error.
lists(directory, name) ==
  LET l == Locate(directory)
      at == Real(l.at)
  IN IF l.why # "" \/ KindAt(at) # "directory" THEN "error"
     ELSE IF Append(at, name) \in DOMAIN tree.entries /\ tree.entries[Append(at, name)].exact THEN "yes" ELSE "no"

\* readOnce(): the identity of the file, or 0; a link is not followed.
open(path) == LET l == Locate(path) IN IF l.why = "" /\ KindAt(l.at) = "file" THEN tree.entries[l.at].ino ELSE 0

\* What an examined component must be.
KindError(kind, wanted) ==
  IF kind = wanted THEN "" ELSE IF kind = "link" THEN "set.symlink" ELSE "set.file"

\* normalFormProblem(): a path ends in a .dbs name and goes up only where an
\* external path starts.
NormalForm(w, external) ==
  /\ Last(w) \in Dbs
  /\ \A k \in DOMAIN w : w[k] = ".." => external /\ \A m \in 1..k : w[m] = ".."
  /\ \A k \in DOMAIN w : w[k] \notin {"", "."}

-----------------------------------------------------------------------------
(* Steps 1 and 2, for every directory of the document from its own up.     *)

Directory == SubSeq(Document, 1, depth)
SetFile == Append(Directory, SetName)
Relative(d) == SubSeq(Document, d + 1, Len(Document))

Further == pc' = "hold" /\ depth' = IF given < 0 THEN depth - 1 ELSE -1
Refused(rule) == errors' = Append(errors, [rule |-> rule, path |-> SetFile]) /\ Further

\* holdsSetFile(): an entry that is found and listed by exactly that name.
Hold ==
  /\ pc = "hold" /\ depth >= 0
  /\ \/ lstat(SetFile) = "error" /\ Refused("set.file")
     \/ lstat(SetFile) = "absent" /\ Further /\ UNCHANGED errors
     \/ lstat(SetFile) \notin {"absent", "error"} /\ pc' = "held" /\ UNCHANGED <<depth, errors>>
  /\ UNCHANGED <<tree, changes, given, owners, passed, files, i, j, result>>

HoldListed ==
  /\ pc = "held"
  /\ LET l == lists(Directory, SetName) IN
     \/ l = "no" /\ Further /\ UNCHANGED errors
     \/ l = "error" /\ Refused("set.file")
     \/ l = "yes" /\ pc' = "root" /\ UNCHANGED <<depth, errors>>
  /\ UNCHANGED <<tree, changes, given, owners, passed, files, i, j, result>>

\* readSetFile(): the directory, its listing, the file.
Examined ==
  CASE pc = "root" -> KindError(lstat(Directory), "directory")
    [] pc = "rootList" -> IF lists(Directory, SetName) = "yes" THEN "" ELSE "set.file"
    [] pc = "file" -> KindError(lstat(SetFile), "file")
    [] OTHER -> ""

AfterExamined == [root |-> "rootList", rootList |-> "file", file |-> "read"]

ExamineSetFile ==
  /\ pc \in DOMAIN AfterExamined
  /\ \/ Examined = "" /\ pc' = AfterExamined[pc] /\ UNCHANGED <<depth, errors>>
     \/ Examined # "" /\ Refused(Examined)
  /\ UNCHANGED <<tree, changes, given, owners, passed, files, i, j, result>>

\* A faulty resolveSet() that stops at the nearest set file that lists the
\* document.
ReadSetFileNearest ==
  /\ pc = "read"
  /\ LET ino == open(SetFile)
         c == tree.bytes[ino]
     IN IF ino = 0 THEN Refused("set.file") /\ UNCHANGED owners
        ELSE IF ~c.good THEN Refused("set.json") /\ UNCHANGED owners
        ELSE /\ pc' = "hold"
             /\ \/ /\ Relative(depth) \in ToSet(c.documents)
                   /\ owners' = <<[depth |-> depth, documents |-> c.documents, external |-> c.external]>>
                   /\ depth' = -1
                \/ Relative(depth) \notin ToSet(c.documents) /\ depth' = depth - 1 /\ UNCHANGED owners
             /\ UNCHANGED errors
  /\ UNCHANGED <<tree, changes, given, passed, files, i, j, result>>

\* The set file is read once and parsed; it owns the document when one of its
\* documents paths, as written, leads to it.  The one that was given is read.
ReadSetFile ==
  /\ pc = "read"
  /\ LET ino == open(SetFile)
         c == tree.bytes[ino]
     IN IF ino = 0 THEN Refused("set.file") /\ UNCHANGED owners
        ELSE IF ~c.good THEN Refused("set.json") /\ UNCHANGED owners
        ELSE /\ Further
             /\ owners' = IF given >= 0 \/ Relative(depth) \in ToSet(c.documents)
                          THEN Append(owners, [depth |-> depth, documents |-> c.documents, external |-> c.external])
                          ELSE owners
             /\ UNCHANGED errors
  /\ UNCHANGED <<tree, changes, given, passed, files, i, j, result>>

-----------------------------------------------------------------------------
(* Steps 3 and 4, for the nearest owner.                                   *)

Owner == owners[1]
Entries == Owner.documents \o Owner.external
External(k) == k > Len(Owner.documents)
Joined(k, n) == SubSeq(Document, 1, Owner.depth) \o SubSeq(Entries[k], 1, n)
Path(k) == Joined(k, Len(Entries[k]))

\* The document found no owner, or its owner's paths are examined.
Owned ==
  /\ pc = "hold" /\ depth < 0
  /\ \/ /\ owners # <<>>
        /\ pc' = "entry"
        /\ UNCHANGED result
     \/ /\ owners = <<>>
        /\ pc' = "done"
        /\ result' = [result EXCEPT !.kind = IF errors = <<>> THEN "alone" ELSE "failed"]
  /\ UNCHANGED <<tree, changes, given, depth, found, i, j>>

NextEntry(rule) ==
  /\ errors' = CASE rule = "" -> errors
                 [] rule = "set.path" -> Append(errors, [rule |-> rule, path |-> Append(Joined(i, 0), SetName)])
                 [] OTHER -> Append(errors, [rule |-> rule, path |-> Path(i)])
  /\ passed' = IF rule = "" THEN Append(passed, i) ELSE passed
  /\ i' = i + 1 /\ j' = 1
  /\ pc' = "entry"

\* The next listed path, unless its form is refused; after the last one the
\* files are opened.
Entry ==
  /\ pc = "entry"
  /\ \/ /\ i > Len(Entries)
        /\ pc' = "open" /\ i' = 1
        /\ UNCHANGED <<errors, passed, j>>
     \/ /\ i <= Len(Entries)
        /\ \/ ~NormalForm(Entries[i], External(i)) /\ NextEntry("set.path")
           \/ /\ NormalForm(Entries[i], External(i))
              /\ pc' = IF Entries[i][1] = ".." THEN "lstat" ELSE "list"
              /\ UNCHANGED <<errors, passed, i, j>>
  /\ UNCHANGED <<tree, changes, given, depth, owners, files, result>>

\* examinePath(): the name is listed by its directory.
List ==
  /\ pc = "list"
  /\ \/ /\ lists(Joined(i, j - 1), Entries[i][j]) = "yes"
        /\ pc' = "lstat"
        /\ UNCHANGED <<errors, passed, i, j>>
     \/ /\ lists(Joined(i, j - 1), Entries[i][j]) # "yes"
        /\ NextEntry("set.file")
  /\ UNCHANGED <<tree, changes, given, depth, owners, files, result>>

\* The component is what its place requires; a link on the way of an external
\* path is looked through.
Component(kind) ==
  LET last == j = Len(Entries[i])
      problem == KindError(kind, IF last THEN "file" ELSE "directory")
  IN \/ (last \/ problem # "") /\ NextEntry(problem)
     \/ /\ ~last /\ problem = ""
        /\ j' = j + 1
        /\ pc' = IF Entries[i][j + 1] = ".." THEN "lstat" ELSE "list"
        /\ UNCHANGED <<errors, passed, i>>

Looked == External(i) /\ j < Len(Entries[i]) /\ lstat(Joined(i, j)) = "link"

Lstat ==
  /\ pc = "lstat"
  /\ \/ ~Looked /\ Component(lstat(Joined(i, j)))
     \/ Looked /\ pc' = "stat" /\ UNCHANGED <<errors, passed, i, j>>
  /\ UNCHANGED <<tree, changes, given, depth, owners, files, result>>

Stat ==
  /\ pc = "stat"
  /\ Component(stat(Joined(i, j)))
  /\ UNCHANGED <<tree, changes, given, depth, owners, files, result>>

\* A faulty readListed() that forgets which files it has read.
OpenForgetting ==
  /\ pc = "open" /\ i <= Len(passed)
  /\ LET ino == open(Path(passed[i])) IN
     \/ ino = 0 /\ errors' = Append(errors, [rule |-> "set.file", path |-> Path(passed[i])]) /\ UNCHANGED files
     \/ /\ ino # 0
        /\ files' = Append(files, [entry |-> passed[i], ino |-> ino, name |-> tree.bytes[ino].name])
        /\ UNCHANGED errors
  /\ i' = i + 1
  /\ UNCHANGED <<tree, changes, given, pc, depth, owners, passed, j, result>>

\* Each path that passed is opened once, and a file is read for one path only.
Open ==
  /\ pc = "open" /\ i <= Len(passed)
  /\ LET ino == open(Path(passed[i]))
         fail(rule) == errors' = Append(errors, [rule |-> rule, path |-> Path(passed[i])]) /\ UNCHANGED files
     IN \/ ino = 0 /\ fail("set.file")
        \/ ino # 0 /\ (\E f \in ToSet(files) : f.ino = ino) /\ fail("set.duplicate")
        \/ /\ ino # 0 /\ ~\E f \in ToSet(files) : f.ino = ino
           /\ files' = Append(files, [entry |-> passed[i], ino |-> ino, name |-> tree.bytes[ino].name])
           /\ UNCHANGED errors
  /\ i' = i + 1
  /\ UNCHANGED <<tree, changes, given, pc, depth, owners, passed, j, result>>

\* The listed path that is the document: the first one written as it.
SelfEntry == CHOOSE k \in DOMAIN Owner.documents :
  Owner.documents[k] = Relative(Owner.depth) /\ \A m \in 1..(k - 1) : Owner.documents[m] # Owner.documents[k]

\* A faulty setOf() that keeps the later of two files of one name.
NamedLast == {k \in DOMAIN files : files[k].name # "" /\ ~\E m \in (k + 1)..Len(files) : files[m].name = files[k].name}

\* setOf(): the files that are kept by their names, the first of each name.
Named == {k \in DOMAIN files : files[k].name # "" /\ ~\E m \in 1..(k - 1) : files[m].name = files[k].name}

SetOf ==
  LET own == {files[k].name : k \in {n \in Named : files[n].entry = SelfEntry}} IN
  {[name |-> files[k].name, ino |-> files[k].ino] :
     k \in {n \in Named : files[n].entry # SelfEntry /\ files[n].name \notin own}}

DiagnosticsOf ==
  {[path |-> Path(files[k].entry), rule |-> "header"] : k \in {n \in DOMAIN files : files[n].name = "" /\ files[n].entry # SelfEntry}}
    \cup {[path |-> Path(files[k].entry), rule |-> "name.duplicate"] : k \in {n \in DOMAIN files : files[n].name # ""} \ Named}

\* Every file was read and one set file lists the document, or there is no set.
Resolve ==
  /\ pc = "open" /\ i > Len(passed) /\ given < 0
  /\ pc' = "done"
  /\ \/ /\ errors = <<>> /\ Len(owners) = 1
        /\ result' = [kind |-> "set", owner |-> Owner.depth, set |-> SetOf, diagnostics |-> DiagnosticsOf]
        /\ UNCHANGED errors
     \/ /\ ~(errors = <<>> /\ Len(owners) = 1)
        /\ result' = [result EXCEPT !.kind = "failed", !.owner = Owner.depth]
        /\ errors' = IF Len(owners) > 1 THEN Append(errors, [rule |-> "set.owner", path |-> Document]) ELSE errors
  /\ UNCHANGED <<tree, changes, given, depth, owners, passed, files, i, j>>

\* readDbspecSet(): the files in written order, their bytes not looked at.
ReadGiven ==
  /\ pc = "open" /\ i > Len(passed) /\ given >= 0
  /\ pc' = "done"
  /\ result' = IF errors = <<>>
               THEN [kind |-> "set", owner |-> given, diagnostics |-> {},
                     set |-> {[name |-> files[k].name, ino |-> files[k].ino] : k \in DOMAIN files}]
               ELSE [result EXCEPT !.kind = "failed"]
  /\ UNCHANGED <<tree, changes, given, depth, found, i, j>>

\* Another process changes the file system between two questions.
Change ==
  /\ pc # "done" /\ changes < MaxChanges
  /\ changes' = changes + 1
  /\ tree' \in Changes(tree)
  /\ UNCHANGED <<given, pc, depth, found, i, j, result>>

Next ==
  \/ Hold
  \/ HoldListed
  \/ ExamineSetFile
  \/ ReadSetFile
  \/ Owned
  \/ Entry
  \/ List
  \/ Lstat
  \/ Stat
  \/ Open
  \/ Resolve
  \/ ReadGiven
  \/ Change

Spec == Init /\ [][Next]_vars

-----------------------------------------------------------------------------
(* Properties.                                                             *)

\* Types of the search; what was read stays within what was listed.
TypeOK ==
  /\ pc \in {"hold", "held", "root", "rootList", "file", "read", "entry", "list", "lstat", "stat", "open", "done"}
  /\ {depth, given} \subseteq -1..(Len(Document) - 1)
  /\ changes \in 0..MaxChanges
  /\ owners # <<>> => Len(passed) <= Len(Entries) /\ Len(files) <= Len(passed)
  /\ result.kind \in {"none", "alone", "failed", "set"}

\* ORE-7, docs/spec/editor.md:28: "the reader returns no file of a set that
\* fails, so no partial set is used".  A set is made of every path of its set
\* file, each another file, however the tree changed under the search.
NoPartialSet ==
  result.kind = "set" =>
    /\ errors = <<>>
    /\ [k \in DOMAIN files |-> files[k].entry] = [k \in DOMAIN Entries |-> k]
    /\ \A k, m \in DOMAIN files : k # m => files[k].ino # files[m].ino

(* What the set of the document is in a tree that stands still.            *)
Dir(d) == SubSeq(Document, 1, d)
Holding == {d \in 0..(Len(Document) - 1) : lstat(Append(Dir(d), SetName)) # "absent" /\ lists(Dir(d), SetName) # "no"}
Content(d) == tree.bytes[open(Append(Dir(d), SetName))]
Sound(d) == lists(Dir(d), SetName) = "yes" /\ lstat(Dir(d)) = "directory" /\ lstat(Append(Dir(d), SetName)) = "file" /\ Content(d).good
Listing == {d \in Holding : Sound(d) /\ Relative(d) \in ToSet(Content(d).documents)}
Nearest == CHOOSE d \in Listing : \A e \in Listing : e <= d
Reaches(d, w, external) ==
  /\ NormalForm(w, external)
  /\ \A n \in DOMAIN w :
       LET p == Dir(d) \o SubSeq(w, 1, n) IN
       /\ w[n] # ".." => lists(Front(p), w[n]) = "yes"
       /\ IF n = Len(w) THEN lstat(p) = "file"
          ELSE (IF external THEN stat(p) ELSE lstat(p)) = "directory"
Identities(d) == {open(Dir(d) \o w) : w \in ToSet(Content(d).documents) \cup ToSet(Content(d).external)}
Readable(d) ==
  LET c == Content(d) IN
  /\ \A w \in ToSet(c.documents) : Reaches(d, w, FALSE)
  /\ \A w \in ToSet(c.external) : Reaches(d, w, TRUE)
  /\ Cardinality(Identities(d)) = Len(c.documents) + Len(c.external)

\* docs/spec/editor.md:26-31 (ORE-7, ORE-8 and ORE-10): in a tree that nobody
\* changes the document has the set of the nearest set file that lists it, when
\* every set file above it can be read, no other one lists it and each path of
\* the owner reaches a file of its own; it is alone when none lists it.  A set
\* file that is given is judged by itself.
ResolvesNearest ==
  pc = "done" /\ changes = 0 =>
    result.kind = IF given >= 0 THEN IF Sound(given) /\ Readable(given) THEN "set" ELSE "failed"
                  ELSE IF \E d \in Holding : ~Sound(d) THEN "failed"
                  ELSE IF Listing = {} THEN "alone"
                  ELSE IF Cardinality(Listing) = 1 /\ Readable(Nearest) THEN "set"
                  ELSE "failed"

\* ORE-11, docs/spec/editor.md:32: of several files of one name the set has the
\* first, and each later one has its diagnostic; with a diagnostic or in the set,
\* no other file of the set is forgotten.
EveryFileAccounted ==
  result.kind = "set" /\ given < 0 =>
    \A k \in DOMAIN files :
      files[k].entry # SelfEntry =>
        \/ \E d \in result.diagnostics : d.path = Path(files[k].entry)
        \/ [name |-> files[k].name, ino |-> files[k].ino] \in result.set
           /\ \A m \in 1..(k - 1) : files[m].name # files[k].name
        \/ \E m \in DOMAIN files : files[m].entry = SelfEntry /\ files[m].name = files[k].name

=============================================================================
