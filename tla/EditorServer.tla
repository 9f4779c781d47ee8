--------------------------- MODULE EditorServer -----------------------------
(***************************************************************************)
(* The language server (dbspec-lsp/src/server.ts) beside the command line  *)
(* dbspec-fmt (dbspec-language/src/cli/main.ts) on the files of one        *)
(* document set.  The editor's buffers reach the server through a queue of *)
(* messages and changes of the disk through the client's file events;      *)
(* refresh() analyzes the open documents one after the other.  How a set   *)
(* is found is the subject of SetResolution: here the set file lists all   *)
(* files or is unsound or absent.  A text is the name in its header, the   *)
(* document it uses, whether it has the table that such a use refers to,   *)
(* whether it has a diagnostic of its own and whether it is canonical.     *)
(***************************************************************************)
EXTENDS Integers, Sequences, FiniteSets, SequencesExt

CONSTANTS
  Order,      \* the files, in the written order of the set file
  Texts,      \* texts a file can have
  Disks,      \* the file systems to start from
  MaxEdits,   \* bound on what people and other programs do
  MaxQueue    \* bound on the messages under way

Files == ToSet(Order)
Absent == [name |-> "absent"]
Closed == [name |-> "closed"]
NoReply == [file |-> "none"]

VARIABLES
  disk, setFile,         \* the file system
  editor,                \* the buffers of the client
  pending,               \* the client has a file event to send
  watching,              \* the client takes the registration of watchers
  queue,                 \* the messages from the client to the server
  texts, analyses,       \* the server's documents and their analyses
  todo, byUri, busy,     \* refresh(): what is left, what it found, that it runs
  published, shown,      \* the URIs with diagnostics, and what the client shows
  reply,                 \* the answer to a formatting request
  fmt, status, disturbed, \* dbspec-fmt: where it is, its exit status
  edits

files == <<disk, setFile>>
server == <<texts, analyses, todo, byUri, busy, published, shown>>
command == <<fmt, status, disturbed>>
vars == <<files, editor, pending, watching, queue, server, reply, command, edits>>

None == [f \in Files |-> {}]
Idle == [pc |-> "out", mode |-> "check", k |-> 0, text |-> Absent, failed |-> FALSE]

Init ==
  /\ disk \in Disks
  /\ setFile \in {"good", "absent"}
  /\ editor = [f \in Files |-> Closed]
  /\ pending = FALSE
  /\ watching \in BOOLEAN
  /\ queue = <<>>
  /\ texts = [f \in Files |-> Closed]
  /\ analyses = [f \in Files |-> Closed]
  /\ todo = {} /\ byUri = None /\ busy = FALSE
  /\ published = {} /\ shown = None
  /\ reply = NoReply
  /\ fmt = Idle /\ status = 0 /\ disturbed = FALSE
  /\ edits = 0

-----------------------------------------------------------------------------
(* Resolution and analysis.                                                *)

Formatted(t) == [t EXCEPT !.canonical = TRUE]

\* The content of a listed file as a host opens it: the server's own buffer wins.
OpenedBy(d, ts) == [f \in Files |-> IF d[f] # Absent /\ ts[f] # Closed THEN ts[f] ELSE d[f]]

\* resolveSet() of f over the given contents: the other files by name, and the
\* diagnostics at other files.
Resolved(f, opened, found) ==
  LET before(g) == {Order[m] : m \in 1..((CHOOSE n \in DOMAIN Order : Order[n] = g) - 1)}
      repeats(g) == \E h \in before(g) : opened[h].name = opened[g].name
      named == {g \in Files : opened[g].name # "" /\ ~repeats(g)}
      own == {opened[g].name : g \in named \cap {f}}
  IN IF found = "absent" THEN [ok |-> TRUE, set |-> {}, at |-> None]
     ELSE IF found = "unsound" \/ \E g \in Files : opened[g] = Absent THEN [ok |-> FALSE, set |-> {}, at |-> None]
     ELSE [ok |-> TRUE, set |-> {opened[g] : g \in {h \in named \ {f} : opened[h].name \notin own}},
           at |-> [g \in Files |-> IF opened[g].name = "" THEN IF g = f THEN {} ELSE {"header"}
                                   ELSE IF repeats(g) THEN {"name.duplicate"} ELSE {}]]

\* openDocument(): what the parse of the text with the set reports.
Diagnosed(t, set) ==
  (IF t.bad \/ t.name = "" THEN {"own"} ELSE {})
    \cup (IF t.uses = "" THEN {}
          ELSE IF ~\E s \in set : s.name = t.uses THEN {"use"}
          ELSE IF \E s \in set : s.name = t.uses /\ s.table THEN {} ELSE {"reference"})

-----------------------------------------------------------------------------
(* The client.                                                             *)

Room == Len(queue) < MaxQueue
Send(kind, f, t) == queue' = Append(queue, [kind |-> kind, file |-> f, text |-> t])
Edit == edits < MaxEdits /\ edits' = edits + 1

\* A document is opened with the text on disk, or its buffer changes.
OpenOrChange(f, t) ==
  /\ Edit /\ Room
  /\ IF editor[f] = Closed THEN disk[f] # Absent /\ t = disk[f] ELSE t # editor[f]
  /\ editor' = [editor EXCEPT ![f] = t]
  /\ Send("text", f, t)
  /\ UNCHANGED <<files, pending, watching, server, reply, command>>

Close(f) ==
  /\ Edit /\ Room /\ editor[f] # Closed
  /\ editor' = [editor EXCEPT ![f] = Closed]
  /\ Send("close", f, Closed)
  /\ UNCHANGED <<files, pending, watching, server, reply, command>>

\* The buffer is saved, or another program changes a file or the set file.
ChangeDisk ==
  /\ Edit
  /\ \/ \E f \in Files : editor[f] # Closed /\ disk' = [disk EXCEPT ![f] = editor[f]] /\ UNCHANGED setFile
     \/ \E f \in Files, t \in Texts \cup {Absent} : disk' = [disk EXCEPT ![f] = t] /\ UNCHANGED setFile
     \/ setFile' \in {"good", "unsound", "absent"} /\ UNCHANGED disk
  /\ files' # files
  /\ pending' = watching
  /\ disturbed' = (fmt.pc # "out")
  /\ UNCHANGED <<editor, watching, queue, server, reply, fmt, status>>

FileEvent ==
  /\ pending /\ Room
  /\ pending' = FALSE
  /\ Send("watched", Order[1], Closed)
  /\ UNCHANGED <<files, editor, watching, server, reply, command, edits>>

\* A request to format the buffer f.
AskFormat(f) ==
  /\ Edit /\ Room /\ editor[f] # Closed /\ reply = NoReply
  /\ Send("format", f, editor[f])
  /\ UNCHANGED <<files, editor, pending, watching, server, reply, command>>

\* The edits are applied unless the buffer changed since the request.
ApplyReply ==
  /\ reply # NoReply /\ Room
  /\ reply' = NoReply
  /\ IF reply.edits /\ editor[reply.file] = reply.asked /\ editor[reply.file] # reply.text
     THEN editor' = [editor EXCEPT ![reply.file] = reply.text] /\ Send("text", reply.file, reply.text)
     ELSE UNCHANGED <<editor, queue>>
  /\ UNCHANGED <<files, pending, watching, server, command, edits>>

-----------------------------------------------------------------------------
(* The server.                                                             *)

\* A faulty server that analyzes again only the document of the message.
RefreshOne(ts, f) ==
  /\ busy' = TRUE
  /\ todo' = {f} \cap {g \in Files : ts[g] # Closed}
  /\ analyses' = [g \in Files |-> IF ts[g] = Closed THEN Closed ELSE analyses[g]]
  /\ byUri' = [g \in Files |-> IF g = f THEN {} ELSE shown[g]]

\* A faulty refresh() that keeps the analyses of documents that were closed.
RefreshKeeping(ts, f) ==
  /\ busy' = TRUE
  /\ todo' = {g \in Files : ts[g] # Closed}
  /\ byUri' = None
  /\ UNCHANGED analyses

\* refresh() starts: every open document is analyzed again.
Refresh(ts, f) ==
  /\ busy' = TRUE
  /\ todo' = {g \in Files : ts[g] # Closed}
  /\ analyses' = [g \in Files |-> Closed]
  /\ byUri' = None

\* The buffer of a document changes or closes, or a watched file changed.
Receive ==
  /\ ~busy /\ queue # <<>> /\ Head(queue).kind # "format"
  /\ queue' = Tail(queue)
  /\ texts' = IF Head(queue).kind = "watched" THEN texts ELSE [texts EXCEPT ![Head(queue).file] = Head(queue).text]
  /\ Refresh(texts', Head(queue).file)
  /\ UNCHANGED <<files, editor, pending, watching, published, shown, reply, command, edits>>

\* One document of refresh(): its set is resolved on the disk as it is now.
Analyze(f) ==
  /\ busy /\ f \in todo
  /\ todo' = todo \ {f}
  /\ LET r == Resolved(f, OpenedBy(disk, texts), setFile)
         a == [name |-> "analysis", text |-> texts[f], set |-> r.set, diagnostics |-> Diagnosed(texts[f], r.set)]
     IN /\ analyses' = [analyses EXCEPT ![f] = a]
        /\ byUri' = [g \in Files |-> byUri[g] \cup r.at[g] \cup IF g = f THEN a.diagnostics ELSE {}]
  /\ UNCHANGED <<files, editor, pending, watching, queue, texts, busy, published, shown, reply, command, edits>>

\* The end of refresh(): what had diagnostics and has none is cleared.
Publish ==
  /\ busy /\ todo = {}
  /\ busy' = FALSE
  /\ LET reported == {f \in Files : texts[f] # Closed \/ byUri[f] # {}} IN
     /\ shown' = [f \in Files |-> IF f \in reported THEN byUri[f] ELSE IF f \in published THEN {} ELSE shown[f]]
     /\ published' = reported
  /\ UNCHANGED <<files, editor, pending, watching, queue, texts, analyses, todo, byUri, reply, command, edits>>

\* A faulty formatEditsOf() that formats whatever the parser could read.
EditsOfAny(a, t) == IF a = Closed THEN [edits |-> FALSE, text |-> t] ELSE [edits |-> a.text.name # "", text |-> Formatted(a.text)]

\* formatEditsOf(): no edits for a document that is not open or has a diagnostic.
EditsOf(a, t) ==
  IF a = Closed \/ t = Closed THEN [edits |-> FALSE, text |-> t]
  ELSE [edits |-> a.diagnostics = {}, text |-> Formatted(a.text)]

Format ==
  /\ ~busy /\ queue # <<>> /\ Head(queue).kind = "format"
  /\ queue' = Tail(queue)
  /\ LET f == Head(queue).file
         e == EditsOf(analyses[f], texts[f])
     IN reply' = [file |-> f, asked |-> Head(queue).text, edits |-> e.edits, text |-> e.text]
  /\ UNCHANGED <<files, editor, pending, watching, server, command, edits>>

-----------------------------------------------------------------------------
(* dbspec-fmt --write or --check on every file.                            *)

Highest(a, b) == IF a < b THEN b ELSE a
NextFile(s) ==
  /\ status' = Highest(status, s)
  /\ fmt' = [fmt EXCEPT !.pc = IF fmt.k = Len(Order) THEN "done" ELSE "read", !.k = fmt.k + 1, !.failed = FALSE]

Start(mode) ==
  /\ fmt.pc = "out" /\ Edit
  /\ fmt' = [Idle EXCEPT !.pc = "read", !.mode = mode, !.k = 1]
  /\ status' = 0 /\ disturbed' = FALSE
  /\ UNCHANGED <<files, editor, pending, watching, queue, server, reply>>

\* readDbspecFile() of the next path.
FmtRead ==
  /\ fmt.pc = "read"
  /\ LET t == disk[Order[fmt.k]] IN
     IF t = Absent THEN NextFile(2)
     ELSE fmt' = [fmt EXCEPT !.pc = "resolve", !.text = t] /\ UNCHANGED status
  /\ UNCHANGED <<files, editor, pending, watching, queue, server, reply, disturbed, edits>>

\* resolveSet() and the format of the text that was read; a text that is not
\* canonical is written or its path printed.
FmtResolve ==
  /\ fmt.pc = "resolve"
  /\ LET r == Resolved(Order[fmt.k], disk, setFile)
         others == \E g \in Files : r.at[g] # {}
         t == fmt.text
     IN \/ (~r.ok \/ Diagnosed(t, r.set) # {}) /\ NextFile(2)
        \/ r.ok /\ Diagnosed(t, r.set) = {} /\ t.canonical /\ NextFile(IF others THEN 2 ELSE 0)
        \/ /\ r.ok /\ Diagnosed(t, r.set) = {} /\ ~t.canonical
           /\ \/ fmt.mode = "check" /\ NextFile(IF others THEN 2 ELSE 1)
              \/ fmt.mode = "write" /\ fmt' = [fmt EXCEPT !.pc = "write", !.failed = others] /\ UNCHANGED status
  /\ UNCHANGED <<files, editor, pending, watching, queue, server, reply, disturbed, edits>>

\* A faulty dbspec-fmt that reports a failed write and keeps its status.
FmtWriteQuiet ==
  /\ fmt.pc = "write"
  /\ \/ disk' = [disk EXCEPT ![Order[fmt.k]] = Formatted(fmt.text)] /\ pending' = watching
     \/ UNCHANGED <<disk, pending>>
  /\ NextFile(IF fmt.failed THEN 2 ELSE 0)
  /\ UNCHANGED <<setFile, editor, watching, queue, server, reply, disturbed, edits>>

\* writeFileSync(), which may fail.
FmtWrite ==
  /\ fmt.pc = "write"
  /\ \/ /\ disk' = [disk EXCEPT ![Order[fmt.k]] = Formatted(fmt.text)]
        /\ pending' = watching
        /\ NextFile(IF fmt.failed THEN 2 ELSE 0)
     \/ NextFile(2) /\ UNCHANGED <<disk, pending>>
  /\ UNCHANGED <<setFile, editor, watching, queue, server, reply, disturbed, edits>>

Next ==
  \/ \E f \in Files :
       \/ \E t \in Texts : OpenOrChange(f, t)
       \/ Close(f)
       \/ AskFormat(f)
       \/ Analyze(f)
  \/ ChangeDisk
  \/ FileEvent
  \/ ApplyReply
  \/ Receive
  \/ Publish
  \/ Format
  \/ \E mode \in {"write", "check"} : Start(mode)
  \/ FmtRead
  \/ FmtResolve
  \/ FmtWrite

Spec == Init /\ [][Next]_vars

-----------------------------------------------------------------------------
(* Properties.                                                             *)

\* Types of the server's state; it analyzes only documents that are open.
TypeOK ==
  /\ \A f \in Files : analyses[f] # Closed => texts[f] # Closed
  /\ disk \in [Files -> Texts \cup {Absent}]
  /\ editor \in [Files -> Texts \cup {Closed}] /\ texts \in [Files -> Texts \cup {Closed}]
  /\ {pending, watching, busy, disturbed} \subseteq BOOLEAN
  /\ todo \subseteq Files /\ published \subseteq Files
  /\ status \in 0..2 /\ edits \in 0..MaxEdits /\ Len(queue) <= MaxQueue
  /\ busy \/ todo = {}

Quiet == queue = <<>> /\ ~pending /\ ~busy

\* What the client should show: for each open document what its parse reports and
\* what its set reports of other files, from the buffers and the disk as they are.
Expected ==
  LET opened == OpenedBy(disk, editor)
      open == {f \in Files : editor[f] # Closed}
      of(g) == Resolved(g, opened, setFile)
  IN [f \in Files |-> UNION {of(g).at[f] : g \in open} \cup IF f \in open THEN Diagnosed(editor[f], of(f).set) ELSE {}]

\* server.ts:3-4: "a change of any open buffer or of a watched file analyzes
\* every open document again, so a document whose set holds the changed file is
\* never stale".  When every message has been handled, a client that takes the
\* registration shows what the buffers and the disk now say, and nothing else.
NeverStale == Quiet /\ watching => shown = Expected

\* docs/spec/editor.md:43 (ORE-15): a formatting edit makes the buffer the
\* canonical form of the very text it had, and that text had no diagnostic of
\* its own, whatever was typed between the request and the answer.
FormatsOwnTextStep ==
  ApplyReply /\ editor' # editor =>
    \A f \in Files : editor'[f] # editor[f] => editor'[f] = Formatted(editor[f]) /\ Diagnosed(editor[f], {}) \cap {"own"} = {}
FormatsOwnText == [][FormatsOwnTextStep]_vars

\* main.ts:33: exit status "0 formatted, or nothing to change": after a run of
\* --write that nobody disturbed and that ends with 0, every file is canonical
\* and has no diagnostic in its set.
WriteSettles ==
  fmt.pc = "done" /\ fmt.mode = "write" /\ ~disturbed /\ status = 0 =>
    \A f \in Files : disk[f] # Absent /\ disk[f].canonical /\ Diagnosed(disk[f], Resolved(f, disk, setFile).set) = {}
=============================================================================
