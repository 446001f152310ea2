------------------------------ MODULE Renamer ------------------------------
(***************************************************************************)
(* The script that renames PDFs to "title - author - ISBN.pdf"             *)
(* (scripts/renomear-pdfs.js): runs of it over one directory, also two at  *)
(* a time, each file identified by its name, its PDF metadata and an       *)
(* online search.  A text is a member of a small set; "" is no text.       *)
(***************************************************************************)
EXTENDS Naturals, FiniteSets

CONSTANTS Files, Scripts, MaxRuns,
          Collected,  \* the libraries to start from: names and PDF metadata
          Online      \* the books that searches may return

VARIABLES names,     \* the name of each file of the directory, or Gone
          pdf,       \* what the PDF itself says: fixed
          script,    \* the run of each script
          found,     \* resultadosOnline: what the searches of its run returned
          runs,      \* how many runs there were (bound)
          renamed    \* the files the scripts have renamed (history)

renamerVars == <<names, pdf, script, found, runs, renamed>>

\* Of the titles, "dated" ends in a year in parentheses.
Titles == {"plain", "dated"}
Authors == {"author", "other"}
\* One ISBN has 13 digits, the other has ten and ends in X.
Isbns == {"digits", "withX"}
Unknown == ""
Placeholder == [title |-> "untitled", author |-> "unknown", isbn |-> "none"]

Book == [title : Titles \cup {Unknown}, author : Authors \cup {Unknown},
         isbn : Isbns \cup {Unknown}]
Nothing == [title |-> Unknown, author |-> Unknown, isbn |-> Unknown]
\* The title of a PDF may be that of its first page; there may be text on the page.
Pdf == [book : Book, text : BOOLEAN]

\* A file's name: as somebody wrote it, or composed by the script.
Name == [form : Files \cup {"composed"},
         title : Titles \cup {Unknown, "untitled"},
         author : Authors \cup {Unknown, "unknown"},
         isbn : Isbns \cup {Unknown, "none"}]
\* No name: the file was replaced by another.
Gone == [form |-> "gone", title |-> Unknown, author |-> Unknown, isbn |-> Unknown]

\* metadadosDoNome: what is in parentheses is taken from the title for the author.
FromName(n) ==
  [title |-> IF n.title = "dated" THEN "plain" ELSE n.title,
   author |-> IF n.title = "dated" THEN "year" ELSE n.author,
   isbn |-> IF n.isbn = "none" THEN Unknown ELSE n.isbn]

\* valorUtilizavel, autorUtilizavel.
UsableTitle(title) == IF title = "untitled" THEN Unknown ELSE title
UsableAuthor(author) == IF author \in Authors THEN author ELSE Unknown

\* nomeCompleto: padraoEsperado wants digits where normalizarIsbn also accepts a
\* final X, and any title will do, the placeholder too.
NeverComplete(n) == FALSE
Complete(n) ==
  /\ n.form = "composed" /\ n.isbn = "digits"
  /\ FromName(n).title # Unknown
  /\ UsableAuthor(FromName(n).author) # Unknown

Or(a, b) == IF a # Unknown THEN a ELSE b

\* What name and PDF say together, the name first.
Local(n, book) == [title |-> Or(UsableTitle(FromName(n).title), book.title),
                   author |-> Or(UsableAuthor(FromName(n).author), book.author),
                   isbn |-> Or(FromName(n).isbn, book.isbn)]

Key(b) == <<b.title, b.author>>

\* buscarMetadadosOnline: nothing, also when the network fails, or a compatible
\* book with an ISBN.  The title searched for may be worded otherwise online; without
\* a title the text of the first page is searched for.
Compatible(b, text) ==
  {Nothing} \cup
    {o \in Online : /\ b.title # Unknown \/ text
                    /\ o.isbn # Unknown /\ o.title # Unknown
                    /\ Unknown \in {b.author, o.author} \/ o.author = b.author}

\* One search per key and run, unless there is nothing to search for.
Answers(s, b, text) ==
  LET known == {r \in found[s] : r.key = Key(b)}
  IN  IF known # {} THEN {r.book : r \in known} ELSE Compatible(b, text)
Kept(s, b, text, online) ==
  IF b.title = Unknown /\ b.author = Unknown /\ ~text THEN found[s]
  ELSE found[s] \cup {[key |-> Key(b), book |-> online]}

Fallback(s, field) == IF script[s].allowMissing THEN Placeholder[field] ELSE Unknown

NewName(s, local, online) ==
  [form |-> "composed",
   title |-> Or(Or(online.title, local.title), Fallback(s, "title")),
   author |-> Or(Or(online.author, local.author), Fallback(s, "author")),
   isbn |-> Or(Or(local.isbn, online.isbn), Fallback(s, "isbn"))]

Named(n) == {f \in Files : names[f] = n}
Idle == [at |-> "next", todo |-> {}, apply |-> FALSE, allowMissing |-> FALSE,
         path |-> Gone, new |-> Gone]

Init ==
  /\ \E c \in Collected : names = c.names /\ pdf = c.pdf
  /\ script = [s \in Scripts |-> Idle]
  /\ found = [s \in Scripts |-> {}]
  /\ runs = 0 /\ renamed = {}

\* A run lists the names; the run before it may have been killed.
Begin(s, apply, allowMissing) ==
  /\ runs < MaxRuns /\ runs' = runs + 1
  /\ script' = [script EXCEPT ![s] =
       [Idle EXCEPT !.todo = {names[f] : f \in Files} \ {Gone},
                    !.apply = apply, !.allowMissing = allowMissing]]
  /\ found' = [found EXCEPT ![s] = {}]
  /\ UNCHANGED <<names, pdf, renamed>>

\* The script goes on with its run as r and the results f, or its run ends.
Continue(s, r, f) ==
  LET ends == r.at = "next" /\ r.todo = {}
  IN  /\ script' = [script EXCEPT ![s] = IF ends THEN Idle ELSE r]
      /\ found' = [found EXCEPT ![s] = IF ends THEN {} ELSE f]
Leave(s) ==
  Continue(s, [script[s] EXCEPT !.at = "next", !.path = Gone, !.new = Gone], found[s])

Visits(s, n) == script[s].at = "next" /\ n \in script[s].todo
Past(s, n) == [script[s] EXCEPT !.todo = @ \ {n}]

Skip(s, n) ==
  /\ Visits(s, n) /\ Complete(n)
  /\ Continue(s, Past(s, n), found[s])
  /\ UNCHANGED <<names, pdf, runs, renamed>>

\* extrairMetadadosPdf, which finds nothing in a file that has gone.
Said(n) == IF Named(n) = {} THEN {[book |-> Nothing, text |-> FALSE]}
           ELSE {pdf[f] : f \in Named(n)}

\* The file is left alone when a part is missing or it has the new name already.
Identify(s, n) ==
  /\ Visits(s, n) /\ ~Complete(n)
  /\ \E said \in Said(n) :
       LET local == Local(n, said.book)
       IN  \E online \in Answers(s, local, said.text) :
             LET new == NewName(s, local, online)
             IN  Continue(s,
                   IF Unknown \in {new.title, new.author, new.isbn} \/ new = n
                   THEN Past(s, n)
                   ELSE [Past(s, n) EXCEPT !.at = "testing", !.path = n, !.new = new],
                   Kept(s, local, said.text, online))
  /\ UNCHANGED <<names, pdf, runs, renamed>>

\* fs.access: another file has the new name, or this is a preview.
Test(s) ==
  /\ script[s].at = "testing"
  /\ IF Named(script[s].new) = {} /\ script[s].apply
     THEN Continue(s, [script[s] EXCEPT !.at = "renaming"], found[s])
     ELSE Leave(s)
  /\ UNCHANGED <<names, pdf, runs, renamed>>

\* fs.rename replaces a file that has got the name since.
Rename(s) ==
  /\ script[s].at = "renaming"
  /\ \E f \in Named(script[s].path) :
       /\ names' = [g \in Files |-> IF g = f THEN script[s].new
                                    ELSE IF names[g] = script[s].new THEN Gone
                                    ELSE names[g]]
       /\ renamed' = renamed \cup {f}
  /\ Leave(s)
  /\ UNCHANGED <<pdf, runs>>

\* ENOENT ends the run.
RenameFails(s) ==
  /\ script[s].at = "renaming"
  /\ Named(script[s].path) = {}
  /\ Continue(s, Idle, {})
  /\ UNCHANGED <<names, pdf, runs, renamed>>

Next ==
  \E s \in Scripts :
    \/ \E apply, allowMissing \in BOOLEAN : Begin(s, apply, allowMissing)
    \/ \E n \in script[s].todo : Skip(s, n) \/ Identify(s, n)
    \/ Test(s) \/ Rename(s) \/ RenameFails(s)

Spec == Init /\ [][Next]_renamerVars

TypeOK ==
  /\ names \in [Files -> Name \cup {Gone}]
  /\ pdf \in [Files -> Pdf]
  /\ \A s \in Scripts :
       /\ script[s].at \in {"next", "testing", "renaming"}
       /\ script[s].todo \subseteq Name
       /\ {script[s].path, script[s].new} \subseteq Name \cup {Gone}
       /\ {script[s].apply, script[s].allowMissing} \subseteq BOOLEAN
       /\ found[s] \subseteq [key : (Titles \cup {Unknown}) \X (Authors \cup {Unknown}),
                              book : Book]
  /\ runs \in 0..MaxRuns /\ renamed \subseteq Files

\* The script recognises the names it gave: a file that a run has renamed keeps its
\* name in later runs and in others at the same time, whatever these find online
\* (renomear-pdfs.js:260-264), unless another run replaces it.  The names it does
\* not recognise are those without an ISBN or an author, with an ISBN that ends in X
\* and with a year in parentheses; the placeholder for a title it takes for one.
NamedOnce ==
  [][\A f \in renamed :
       (/\ names[f].isbn = "digits" /\ names[f].title \in {"plain", "untitled"}
        /\ names[f].author \in Authors)
         => names'[f] \in {names[f], Gone}]_renamerVars
=============================================================================
