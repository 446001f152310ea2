----------------------------- MODULE MCServices -----------------------------
(* The instances of Services for TLC.                                        *)
EXTENDS Services, TLC

\* Two libraries: one whose names say a title and nothing else, and one with a year, an
\* ISBN that ends in X and a name that says nothing, where the files describe themselves.
Named(form, title, author, number) ==
  [form |-> form, title |-> title, author |-> author, isbn |-> number]
Says(title, author, number, text) ==
  [book |-> [title |-> title, author |-> author, isbn |-> number], text |-> text]
Silent == Says("", "", "", FALSE)
MCCollected ==
  {[names |-> [f \in Books |-> Named(f, "plain", "", "")], pdf |-> [f \in Books |-> Silent]],
   [names |-> ("a" :> Named("a", "dated", "other", "withX")) @@ ("b" :> Named("b", "", "", "")),
    pdf |-> ("a" :> Says("dated", "other", "digits", TRUE))
              @@ ("b" :> Says("", "author", "digits", TRUE))]}
MCOnline == {[title |-> "plain", author |-> "author", isbn |-> "digits"],
             [title |-> "dated", author |-> "", isbn |-> "withX"]}

\* Archives with a cover their manifest names, with a single picture, and with
\* one that is too large.
MCMaxVersion == ("a" :> 2) @@ ("b" :> 1)
Entry(name, picture, manifest, large) ==
  [name |-> name, picture |-> picture, manifest |-> manifest, large |-> large]
MCArchives ==
  <<{Entry(1, FALSE, FALSE, FALSE), Entry(2, TRUE, FALSE, TRUE), Entry(3, TRUE, TRUE, FALSE)},
    {Entry(1, TRUE, FALSE, FALSE)}, {Entry(1, TRUE, FALSE, TRUE)}>>

\* The book by its number, and another book of the same title.
Candidate(number, alike, author, both) ==
  [isbn |-> number, alike |-> alike, author |-> author, year |-> both, publisher |-> both]
MCCandidates == {Candidate("same", 500, 1000, TRUE), Candidate("other", 1000, 1000, TRUE)}

\* Numbers with every check digit, and the script's placeholders.
MCPlaceholders == {[prefix |-> 0, base |-> <<0, 1, 2, 3, 4, 5, 6, 7, 8>>, check |-> 9],
                   [prefix |-> 0, base |-> <<0, 0, 0, 0, 1, 0, 0, 1, 1>>, check |-> 0]}
MCBases == {<<a, 1, 2, 3, 4, 5, b, 7, c>> : a \in {0, 9}, b \in {0, 6}, c \in 0..9}
           \cup {n.base : n \in MCPlaceholders}

MCProviderOf == ("a" :> "local") @@ ("b" :> "drive")
=============================================================================
