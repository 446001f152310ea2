-------------------------------- MODULE Isbn --------------------------------
(***************************************************************************)
(* The two forms of a book number, and what is done with them: the server  *)
(* accepts a number, turns it into its other form and names the work after *)
(* it (metadata/isbn.js, workService.js 8); the script that renames files  *)
(* accepts numbers with a routine of its own (renomear-pdfs.js 21-33).     *)
(* A number is its prefix (0 for the form of ten digits), the nine digits  *)
(* both forms share, and the check digit (10 is the letter X).             *)
(***************************************************************************)
EXTENDS Integers

CONSTANT Bases     \* sets of nine digits that are tried
CONSTANT Refused   \* the two placeholders the script refuses, as numbers

VARIABLES isbn,    \* the number someone wrote
          forms    \* its forms, once asked for

Digits == [1..9 -> 0..9]
Numbers == [prefix : {0, 978, 979}, base : Bases, check : 0..10]
NoIsbn == [prefix |-> 0, base |-> <<>>, check |-> 0]
Nothing == [ten |-> NoIsbn, thirteen |-> NoIsbn]

\* The digits weighted 10 to 2, and 1, 3, 1, 3, ... from the prefix on.
Sum10(b) == 10 * b[1] + 9 * b[2] + 8 * b[3] + 7 * b[4] + 6 * b[5] + 5 * b[6]
            + 4 * b[7] + 3 * b[8] + 2 * b[9]
Sum13(prefix, b) == (prefix - 940) + 3 * b[1] + b[2] + 3 * b[3] + b[4] + 3 * b[5] + b[6]
                    + 3 * b[7] + b[8] + 3 * b[9]
Check13(prefix, b) == (10 - (Sum13(prefix, b) % 10)) % 10

isValidIsbn10(n) == n.prefix = 0 /\ n # NoIsbn /\ (Sum10(n.base) + n.check) % 11 = 0
isValidIsbn13(n) == n.prefix # 0 /\ n.check = Check13(n.prefix, n.base)
Valid(n) == isValidIsbn10(n) \/ isValidIsbn13(n)

To13(n) == [prefix |-> 978, base |-> n.base, check |-> Check13(978, n.base)]
\* A slip: the difference to 11 is 11 for a sum that 11 divides.
To10Unreduced(n) == [prefix |-> 0, base |-> n.base, check |-> 11 - (Sum10(n.base) % 11)]
To10(n) == [prefix |-> 0, base |-> n.base, check |-> (11 - (Sum10(n.base) % 11)) % 11]

isbnForms(n) ==
  CASE isValidIsbn10(n) -> [ten |-> n, thirteen |-> To13(n)]
    [] isValidIsbn13(n) -> [ten |-> IF n.prefix = 978 THEN To10(n) ELSE NoIsbn, thirteen |-> n]
    [] OTHER -> Nothing

\* normalizarIsbn of the script: the check digit is part of the sum.
Script(n) == /\ n \notin Refused
             /\ IF n.prefix = 0 THEN (Sum10(n.base) + n.check) % 11 = 0
                ELSE n.check < 10 /\ (Sum13(n.prefix, n.base) + n.check) % 10 = 0

\* The work of a file: its number of thirteen digits, whichever form the file gives.
workId(n) == isbnForms(n).thirteen

Init == isbn \in Numbers /\ forms = NoIsbn
Ask == forms = NoIsbn /\ forms' = isbnForms(isbn) /\ UNCHANGED isbn
Spec == Init /\ [][Ask]_<<isbn, forms>>

Form == Numbers \cup {NoIsbn}
TypeOK == isbn \in Numbers /\ forms \in [ten : Form, thirteen : Form] \cup {NoIsbn}

\* Both forms of an accepted number are accepted and give the same forms, so a
\* file found under either belongs to one work; and the script accepts what the
\* server accepts, but for the placeholders (isbn.js:41-46, workService.js:8).
IsbnsAgree ==
  forms # NoIsbn =>
    /\ (forms # Nothing) <=> Valid(isbn)
    /\ Valid(isbn) =>
         /\ isbn \in {forms.ten, forms.thirteen}
         /\ isbnForms(forms.thirteen) = forms
         /\ forms.ten # NoIsbn => isbnForms(forms.ten) = forms /\ workId(forms.ten) = workId(isbn)
    /\ Script(isbn) <=> Valid(isbn) /\ isbn \notin Refused
=============================================================================
