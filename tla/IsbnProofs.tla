----------------------------- MODULE IsbnProofs -----------------------------
(***************************************************************************)
(* That the forms of Isbn are forms of one number, for every number of     *)
(* digits: a check digit that is worked out is accepted, and the one that  *)
(* is accepted is the one that is worked out.                              *)
(***************************************************************************)
EXTENDS Isbn, TLAPS

IInv == /\ isbn \in Numbers
        /\ forms \in {NoIsbn, isbnForms(isbn)}

LEMMA SumsAreNumbers ==
    ASSUME NEW b \in Digits, NEW prefix \in {978, 979}
    PROVE  Sum10(b) \in Nat /\ Sum13(prefix, b) \in Nat
  <1> DEFINE d1 == b[1]  d2 == b[2]  d3 == b[3]  d4 == b[4]  d5 == b[5]
             d6 == b[6]  d7 == b[7]  d8 == b[8]  d9 == b[9]
             p == prefix - 940
  <1>1. /\ d1 \in Nat /\ d2 \in Nat /\ d3 \in Nat /\ d4 \in Nat /\ d5 \in Nat
        /\ d6 \in Nat /\ d7 \in Nat /\ d8 \in Nat /\ d9 \in Nat /\ p \in Nat
    BY DEF Digits
  <1>2. /\ Sum10(b) = 10 * d1 + 9 * d2 + 8 * d3 + 7 * d4 + 6 * d5 + 5 * d6 + 4 * d7
                      + 3 * d8 + 2 * d9
        /\ Sum13(prefix, b) = p + 3 * d1 + d2 + 3 * d3 + d4 + 3 * d5 + d6 + 3 * d7 + d8
                              + 3 * d9
    BY Zenon DEF Sum10, Sum13
  <1> HIDE DEF d1, d2, d3, d4, d5, d6, d7, d8, d9, p
  <1>3. QED
    BY <1>1, <1>2

\* Check digits modulo 11 and 10 exist and are unique.
LEMMA CheckDigit11 ==
    ASSUME NEW s \in Nat
    PROVE  /\ (11 - (s % 11)) % 11 \in 0..10
           /\ \A c \in 0..10 : (s + c) % 11 = 0 <=> c = (11 - (s % 11)) % 11
  OBVIOUS

LEMMA CheckDigit10 ==
    ASSUME NEW s \in Nat
    PROVE  /\ (10 - (s % 10)) % 10 \in 0..9
           /\ \A c \in 0..9 : (s + c) % 10 = 0 <=> c = (10 - (s % 10)) % 10
  OBVIOUS

LEMMA BasesAreNotEmpty == ASSUME Bases \subseteq Digits PROVE <<>> \notin Bases
  BY DEF Digits

\* The number of ten digits that To10 makes is accepted, and the only one.
LEMMA TenIsUnique ==
    ASSUME Bases \subseteq Digits, NEW n \in Numbers
    PROVE  /\ To10(n) \in Numbers /\ To10(n).prefix = 0 /\ To10(n).base = n.base
           /\ isValidIsbn10(To10(n))
           /\ isValidIsbn10(n) => n = To10(n)
  <1> DEFINE c == (11 - (Sum10(n.base) % 11)) % 11
  <1>1. /\ n.prefix \in {0, 978, 979} /\ n.base \in Bases /\ n.check \in 0..10
        /\ n = [prefix |-> n.prefix, base |-> n.base, check |-> n.check]
    BY DEF Numbers
  <1>2. Sum10(n.base) \in Nat
    BY <1>1, SumsAreNumbers
  <1>3. c \in 0..10 /\ \A d \in 0..10 : (Sum10(n.base) + d) % 11 = 0 <=> d = c
    BY <1>2, CheckDigit11
  <1>4. To10(n) = [prefix |-> 0, base |-> n.base, check |-> c]
    BY DEF To10
  <1> HIDE DEF c
  <1>5. To10(n) \in Numbers /\ To10(n).prefix = 0 /\ To10(n).base = n.base /\ To10(n).check = c
    BY <1>1, <1>3, <1>4 DEF Numbers
  <1>6. To10(n) # NoIsbn
    BY <1>1, <1>5, BasesAreNotEmpty DEF NoIsbn
  <1>7. isValidIsbn10(To10(n))
    BY <1>3, <1>5, <1>6 DEF isValidIsbn10
  <1>8. isValidIsbn10(n) => n = To10(n)
    BY <1>1, <1>3, <1>4 DEF isValidIsbn10
  <1>9. QED
    BY <1>5, <1>7, <1>8

LEMMA ThirteenIsUnique ==
    ASSUME Bases \subseteq Digits, NEW n \in Numbers
    PROVE  /\ To13(n) \in Numbers /\ To13(n).prefix = 978 /\ To13(n).base = n.base
           /\ isValidIsbn13(To13(n))
           /\ isValidIsbn13(n) /\ n.prefix = 978 => n = To13(n)
  <1>1. /\ n.prefix \in {0, 978, 979} /\ n.base \in Bases /\ n.check \in 0..10
        /\ n = [prefix |-> n.prefix, base |-> n.base, check |-> n.check]
    BY DEF Numbers
  <1>2. Sum13(978, n.base) \in Nat
    BY <1>1, SumsAreNumbers
  <1>3. Check13(978, n.base) \in 0..9
    BY <1>2, CheckDigit10 DEF Check13
  <1>4. To13(n) = [prefix |-> 978, base |-> n.base, check |-> Check13(978, n.base)]
    BY DEF To13
  <1>5. /\ To13(n) \in Numbers /\ To13(n).prefix = 978 /\ To13(n).base = n.base
        /\ To13(n).check = Check13(978, n.base)
    BY <1>1, <1>3, <1>4 DEF Numbers
  <1>6. QED
    BY <1>1, <1>4, <1>5 DEF isValidIsbn13

\* The conversions depend on the digits alone, so each undoes the other.
LEMMA SameDigitsSameForms ==
    ASSUME NEW m, NEW n, m.base = n.base
    PROVE  To10(m) = To10(n) /\ To13(m) = To13(n)
  BY DEF To10, To13

\* The forms of an accepted number have those forms themselves.
LEMMA FormsAgree ==
    ASSUME Bases \subseteq Digits, NEW n \in Numbers, Valid(n)
    PROVE  LET f == isbnForms(n)
           IN  /\ f # Nothing
               /\ n \in {f.ten, f.thirteen}
               /\ isbnForms(f.thirteen) = f
               /\ f.ten # NoIsbn => isbnForms(f.ten) = f
  <1> DEFINE f == isbnForms(n)
  <1>1. NoIsbn.base = <<>> /\ NoIsbn.prefix = 0
    BY DEF NoIsbn
  <1>2. CASE isValidIsbn10(n)
    <2>1. f = [ten |-> n, thirteen |-> To13(n)]
      BY <1>2 DEF isbnForms, isValidIsbn10, isValidIsbn13
    <2>2. /\ To13(n) \in Numbers /\ isValidIsbn13(To13(n)) /\ ~isValidIsbn10(To13(n))
          /\ To13(n).prefix = 978 /\ To13(n).base = n.base
      BY ThirteenIsUnique DEF isValidIsbn10
    <2>3. To10(To13(n)) = n
      BY <1>2, <2>2, SameDigitsSameForms, TenIsUnique
    <2>4. isbnForms(To13(n)) = [ten |-> n, thirteen |-> To13(n)]
      BY <2>2, <2>3 DEF isbnForms
    <2>5. To13(n) # NoIsbn
      BY <1>1, <2>2
    <2>6. f # Nothing
      BY <2>1, <2>5 DEF Nothing
    <2>7. QED
      BY <2>1, <2>4, <2>6
  <1>3. CASE isValidIsbn13(n) /\ ~isValidIsbn10(n) /\ n.prefix = 978
    <2>1. f = [ten |-> To10(n), thirteen |-> n]
      BY <1>3 DEF isbnForms
    <2>2. To10(n) \in Numbers /\ isValidIsbn10(To10(n)) /\ To10(n).base = n.base
      BY TenIsUnique
    <2>3. To13(To10(n)) = n
      BY <1>3, <2>2, SameDigitsSameForms, ThirteenIsUnique
    <2>4. isbnForms(To10(n)) = [ten |-> To10(n), thirteen |-> To13(To10(n))]
      BY <2>2 DEF isbnForms, isValidIsbn10, isValidIsbn13
    <2>5. f # Nothing
      BY <1>1, <1>3, <2>1 DEF Nothing
    <2>6. QED
      BY <2>1, <2>3, <2>4, <2>5
  <1>4. CASE isValidIsbn13(n) /\ ~isValidIsbn10(n) /\ n.prefix # 978
    <2>1. f = [ten |-> NoIsbn, thirteen |-> n]
      BY <1>4 DEF isbnForms
    <2>2. n # NoIsbn
      BY <1>1, <1>4 DEF isValidIsbn13
    <2>3. f # Nothing
      BY <2>1, <2>2 DEF Nothing
    <2>4. QED
      BY <2>1, <2>3
  <1>5. QED
    BY <1>2, <1>3, <1>4 DEF Valid

LEMMA ScriptAgrees ==
    ASSUME Bases \subseteq Digits, NEW n \in Numbers
    PROVE  Script(n) <=> Valid(n) /\ n \notin Refused
  <1>1. n.prefix \in {0, 978, 979} /\ n.base \in Bases /\ n.check \in 0..10
    BY DEF Numbers
  <1>2. CASE n.prefix = 0
    <2>1. n # NoIsbn
      BY <1>1, BasesAreNotEmpty DEF NoIsbn
    <2>2. QED
      BY <1>2, <2>1 DEF Script, Valid, isValidIsbn10, isValidIsbn13
  <1>3. CASE n.prefix # 0
    <2> DEFINE s == Sum13(n.prefix, n.base)
               c == Check13(n.prefix, n.base)
    <2>1. s \in Nat
      BY <1>1, <1>3, SumsAreNumbers
    <2>2. c \in 0..9 /\ \A d \in 0..9 : (s + d) % 10 = 0 <=> d = c
      BY <2>1, CheckDigit10 DEF Check13
    <2>3. (n.check < 10 /\ (s + n.check) % 10 = 0) <=> n.check = c
      <3> HIDE DEF s, c
      <3>1. n.check < 10 <=> n.check \in 0..9
        BY <1>1
      <3>2. QED
        BY <2>2, <3>1
    <2>4. QED
      BY <1>3, <2>3 DEF Script, Valid, isValidIsbn10, isValidIsbn13
  <1>4. QED
    BY <1>2, <1>3

\* A number that nobody accepts has no forms.
LEMMA OthersHaveNoForms ==
    ASSUME NEW n, ~Valid(n)
    PROVE  isbnForms(n) = Nothing
  BY DEF isbnForms, Valid

LEMMA FormsInitially == ASSUME Init PROVE IInv
  BY DEF Init, IInv

LEMMA FormsKept == ASSUME IInv, [Ask]_<<isbn, forms>> PROVE IInv'
  BY DEF IInv, Ask

LEMMA AskedFormsAgree == ASSUME Bases \subseteq Digits, IInv PROVE IsbnsAgree
  <1>1. ASSUME forms # NoIsbn
        PROVE  /\ forms # Nothing <=> Valid(isbn)
               /\ Valid(isbn) => /\ isbn \in {forms.ten, forms.thirteen}
                                 /\ isbnForms(forms.thirteen) = forms
                                 /\ forms.ten # NoIsbn => isbnForms(forms.ten) = forms
               /\ Script(isbn) <=> Valid(isbn) /\ isbn \notin Refused
    <2>1. isbn \in Numbers /\ forms = isbnForms(isbn)
      BY <1>1 DEF IInv
    <2>2. QED
      BY <2>1, FormsAgree, ScriptAgrees, OthersHaveNoForms
  <1>2. ASSUME forms # NoIsbn, Valid(isbn), forms.ten # NoIsbn
        PROVE  workId(forms.ten) = workId(isbn)
    BY <1>1, <1>2 DEF IInv, workId
  <1>3. QED
    BY <1>1, <1>2 DEF IsbnsAgree

\* The two forms of every number of nine digits and a check digit are one number to
\* the server, and the script accepts the same numbers (isbn.js:41-46).
THEOREM FormsAreOneNumber ==
    ASSUME Bases \subseteq Digits
    PROVE  Spec => []IsbnsAgree
  <1>1. Init => IInv
    BY FormsInitially
  <1>2. IInv /\ [Ask]_<<isbn, forms>> => IInv'
    BY FormsKept
  <1>3. IInv => IsbnsAgree
    BY AskedFormsAgree
  <1>4. QED
    BY <1>1, <1>2, <1>3, PTL DEF Spec
=============================================================================
