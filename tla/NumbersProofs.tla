---------------------------- MODULE NumbersProofs ----------------------------
(***************************************************************************)
(* The shell's arguments are the words of its line, whatever the line, the *)
(* buffers and the spaces; the numbers among them and their sum are right  *)
(* modulo the range of an int, whatever the base and the width.            *)
(***************************************************************************)
EXTENDS Numbers, SequenceTheorems, WellFoundedInduction, TLAPS

(***************************************************************************)
(* Recursive functions on the places of a text                             *)
(***************************************************************************)

\* A set with 0 that holds the successor of its numbers holds them all.
LEMMA Counting ==
    ASSUME NEW T, 0 \in T, \A n \in Nat : n \in T => n + 1 \in T
    PROVE  \A n \in Nat : n \in T
<1> SUFFICES ASSUME Nat \ T # {} PROVE FALSE
  OBVIOUS
<1> DEFINE R == {ss \in Nat \X Nat : ss[1] < ss[2]}
<1>1. IsWellFoundedOn(R, Nat)
  BY NatLessThanWellFounded DEF OpToRel
<1>2. \A x, y \in Nat : y < x => <<y, x>> \in R
  OBVIOUS
<1> HIDE DEF R
<1>3. PICK n \in Nat \ T : \A m \in Nat \ T : ~(<<m, n>> \in R)
  BY <1>1, WFMin
<1>4. n - 1 \in Nat /\ n - 1 < n
  BY <1>3
<1>5. n - 1 \in T
  BY <1>2, <1>3, <1>4
<1> QED
  BY <1>3, <1>4, <1>5

\* A recursion on 1..n, its step given as a function.
Recurses(f, n, base, step) == f[0] = base /\ \A k \in 1..n : f[k] = step[<<k, f[k - 1]>>]

\* It has a solution.
LEMMA Recursion ==
    ASSUME NEW n \in Nat, NEW V, NEW base \in V, NEW step \in [(1..n) \X V -> V]
    PROVE  \E f \in [0..n -> V] : Recurses(f, n, base, step)
<1> USE DEF Recurses
<1> DEFINE T == {m \in Nat : m <= n => \E f \in [0..m -> V] : Recurses(f, m, base, step)}
<1>1. 0 \in T
  <2> DEFINE g == [k \in 0..0 |-> base]
  <2>1. g \in [0..0 -> V] /\ g[0] = base /\ 1..0 = {}
    OBVIOUS
  <2> QED
    BY <2>1
<1>2. ASSUME NEW m \in Nat, m \in T PROVE m + 1 \in T
  <2> SUFFICES ASSUME m + 1 <= n PROVE \E f \in [0..(m + 1) -> V] : Recurses(f, m + 1, base, step)
    OBVIOUS
  <2>1. PICK f \in [0..m -> V] : Recurses(f, m, base, step)
    BY <1>2
  <2> DEFINE h == [k \in 0..(m + 1) |-> IF k = m + 1 THEN step[<<m + 1, f[m]>>] ELSE f[k]]
  <2>2. step[<<m + 1, f[m]>>] \in V
    OBVIOUS
  <2>3. h \in [0..(m + 1) -> V]
    BY <2>2
  <2>4. /\ h[0] = f[0] /\ h[m + 1] = step[<<m + 1, f[m]>>] /\ h[m] = f[m]
        /\ \A k \in 1..m : h[k] = f[k] /\ h[k - 1] = f[k - 1]
    OBVIOUS
  <2> HIDE DEF h
  <2>5. ASSUME NEW k \in 1..(m + 1) PROVE h[k] = step[<<k, h[k - 1]>>]
    <3>1. CASE k = m + 1
      BY <2>4, <3>1
    <3>2. CASE k \in 1..m
      BY <2>1, <2>4, <3>2
    <3> QED
      BY <3>1, <3>2
  <2> QED
    BY <2>1, <2>3, <2>4, <2>5
<1>3. n \in T
  <2> HIDE DEF T
  <2> QED
    BY <1>1, <1>2, Counting
<1> QED
  BY <1>3

\* Its values stay where the step keeps them.
LEMMA RecursionStays ==
    ASSUME NEW n \in Nat, NEW V, NEW f, f[0] \in V,
           \A k \in 1..n : f[k - 1] \in V => f[k] \in V
    PROVE  \A k \in 0..n : f[k] \in V
<1> DEFINE T == {m \in Nat : m <= n => f[m] \in V}
<1>1. 0 \in T
  OBVIOUS
<1>2. ASSUME NEW m \in Nat, m \in T PROVE m + 1 \in T
  <2>1. m + 1 <= n => m + 1 \in 1..n /\ (m + 1) - 1 = m /\ f[m] \in V
    BY <1>2
  <2> QED
    BY <2>1
<1>3. \A m \in Nat : m \in T
  <2> HIDE DEF T
  <2> QED
    BY <1>1, <1>2, Counting
<1> QED
  BY <1>3

\* The equation LettersIn stands for.
LettersOf(text, f) ==
    f = [k \in 0..Len(text) |->
            IF k = 0 THEN <<>>
            ELSE IF text[k] = Space THEN f[k - 1]
            ELSE Append(f[k - 1], text[k])]

\* What the k-th character of a text makes of the letters before it.
NextLetters(text, k, letters) ==
    IF text[k] = Space THEN letters ELSE Append(letters, text[k])

\* The letters of the first k characters: one more for a letter.
LEMMA LettersFacts ==
    ASSUME NEW C, NEW text \in Seq(C)
    PROVE  /\ LettersIn(text) \in [0..Len(text) -> Seq(C)]
           /\ LettersIn(text)[0] = <<>>
           /\ \A k \in 1..Len(text) :
                 LettersIn(text)[k] = NextLetters(text, k, LettersIn(text)[k - 1])
<1> DEFINE n == Len(text)
           V == Seq(C)
           base == <<>>
           step == [x \in (1..n) \X V |-> NextLetters(text, x[1], x[2])]
<1>1. n \in Nat /\ base \in V
  OBVIOUS
<1>2. \A k \in 1..n, s \in V : NextLetters(text, k, s) \in V
  <2>1. \A k \in 1..n : text[k] \in C
    OBVIOUS
  <2> QED
    BY <2>1 DEF NextLetters
<1>3. base = <<>>
  OBVIOUS
<1> HIDE DEF n, V, base
<1>4. step \in [(1..n) \X V -> V]
  BY <1>2
<1>5. \A k \in 1..n, s \in V : step[<<k, s>>] = NextLetters(text, k, s)
  OBVIOUS
<1> HIDE DEF step
<1>6. PICK f \in [0..n -> V] : Recurses(f, n, base, step)
  BY <1>1, <1>4, Recursion
<1>7. \A k \in 1..n : k - 1 \in 0..n /\ f[k - 1] \in V
  BY <1>1
<1>8. f[0] = base /\ \A k \in 1..n : f[k] = NextLetters(text, k, f[k - 1])
  BY <1>5, <1>6, <1>7 DEF Recurses
<1>9. \A k \in 0..n : k # 0 => k \in 1..n
  BY <1>1
<1>10. f = [k \in 0..n |-> IF k = 0 THEN <<>> ELSE NextLetters(text, k, f[k - 1])]
  BY <1>3, <1>8, <1>9
<1>11. LettersOf(text, f)
  BY <1>10, Zenon DEF LettersOf, NextLetters, n
<1> DEFINE g == LettersIn(text)
<1>12. LettersOf(text, g)
  BY <1>11, Zenon DEF LettersIn, LettersOf
<1> HIDE DEF g
<1>13. g = [k \in 0..n |-> IF k = 0 THEN <<>> ELSE NextLetters(text, k, g[k - 1])]
  BY <1>12, Zenon DEF LettersOf, NextLetters, n
<1>14. 0 \in 0..n /\ \A k \in 1..n : k \in 0..n /\ k # 0
  BY <1>1
<1>15. g[0] = base /\ \A k \in 1..n : g[k] = NextLetters(text, k, g[k - 1])
  BY <1>3, <1>13, <1>14, Zenon
<1>16. \A k \in 0..n : g[k] \in V
  BY <1>1, <1>2, <1>15, RecursionStays
<1>17. g \in [0..n -> V]
  BY <1>13, <1>16
<1> QED
  BY <1>3, <1>15, <1>17, Zenon DEF g, n, V

\* The equation WordsIn stands for.
WordsOf(text, f) ==
    f = [k \in 0..Len(text) |->
            IF k = 0 THEN <<>>
            ELSE IF text[k] = Space THEN f[k - 1]
            ELSE IF k = 1 \/ text[k - 1] = Space THEN Append(f[k - 1], <<text[k]>>)
            ELSE LET before == f[k - 1]
                 IN [before EXCEPT ![Len(before)] = Append(@, text[k])]]

\* Words whose last has one character more.
LongerLast(words, c) == [words EXCEPT ![Len(words)] = Append(@, c)]

\* What the k-th character of a text makes of the words before it.
NextWords(text, k, words) ==
    IF text[k] = Space THEN words
    ELSE IF k = 1 \/ text[k - 1] = Space THEN Append(words, <<text[k]>>)
    ELSE LongerLast(words, text[k])

\* A longer last word is a word.
LEMMA LastGrows ==
    ASSUME NEW C, NEW words \in Seq(Seq(C)), NEW c \in C
    PROVE  /\ LongerLast(words, c) \in Seq(Seq(C)) /\ Len(LongerLast(words, c)) = Len(words)
           /\ \A i \in 1..Len(words) :
                 LongerLast(words, c)[i] = IF i = Len(words) THEN Append(words[i], c) ELSE words[i]
<1> DEFINE longer == LongerLast(words, c)
<1>1. /\ Len(words) \in Nat /\ DOMAIN words = 1..Len(words)
      /\ \A i \in 1..Len(words) : words[i] \in Seq(C)
  OBVIOUS
<1>2. \A i \in 1..Len(words) : Append(words[i], c) \in Seq(C)
  BY <1>1
<1>3. longer = [i \in 1..Len(words) |-> IF i = Len(words) THEN Append(words[i], c) ELSE words[i]]
  BY <1>1, ZenonT(60) DEF LongerLast
<1> DEFINE n == Len(words)
           V == Seq(C)
           e(i) == IF i = Len(words) THEN Append(words[i], c) ELSE words[i]
<1>4. \A i \in 1..n : e(i) \in V
  BY <1>1, <1>2, ZenonT(60)
<1>5. longer = [i \in 1..n |-> e(i)] /\ n \in Nat
  BY <1>1, <1>3
<1> HIDE DEF n, V, e, longer
<1>6. /\ [i \in 1..n |-> e(i)] \in Seq(V) /\ Len([i \in 1..n |-> e(i)]) = n
      /\ \A i \in 1..n : [k \in 1..n |-> e(k)][i] = e(i)
  BY <1>4, <1>5
<1>7. longer \in Seq(V) /\ Len(longer) = n /\ \A i \in 1..n : longer[i] = e(i)
  BY <1>5, <1>6, Zenon
<1> QED
  BY <1>7 DEF n, V, e, longer

\* So one character more leaves words.
LEMMA NextWordsTypes ==
    ASSUME NEW C, NEW text \in Seq(C), NEW k \in 1..Len(text), NEW words \in Seq(Seq(C))
    PROVE  NextWords(text, k, words) \in Seq(Seq(C))
<1>1. text[k] \in C /\ <<text[k]>> \in Seq(C)
  OBVIOUS
<1>2. Append(words, <<text[k]>>) \in Seq(Seq(C))
  BY <1>1, AppendProperties
<1>3. LongerLast(words, text[k]) \in Seq(Seq(C))
  BY <1>1, LastGrows
<1> QED
  BY <1>2, <1>3 DEF NextWords

\* The words of the first k characters, from those of one less.
LEMMA WordsFacts ==
    ASSUME NEW C, NEW text \in Seq(C)
    PROVE  /\ WordsIn(text) \in [0..Len(text) -> Seq(Seq(C))]
           /\ WordsIn(text)[0] = <<>>
           /\ \A k \in 1..Len(text) :
                 WordsIn(text)[k] = NextWords(text, k, WordsIn(text)[k - 1])
<1> DEFINE n == Len(text)
           V == Seq(Seq(C))
           base == <<>>
           step == [x \in (1..n) \X V |-> NextWords(text, x[1], x[2])]
<1>1. n \in Nat /\ base \in V
  OBVIOUS
<1>2. \A k \in 1..n, s \in V : NextWords(text, k, s) \in V
  BY NextWordsTypes
<1>3. base = <<>>
  OBVIOUS
<1> HIDE DEF n, V, base
<1>4. step \in [(1..n) \X V -> V]
  BY <1>2
<1>5. \A k \in 1..n, s \in V : step[<<k, s>>] = NextWords(text, k, s)
  OBVIOUS
<1> HIDE DEF step
<1>6. PICK f \in [0..n -> V] : Recurses(f, n, base, step)
  BY <1>1, <1>4, Recursion
<1>7. \A k \in 1..n : k - 1 \in 0..n /\ f[k - 1] \in V
  BY <1>1
<1>8. f[0] = base /\ \A k \in 1..n : f[k] = NextWords(text, k, f[k - 1])
  BY <1>5, <1>6, <1>7 DEF Recurses
<1>9. \A k \in 0..n : k # 0 => k \in 1..n
  BY <1>1
<1>10. f = [k \in 0..n |-> IF k = 0 THEN <<>> ELSE NextWords(text, k, f[k - 1])]
  BY <1>3, <1>8, <1>9
<1>11. WordsOf(text, f)
  BY <1>10, Zenon DEF WordsOf, NextWords, LongerLast, n
<1> DEFINE g == WordsIn(text)
<1>12. WordsOf(text, g)
  BY <1>11, Zenon DEF WordsIn, WordsOf
<1> HIDE DEF g
<1>13. g = [k \in 0..n |-> IF k = 0 THEN <<>> ELSE NextWords(text, k, g[k - 1])]
  BY <1>12, Zenon DEF WordsOf, NextWords, LongerLast, n
<1>14. 0 \in 0..n /\ \A k \in 1..n : k \in 0..n /\ k # 0
  BY <1>1
<1>15. g[0] = base /\ \A k \in 1..n : g[k] = NextWords(text, k, g[k - 1])
  BY <1>3, <1>13, <1>14, Zenon
<1>16. \A k \in 0..n : g[k] \in V
  BY <1>1, <1>2, <1>15, RecursionStays
<1>17. g \in [0..n -> V]
  BY <1>13, <1>16
<1> QED
  BY <1>3, <1>15, <1>17, Zenon DEF g, n, V

\* The equation FlattenSeq stands for.
FlattenOf(seqs, f) ==
    f = [i \in 1..Len(seqs) |-> IF i = 1 THEN seqs[i] ELSE f[i - 1] \o seqs[i]]

LEMMA FlattenFacts ==
    ASSUME NEW C, NEW seqs \in Seq(Seq(C)), seqs # <<>>
    PROVE  \E f \in [1..Len(seqs) -> Seq(C)] :
              /\ FlattenSeq(seqs) = f[Len(seqs)]
              /\ f[1] = seqs[1]
              /\ \A i \in 2..Len(seqs) : f[i] = f[i - 1] \o seqs[i]
<1> DEFINE n == Len(seqs)
           V == Seq(C)
           base == <<>>
           longer(k, s) == IF k = 1 THEN seqs[k] ELSE s \o seqs[k]
           step == [x \in (1..n) \X V |-> longer(x[1], x[2])]
<1>1. n \in Nat /\ n > 0 /\ base \in V
  BY EmptySeq
<1>2. \A k \in 1..n : seqs[k] \in V
  OBVIOUS
<1>3. \A k \in 1..n, s \in V : longer(k, s) \in V
  BY <1>2, ConcatProperties
<1>4. \A f, k : longer(k, f[k - 1]) = IF k = 1 THEN seqs[k] ELSE f[k - 1] \o seqs[k]
  OBVIOUS
<1> HIDE DEF n, V, base, longer
<1>5. step \in [(1..n) \X V -> V]
  BY <1>3
<1>6. \A k \in 1..n, s \in V : step[<<k, s>>] = longer(k, s)
  OBVIOUS
<1> HIDE DEF step
<1>7. PICK f \in [0..n -> V] : Recurses(f, n, base, step)
  BY <1>1, <1>5, Recursion
<1>8. \A k \in 1..n : k \in 0..n /\ k - 1 \in 0..n /\ f[k] \in V /\ f[k - 1] \in V
  BY <1>1
<1>9. \A k \in 1..n : f[k] = longer(k, f[k - 1])
  BY <1>6, <1>7, <1>8 DEF Recurses
<1> DEFINE h == [k \in 1..n |-> f[k]]
<1>10. \A k \in 1..n : h[k] = IF k = 1 THEN seqs[k] ELSE h[k - 1] \o seqs[k]
  <2>1. \A k \in 1..n : k # 1 => k - 1 \in 1..n
    BY <1>1
  <2>2. \A k \in 1..n : h[k] = f[k] /\ (k # 1 => h[k - 1] = f[k - 1])
    BY <2>1
  <2> HIDE DEF h
  <2>3. \A k \in 1..n : f[k] = IF k = 1 THEN seqs[k] ELSE f[k - 1] \o seqs[k]
    BY <1>4, <1>9
  <2> QED
    BY <2>2, <2>3
<1>11. FlattenOf(seqs, h)
  <2>1. h = [k \in 1..n |-> h[k]]
    OBVIOUS
  <2> HIDE DEF h
  <2> QED
    BY <1>10, <2>1, Zenon DEF FlattenOf, n
<1> HIDE DEF h
<1> DEFINE g == CHOOSE f1 : FlattenOf(seqs, f1)
<1>12. FlattenOf(seqs, g)
  BY <1>11, Zenon
<1>13. FlattenSeq(seqs) = g[n]
  <2>1. Len(seqs) # 0
    BY <1>1 DEF n
  <2> QED
    BY <2>1, Zenon DEF FlattenSeq, FlattenOf, n
<1> HIDE DEF g
<1>14. \A i \in 1..n : g[i] = IF i = 1 THEN seqs[i] ELSE g[i - 1] \o seqs[i]
  BY <1>12, Zenon DEF FlattenOf, n
<1> DEFINE T == {i \in Nat : i + 1 \in 1..n => g[i + 1] \in V}
<1>15. 0 \in T
  BY <1>1, <1>2, <1>14
<1>16. ASSUME NEW i \in Nat, i \in T PROVE i + 1 \in T
  <2>1. SUFFICES ASSUME i + 2 \in 1..n PROVE g[i + 2] \in V
    OBVIOUS
  <2>2. i + 1 \in 1..n /\ i + 2 # 1 /\ (i + 2) - 1 = i + 1 /\ g[i + 1] \in V
    BY <1>1, <1>16, <2>1
  <2>3. g[i + 2] = longer(i + 2, g[i + 1])
    BY <1>14, <2>1, <2>2 DEF longer
  <2> QED
    BY <1>3, <2>1, <2>2, <2>3
<1>17. \A i \in Nat : i \in T
  <2> HIDE DEF T
  <2> QED
    BY <1>15, <1>16, Counting
<1>18. \A i \in 1..n : g[i] \in V
  <2>1. \A i \in 1..n : i - 1 \in Nat /\ (i - 1) + 1 = i
    BY <1>1
  <2> QED
    BY <1>17, <2>1
<1>19. g \in [1..n -> V]
  <2>1. g = [i \in 1..n |-> IF i = 1 THEN seqs[i] ELSE g[i - 1] \o seqs[i]]
    BY <1>12, Zenon DEF FlattenOf, n
  <2> QED
    BY <1>18, <2>1
<1>20. g[1] = seqs[1] /\ \A i \in 2..n : g[i] = g[i - 1] \o seqs[i]
  <2>1. 1 \in 1..n /\ \A i \in 2..n : i \in 1..n /\ i # 1
    BY <1>1
  <2> QED
    BY <1>14, <2>1, Zenon
<1> QED
  BY <1>13, <1>19, <1>20 DEF n, V

\* No arguments, no characters; another argument's characters come behind.
LEMMA FlattenAppends ==
    ASSUME NEW C, NEW seqs \in Seq(Seq(C)), NEW s \in Seq(C)
    PROVE  /\ FlattenSeq(<<>>) = <<>>
           /\ FlattenSeq(seqs) \in Seq(C)
           /\ FlattenSeq(Append(seqs, s)) = FlattenSeq(seqs) \o s
<1> DEFINE n == Len(seqs)
           more == Append(seqs, s)
<1>1. FlattenSeq(<<>>) = <<>>
  BY DEF FlattenSeq
<1>2. /\ n \in Nat /\ more \in Seq(Seq(C)) /\ Len(more) = n + 1 /\ more # <<>>
      /\ \A i \in 1..n : more[i] = seqs[i]
      /\ more[n + 1] = s
  BY AppendProperties
<1> HIDE DEF more
<1>6. \E f \in [1..Len(more) -> Seq(C)] :
         /\ FlattenSeq(more) = f[Len(more)]
         /\ f[1] = more[1]
         /\ \A i \in 2..Len(more) : f[i] = f[i - 1] \o more[i]
  <2>1. more \in Seq(Seq(C)) /\ more # <<>>
    BY <1>2
  <2> QED
    BY <2>1, FlattenFacts
<1>3. PICK g \in [1..(n + 1) -> Seq(C)] :
         /\ FlattenSeq(more) = g[n + 1]
         /\ g[1] = more[1]
         /\ \A i \in 2..(n + 1) : g[i] = g[i - 1] \o more[i]
  BY <1>2, <1>6
<1>4. CASE seqs = <<>>
  <2>1. n = 0
    BY <1>4
  <2>2. FlattenSeq(more) = s
    BY <1>2, <1>3, <2>1
  <2> QED
    BY <1>1, <1>4, <2>2, EmptySeq, ConcatEmptySeq DEF more
<1>5. CASE seqs # <<>>
  <2>1. n > 0
    BY <1>5
  <2>2. PICK f \in [1..n -> Seq(C)] :
           /\ FlattenSeq(seqs) = f[n]
           /\ f[1] = seqs[1]
           /\ \A i \in 2..n : f[i] = f[i - 1] \o seqs[i]
    BY <1>5, FlattenFacts
  <2> DEFINE T == {i \in Nat : i + 1 \in 1..n => g[i + 1] = f[i + 1]}
  <2>3. 0 \in T
    BY <1>2, <1>3, <2>1, <2>2
  <2>4. ASSUME NEW i \in Nat, i \in T PROVE i + 1 \in T
    <3>1. SUFFICES ASSUME i + 2 \in 1..n PROVE g[i + 2] = f[i + 2]
      OBVIOUS
    <3>2. /\ i + 1 \in 1..n /\ (i + 2) - 1 = i + 1 /\ g[i + 1] = f[i + 1]
          /\ i + 2 \in 2..n /\ i + 2 \in 2..(n + 1)
      BY <1>2, <2>4, <3>1
    <3>3. g[i + 2] = g[i + 1] \o more[i + 2] /\ f[i + 2] = f[i + 1] \o seqs[i + 2]
      BY <1>3, <2>2, <3>2
    <3> QED
      BY <1>2, <3>1, <3>2, <3>3
  <2>5. \A i \in Nat : i \in T
    <3> HIDE DEF T
    <3> QED
      BY <2>3, <2>4, Counting
  <2>6. g[n] = f[n]
    <3>1. n - 1 \in Nat /\ (n - 1) + 1 = n /\ n \in 1..n
      BY <1>2, <2>1
    <3> QED
      BY <2>5, <3>1
  <2>7. g[n + 1] = g[n] \o more[n + 1] /\ f[n] \in Seq(C)
    <3>1. n + 1 \in 2..(n + 1) /\ (n + 1) - 1 = n /\ n \in 1..n
      BY <1>2, <2>1
    <3> QED
      BY <1>3, <2>2, <3>1
  <2> QED
    BY <1>1, <1>2, <1>3, <2>2, <2>6, <2>7 DEF more
<1> QED
  BY <1>4, <1>5

(***************************************************************************)
(* The value of digits                                                     *)
(***************************************************************************)

\* The base and the limit of an int, as numbers.
LEMMA IntFacts ==
    /\ Base \in Nat /\ Base > 1 /\ IntMax \in Nat /\ IntMax >= Base
    /\ \A d \in Digits : d \in Nat /\ d < Base
BY NumbersAssumption DEF Digits

\* The equation ValueBehind stands for.
ValueOf(n, digits, f) ==
    f = [k \in 0..Len(digits) |-> IF k = 0 THEN n ELSE f[k - 1] * Base + digits[k]]

\* The values of the first k digits, each from the one before.
LEMMA ValueFacts ==
    ASSUME NEW n \in Int, NEW digits \in Seq(Digits)
    PROVE  \E f \in [0..Len(digits) -> Int] :
              /\ ValueBehind(n, digits) = f[Len(digits)]
              /\ f[0] = n
              /\ \A k \in 1..Len(digits) : f[k] = f[k - 1] * Base + digits[k]
<1> DEFINE m == Len(digits)
           longer(k, v) == v * Base + digits[k]
           step == [x \in (1..m) \X Int |-> longer(x[1], x[2])]
<1>1. m \in Nat /\ \A k \in 1..m : digits[k] \in Int
  BY IntFacts
<1>2. \A k \in 1..m, v \in Int : longer(k, v) \in Int
  BY <1>1, IntFacts
<1>3. \A f, k : longer(k, f[k - 1]) = f[k - 1] * Base + digits[k]
  OBVIOUS
<1> HIDE DEF m, longer
<1>4. step \in [(1..m) \X Int -> Int]
  BY <1>2
<1>5. \A k \in 1..m, v \in Int : step[<<k, v>>] = longer(k, v)
  OBVIOUS
<1> HIDE DEF step
<1>6. PICK f \in [0..m -> Int] : Recurses(f, m, n, step)
  BY <1>1, <1>4, Recursion
<1>7. \A k \in 1..m : k - 1 \in 0..m /\ f[k - 1] \in Int
  BY <1>1
<1>8. f[0] = n /\ \A k \in 1..m : f[k] = longer(k, f[k - 1])
  BY <1>5, <1>6, <1>7 DEF Recurses
<1>9. \A k \in 0..m : k # 0 => k \in 1..m
  BY <1>1
<1>10. f = [k \in 0..m |-> IF k = 0 THEN n ELSE longer(k, f[k - 1])]
  BY <1>8, <1>9
<1>11. ValueOf(n, digits, f)
  BY <1>3, <1>10, Zenon DEF ValueOf, m
<1> DEFINE g == CHOOSE f1 : ValueOf(n, digits, f1)
<1>12. ValueOf(n, digits, g)
  BY <1>11, Zenon
<1>13. ValueBehind(n, digits) = g[m]
  BY Zenon DEF ValueBehind, ValueOf, m
<1> HIDE DEF g
<1>14. g = [k \in 0..m |-> IF k = 0 THEN n ELSE longer(k, g[k - 1])]
  BY <1>3, <1>12, Zenon DEF ValueOf, m
<1>15. 0 \in 0..m /\ \A k \in 1..m : k \in 0..m /\ k # 0
  BY <1>1
<1>16. g[0] = n /\ \A k \in 1..m : g[k] = longer(k, g[k - 1])
  BY <1>14, <1>15, Zenon
<1>17. \A k \in 0..m : g[k] \in Int
  BY <1>1, <1>2, <1>16, RecursionStays
<1>18. g \in [0..m -> Int]
  BY <1>14, <1>17
<1> QED
  BY <1>3, <1>13, <1>16, <1>18 DEF m

\* From its place a on, f is the value of a number going on with m digits of x.
GoesOn(f, a, x, m) == \A k \in 1..m : f[a + k] = f[a + k - 1] * Base + x[k]

\* Two numbers that go on with the same digits from the same value stay the same.
GoTogether(f, a, g, b, x, m) == f[a] = g[b] /\ GoesOn(f, a, x, m) /\ GoesOn(g, b, x, m)

LEMMA ValuesAgree ==
    ASSUME NEW m \in Nat, NEW f, NEW g, NEW x, NEW a \in Nat, NEW b \in Nat,
           GoTogether(f, a, g, b, x, m)
    PROVE  f[a + m] = g[b + m]
<1> USE DEF GoTogether
<1> DEFINE T == {i \in Nat : i <= m => f[a + i] = g[b + i]}
<1>1. 0 \in T
  OBVIOUS
<1>2. ASSUME NEW i \in Nat, i \in T PROVE i + 1 \in T
  <2>1. SUFFICES ASSUME i + 1 <= m PROVE f[a + (i + 1)] = g[b + (i + 1)]
    OBVIOUS
  <2>2. i + 1 \in 1..m /\ a + (i + 1) - 1 = a + i /\ b + (i + 1) - 1 = b + i /\ f[a + i] = g[b + i]
    BY <1>2, <2>1
  <2> QED
    BY <2>2 DEF GoesOn
<1>3. m \in T
  <2> HIDE DEF T
  <2> QED
    BY <1>1, <1>2, Counting
<1> QED
  BY <1>3

\* A digit behind the others.
LEMMA ValueAppends ==
    ASSUME NEW n \in Int, NEW digits \in Seq(Digits), NEW d \in Digits
    PROVE  /\ ValueBehind(n, <<>>) = n
           /\ ValueBehind(n, digits) \in Int
           /\ ValueBehind(n, Append(digits, d)) = ValueBehind(n, digits) * Base + d
<1> DEFINE m == Len(digits)
           more == Append(digits, d)
<1>1. /\ m \in Nat /\ more \in Seq(Digits) /\ Len(more) = m + 1
      /\ \A i \in 1..m : more[i] = digits[i]
      /\ more[m + 1] = d
  BY AppendProperties
<1> HIDE DEF more
<1>2. PICK f \in [0..m -> Int] :
         /\ ValueBehind(n, digits) = f[m]
         /\ f[0] = n
         /\ \A k \in 1..m : f[k] = f[k - 1] * Base + digits[k]
  BY ValueFacts
<1>3. PICK g \in [0..Len(more) -> Int] :
         /\ ValueBehind(n, more) = g[Len(more)]
         /\ g[0] = n
         /\ \A k \in 1..Len(more) : g[k] = g[k - 1] * Base + more[k]
  BY <1>1, ValueFacts
<1>4. GoesOn(f, 0, digits, m) /\ GoesOn(g, 0, digits, m)
  BY <1>1, <1>2, <1>3 DEF GoesOn
<1>5. f[0 + m] = g[0 + m]
  <2>1. f[0] = g[0]
    BY <1>2, <1>3
  <2>2. GoTogether(f, 0, g, 0, digits, m)
    BY <2>1, <1>4, Zenon DEF GoTogether
  <2>3. m \in Nat /\ 0 \in Nat
    BY <1>1
  <2> QED
    BY <2>2, <2>3, ValuesAgree
<1>6. g[m + 1] = g[m] * Base + d
  BY <1>1, <1>3, SMTT(40)
<1>7. ValueBehind(n, <<>>) = n
  <2>1. <<>> \in Seq(Digits) /\ Len(<<>>) = 0
    BY EmptySeq
  <2> DEFINE none == <<>>
  <2>2. none \in Seq(Digits) /\ Len(none) = 0
    BY <2>1
  <2> HIDE DEF none
  <2>3. \E h \in [0..Len(none) -> Int] : ValueBehind(n, none) = h[Len(none)] /\ h[0] = n
    BY <2>2, ValueFacts, ZenonT(60)
  <2>4. PICK h : ValueBehind(n, none) = h[Len(none)] /\ h[0] = n
    BY <2>3
  <2> QED
    BY <2>2, <2>4 DEF none
<1> QED
  BY <1>1, <1>2, <1>3, <1>5, <1>6, <1>7 DEF more

\* A digit before the others.
LEMMA ValuePrepends ==
    ASSUME NEW n \in Int, NEW digits \in Seq(Digits), NEW d \in Digits,
           NEW more \in Seq(Digits), Len(more) = Len(digits) + 1, more[1] = d,
           \A k \in 1..Len(digits) : more[k + 1] = digits[k]
    PROVE  ValueBehind(n, more) = ValueBehind(n * Base + d, digits)
<1> DEFINE m == Len(digits)
<1>1. m \in Nat /\ n * Base + d \in Int
  BY IntFacts
<1>2. PICK f \in [0..m -> Int] :
         /\ ValueBehind(n * Base + d, digits) = f[m]
         /\ f[0] = n * Base + d
         /\ \A k \in 1..m : f[k] = f[k - 1] * Base + digits[k]
  BY <1>1, ValueFacts
<1>3. PICK g \in [0..Len(more) -> Int] :
         /\ ValueBehind(n, more) = g[Len(more)]
         /\ g[0] = n
         /\ \A k \in 1..Len(more) : g[k] = g[k - 1] * Base + more[k]
  BY ValueFacts
<1>4. g[1] = n * Base + d
  BY <1>1, <1>3
<1>5. GoesOn(f, 0, digits, m)
  BY <1>1, <1>2 DEF GoesOn
<1>6. GoesOn(g, 1, digits, m)
  <2>1. ASSUME NEW k \in 1..m PROVE g[1 + k] = g[1 + k - 1] * Base + digits[k]
    <3>1. 1 + k \in 1..Len(more) /\ more[1 + k] = digits[k]
      BY <1>1
    <3> QED
      BY <1>3, <3>1, SMTT(40)
  <2> QED
    BY <2>1 DEF GoesOn
<1>7. f[0 + m] = g[1 + m]
  <2>1. GoTogether(f, 0, g, 1, digits, m)
    BY <1>2, <1>4, <1>5, <1>6, Zenon DEF GoTogether
  <2>2. m \in Nat /\ 0 \in Nat /\ 1 \in Nat
    BY <1>1
  <2> QED
    BY <2>1, <2>2, ValuesAgree
<1> QED
  BY <1>1, <1>2, <1>3, <1>7

(***************************************************************************)
(* The words of a text                                                     *)
(***************************************************************************)

\* One character more makes no word shorter, and a letter leaves a word.
LEMMA NextWordsGrow ==
    ASSUME NEW C, NEW text \in Seq(C), NEW k \in 1..Len(text), NEW words \in Seq(Seq(C)),
           NEW next, next = NextWords(text, k, words)
    PROVE  /\ Len(words) <= Len(next)
           /\ \A i \in 1..Len(words) : Len(words[i]) <= Len(next[i])
           /\ text[k] # Space /\ (words # <<>> \/ k = 1 \/ text[k - 1] = Space) => next # <<>>
<1>1. /\ text[k] \in C /\ <<text[k]>> \in Seq(C) /\ Len(words) \in Nat
      /\ \A i \in 1..Len(words) : words[i] \in Seq(C) /\ Len(words[i]) \in Nat
  OBVIOUS
<1>2. CASE text[k] = Space
  BY <1>1, <1>2 DEF NextWords
<1>3. CASE text[k] # Space /\ (k = 1 \/ text[k - 1] = Space)
  <2>1. next = Append(words, <<text[k]>>)
    BY <1>3 DEF NextWords
  <2>2. Len(next) = Len(words) + 1 /\ next # <<>> /\ \A i \in 1..Len(words) : next[i] = words[i]
    <3> DEFINE V == Seq(C)
               w == <<text[k]>>
    <3>1. words \in Seq(V) /\ w \in V /\ next = Append(words, w)
      BY <1>1, <2>1
    <3> HIDE DEF V, w
    <3> QED
      BY <3>1, AppendProperties
  <2> QED
    BY <1>1, <2>2
<1>4. CASE text[k] # Space /\ ~(k = 1 \/ text[k - 1] = Space)
  <2>1. next = LongerLast(words, text[k])
    BY <1>4 DEF NextWords
  <2>2. /\ next \in Seq(Seq(C)) /\ Len(next) = Len(words)
        /\ \A i \in 1..Len(words) :
              next[i] = IF i = Len(words) THEN Append(words[i], text[k]) ELSE words[i]
    <3> DEFINE c == text[k]
    <3>1. c \in C /\ next = LongerLast(words, c)
      BY <1>1, <2>1
    <3> HIDE DEF c
    <3>2. words \in Seq(Seq(C))
      OBVIOUS
    <3>3. /\ LongerLast(words, c) \in Seq(Seq(C)) /\ Len(LongerLast(words, c)) = Len(words)
          /\ \A i \in 1..Len(words) :
                LongerLast(words, c)[i] = IF i = Len(words) THEN Append(words[i], c) ELSE words[i]
      BY ONLY <3>1, <3>2, LastGrows, Zenon
    <3> QED
      BY <3>1, <3>3, Zenon DEF c
  <2>3. \A i \in 1..Len(words) : Len(Append(words[i], text[k])) = Len(words[i]) + 1
    BY <1>1
  <2>4. words # <<>> => next # <<>>
    <3>1. words # <<>> => Len(words) # 0
      OBVIOUS
    <3> QED
      BY <2>2, <3>1
  <2>5. ASSUME NEW i \in 1..Len(words) PROVE Len(words[i]) <= Len(next[i])
    <3>1. CASE i = Len(words)
      <4>1. next[i] = Append(words[i], text[k])
        BY <2>2, <3>1
      <4>2. Len(next[i]) = Len(words[i]) + 1
        BY <2>3, <4>1
      <4> QED
        BY <1>1, <4>2
    <3>2. CASE i # Len(words)
      <4>1. next[i] = words[i]
        BY <2>2, <3>2
      <4> QED
        BY <1>1, <4>1
    <3> QED
      BY <3>1, <3>2
  <2> QED
    BY <1>1, <1>4, <2>2, <2>4, <2>5
<1> QED
  BY <1>2, <1>3, <1>4

\* The words before a place only get longer behind it.
LEMMA WordsGrow ==
    ASSUME NEW C, NEW text \in Seq(C), NEW k \in 0..Len(text)
    PROVE  LET last == WordsIn(text)[Len(text)]
           IN  /\ Len(WordsIn(text)[k]) <= Len(last)
               /\ \A i \in 1..Len(WordsIn(text)[k]) : Len(WordsIn(text)[k][i]) <= Len(last[i])
<1> DEFINE W == WordsIn(text)
           n == Len(text)
           Below(h) == /\ Len(W[k]) <= Len(W[h])
                       /\ \A i \in 1..Len(W[k]) : Len(W[k][i]) <= Len(W[h][i])
           T == {d \in Nat : k + d <= n => Below(k + d)}
<1>1. n \in Nat /\ W \in [0..n -> Seq(Seq(C))]
      /\ \A h \in 1..n : W[h] = NextWords(text, h, W[h - 1])
  BY WordsFacts
<1> HIDE DEF W
<1>2. \A h \in 0..n : /\ W[h] \in Seq(Seq(C)) /\ Len(W[h]) \in Nat
                      /\ \A i \in 1..Len(W[h]) : W[h][i] \in Seq(C) /\ Len(W[h][i]) \in Nat
  <2> SUFFICES ASSUME NEW h \in 0..n
               PROVE  /\ W[h] \in Seq(Seq(C)) /\ Len(W[h]) \in Nat
                      /\ \A i \in 1..Len(W[h]) : W[h][i] \in Seq(C) /\ Len(W[h][i]) \in Nat
    OBVIOUS
  <2> DEFINE V == Seq(C)
             words == W[h]
  <2>1. words \in Seq(V)
    BY <1>1, Zenon
  <2> HIDE DEF words
  <2>2. Len(words) \in Nat
    BY <2>1
  <2>3. ASSUME NEW i \in 1..Len(words) PROVE words[i] \in V
    <3> HIDE DEF V
    <3> QED
      BY <2>1
  <2>4. \A i \in 1..Len(words) : words[i] \in V /\ Len(words[i]) \in Nat
    BY <2>3
  <2> QED
    BY <2>1, <2>2, <2>4, Zenon DEF words, V
<1>3. 0 \in T
  BY <1>2
<1>4. ASSUME NEW d \in Nat, d \in T PROVE d + 1 \in T
  <2>1. SUFFICES ASSUME k + (d + 1) <= n PROVE Below(k + (d + 1))
    OBVIOUS
  <2> DEFINE h == k + d
  <2>2. /\ h \in 0..n /\ h + 1 \in 1..n /\ h + 1 \in 0..n /\ (h + 1) - 1 = h /\ h + 1 = k + (d + 1)
        /\ Below(h)
    BY <1>1, <1>4, <2>1
  <2> HIDE DEF h
  <2>3. W[h + 1] = NextWords(text, h + 1, W[h])
    BY <1>1, <2>2
  <2>4. /\ Len(W[h]) <= Len(W[h + 1])
        /\ \A i \in 1..Len(W[h]) : Len(W[h][i]) <= Len(W[h + 1][i])
    <3> DEFINE q == h + 1
               before == W[h]
               after == W[q]
    <3>1. /\ q \in 1..Len(text) /\ before \in Seq(Seq(C)) /\ after = NextWords(text, q, before)
      BY <1>2, <2>2, <2>3
    <3> HIDE DEF q, before, after
    <3>2. Len(before) <= Len(after)
      BY <3>1, NextWordsGrow
    <3>3. \A i \in 1..Len(before) : Len(before[i]) <= Len(after[i])
      BY <3>1, NextWordsGrow
    <3> QED
      BY <3>2, <3>3, Zenon DEF q, before, after
  <2>5. Len(W[k]) \in Nat /\ Len(W[h]) \in Nat /\ Len(W[h + 1]) \in Nat
    BY <1>2, <2>2
  <2>6. ASSUME NEW i \in 1..Len(W[k]) PROVE Len(W[k][i]) <= Len(W[h + 1][i])
    <3>1. i \in 1..Len(W[h]) /\ i \in 1..Len(W[h + 1])
      BY <2>2, <2>4, <2>5, SMTT(40)
    <3>2. Len(W[k][i]) \in Nat /\ Len(W[h][i]) \in Nat /\ Len(W[h + 1][i]) \in Nat
      BY <1>2, <2>2, <3>1
    <3>3. Len(W[k][i]) <= Len(W[h][i])
      BY <2>2
    <3>4. Len(W[h][i]) <= Len(W[h + 1][i])
      BY <2>4, <3>1
    <3> DEFINE a == Len(W[k][i])
               b == Len(W[h][i])
               c == Len(W[h + 1][i])
    <3>5. a \in Nat /\ b \in Nat /\ c \in Nat /\ a <= b /\ b <= c
      BY <3>2, <3>3, <3>4
    <3> HIDE DEF a, b, c
    <3>6. a <= c
      BY <3>5
    <3> QED
      BY <3>6 DEF a, c
  <2>7. Below(h + 1)
    BY <2>2, <2>4, <2>5, <2>6
  <2> QED
    BY <2>2, <2>7
<1>5. \A d \in Nat : d \in T
  <2> HIDE DEF T
  <2> QED
    BY <1>3, <1>4, Counting
<1>6. Below(n)
  <2>1. n - k \in Nat /\ k + (n - k) = n
    BY <1>1
  <2>2. n - k \in T
    BY <1>5, <2>1
  <2>3. n <= n
    BY <1>1
  <2> HIDE DEF n, Below
  <2> QED
    BY <2>1, <2>2, <2>3
<1> QED
  BY <1>6 DEF W

\* Behind a letter there is a word.
LEMMA WordBehindLetter ==
    ASSUME NEW C, NEW text \in Seq(C)
    PROVE  \A k \in 1..Len(text) : text[k] # Space => WordsIn(text)[k] # <<>>
<1> DEFINE W == WordsIn(text)
           n == Len(text)
           T == {k \in Nat : k + 1 <= n => (text[k + 1] # Space => W[k + 1] # <<>>)}
<1>1. n \in Nat /\ W \in [0..n -> Seq(Seq(C))]
      /\ \A h \in 1..n : W[h] = NextWords(text, h, W[h - 1])
  BY WordsFacts
<1> HIDE DEF W
<1>2. 0 \in T
  <2>1. SUFFICES ASSUME n >= 1, text[1] # Space PROVE W[1] # <<>>
    OBVIOUS
  <2>2. 1 \in 1..n /\ 0 \in 0..n /\ W[0] \in Seq(Seq(C)) /\ W[1] = NextWords(text, 1, W[0])
    BY <1>1, <2>1
  <2> QED
    BY <2>1, <2>2, NextWordsGrow
<1>3. ASSUME NEW k \in Nat, k \in T PROVE k + 1 \in T
  <2>1. SUFFICES ASSUME k + 2 <= n, text[k + 2] # Space PROVE W[k + 2] # <<>>
    OBVIOUS
  <2> DEFINE h == k + 1
  <2>2. /\ h \in 0..n /\ h + 1 \in 1..n /\ (h + 1) - 1 = h /\ h + 1 = k + 2
        /\ text[h] # Space => W[h] # <<>>
    BY <1>1, <1>3, <2>1
  <2> HIDE DEF h
  <2>3. W[h] \in Seq(Seq(C)) /\ W[h + 1] = NextWords(text, h + 1, W[h])
    BY <1>1, <2>2
  <2>4. W[h + 1] # <<>>
    BY <2>1, <2>2, <2>3, NextWordsGrow
  <2> QED
    BY <2>2, <2>4
<1>4. \A k \in Nat : k \in T
  <2> HIDE DEF T
  <2> QED
    BY <1>2, <1>3, Counting
<1>5. ASSUME NEW k \in 1..n, text[k] # Space PROVE W[k] # <<>>
  <2>1. k - 1 \in Nat /\ (k - 1) + 1 = k /\ k <= n
    BY <1>1
  <2> QED
    BY <1>4, <1>5, <2>1
<1> QED
  BY <1>5 DEF W

\* The last word grows at the end of the sequence of words.
LEMMA LongerIsAppend ==
    ASSUME NEW C, NEW words \in Seq(Seq(C)), NEW s \in Seq(C), NEW c \in C
    PROVE  LongerLast(Append(words, s), c) = Append(words, Append(s, c))
<1> DEFINE V == Seq(C)
           more == Append(words, s)
           longer == Append(s, c)
           n == Len(words)
           left == LongerLast(more, c)
           right == Append(words, longer)
<1>1. longer \in V /\ s \in V /\ words \in Seq(V) /\ n \in Nat
  BY AppendProperties
<1>2. /\ more \in Seq(V) /\ Len(more) = n + 1 /\ more[n + 1] = s
      /\ \A i \in 1..n : more[i] = words[i]
  <2> HIDE DEF V
  <2> QED
    BY <1>1, AppendProperties
<1>3. /\ right \in Seq(V) /\ Len(right) = n + 1 /\ right[n + 1] = longer
      /\ \A i \in 1..n : right[i] = words[i]
  <2> HIDE DEF V, longer
  <2> QED
    BY <1>1, AppendProperties
<1> HIDE DEF more
<1>4. /\ left \in Seq(V) /\ Len(left) = Len(more)
      /\ \A i \in 1..Len(more) : left[i] = IF i = Len(more) THEN Append(more[i], c) ELSE more[i]
  <2>1. more \in Seq(Seq(C)) /\ c \in C
    BY <1>2
  <2> QED
    BY ONLY <2>1, LastGrows, Zenon DEF V
<1> HIDE DEF left, right, V, n
<1>5. ASSUME NEW i \in 1..(n + 1) PROVE left[i] = right[i]
  <2>1. CASE i = n + 1
    <3>1. left[i] = Append(more[i], c) /\ more[i] = s /\ right[i] = longer
      BY <1>2, <1>3, <1>4, <2>1
    <3> QED
      BY <3>1
  <2>2. CASE i # n + 1
    <3>1. i \in 1..n /\ i \in 1..Len(more) /\ i # Len(more)
      BY <1>1, <1>2, <2>2
    <3>2. left[i] = more[i] /\ more[i] = words[i] /\ right[i] = words[i]
      BY <1>2, <1>3, <1>4, <3>1
    <3> QED
      BY <3>2
  <2> QED
    BY <2>1, <2>2
<1>6. left = right
  BY <1>2, <1>3, <1>4, <1>5, SeqEqual
<1> QED
  BY <1>6 DEF left, right, more, longer

\* A part of a text, and the part with the next character.
LEMMA PartGrows ==
    ASSUME NEW C, NEW text \in Seq(C), NEW p \in 1..Len(text), NEW e \in p..Len(text)
    PROVE  /\ SubSeq(text, p, p) = <<text[p]>>
           /\ SubSeq(text, p, e) \in Seq(C) /\ SubSeq(text, p, e - 1) \in Seq(C)
           /\ SubSeq(text, p, e) = Append(SubSeq(text, p, e - 1), text[e])
<1>1. p \in Int /\ e \in Int /\ p \in p..Len(text) /\ text[p] \in C /\ text[e] \in C
      /\ \A i \in p..e : text[i] \in C
  OBVIOUS
<1>2. SubSeq(text, p, e) \in Seq(C)
  BY <1>1, SubSeqProperties
<1>3. SubSeq(text, p, e - 1) \in Seq(C)
  BY <1>1, SubSeqProperties
<1>4. SubSeq(text, p, e) = Append(SubSeq(text, p, e - 1), text[e])
  <2>1. SubSeq(text, p, e) = SubSeq(text, p, e - 1) \o <<text[e]>>
    BY SubSeqRecursiveSecond
  <2> QED
    BY <1>1, <1>3, <2>1, AppendIsConcat
<1>5. SubSeq(text, p, p) = <<text[p]>>
  <2>1. SubSeq(text, p, p) = SubSeq(text, p, p - 1) \o <<text[p]>>
    BY <1>1, SubSeqRecursiveSecond
  <2>2. SubSeq(text, p, p - 1) = <<>>
    BY <1>1, SubSeqEmpty
  <2>3. <<text[p]>> \in Seq(C)
    BY <1>1
  <2> QED
    BY <2>1, <2>2, <2>3, ConcatEmptySeq
<1> QED
  BY <1>2, <1>3, <1>4, <1>5

\* From the beginning of a word to its end, the characters passed are its own.
LEMMA LetterRun ==
    ASSUME NEW C, NEW text \in Seq(C), NEW p \in 1..Len(text), p = 1 \/ text[p - 1] = Space,
           NEW e \in p..Len(text), \A q \in p..e : text[q] # Space
    PROVE  WordsIn(text)[e] = Append(WordsIn(text)[p - 1], SubSeq(text, p, e))
<1> DEFINE W == WordsIn(text)
           n == Len(text)
           T == {d \in Nat : p + d <= e => W[p + d] = Append(W[p - 1], SubSeq(text, p, p + d))}
<1>1. n \in Nat /\ W \in [0..n -> Seq(Seq(C))]
      /\ \A h \in 1..n : W[h] = NextWords(text, h, W[h - 1])
  BY WordsFacts
<1> HIDE DEF W
<1>2. p - 1 \in 0..n /\ W[p - 1] \in Seq(Seq(C)) /\ \A q \in 1..n : text[q] \in C
  BY <1>1, SMTT(40)
<1>3. 0 \in T
  <2>1. W[p] = Append(W[p - 1], <<text[p]>>)
    <3>1. p \in 1..n /\ text[p] # Space
      BY <1>1
    <3> QED
      BY <1>1, <3>1 DEF NextWords
  <2>2. SubSeq(text, p, p) = <<text[p]>>
    BY PartGrows
  <2>3. p + 0 = p
    OBVIOUS
  <2> QED
    BY <2>1, <2>2, <2>3
<1>4. ASSUME NEW d \in Nat, d \in T PROVE d + 1 \in T
  <2>1. SUFFICES ASSUME p + (d + 1) <= e
                 PROVE  W[p + (d + 1)] = Append(W[p - 1], SubSeq(text, p, p + (d + 1)))
    OBVIOUS
  <2> DEFINE h == p + d
             s == SubSeq(text, p, h)
  <2>2. /\ h \in p..e /\ h \in 1..n /\ h + 1 \in 1..n /\ h + 1 \in p..e /\ (h + 1) - 1 = h
        /\ h + 1 = p + (d + 1) /\ h + 1 # 1
        /\ W[h] = Append(W[p - 1], s)
    BY <1>1, <1>4, <2>1
  <2>3. s \in Seq(C) /\ SubSeq(text, p, h + 1) = Append(s, text[h + 1])
    <3>1. h + 1 \in p..Len(text)
      BY <2>2
    <3> HIDE DEF h
    <3> QED
      BY <2>2, <3>1, PartGrows, SMTT(40)
  <2> HIDE DEF h, s
  <2>4. text[h + 1] # Space /\ text[h] # Space /\ text[h + 1] \in C
    BY <1>2, <2>2
  <2>5. W[h + 1] = LongerLast(W[h], text[h + 1])
    <3>1. W[h + 1] = NextWords(text, h + 1, W[h])
      BY <1>1, <2>2
    <3> QED
      BY <2>2, <2>4, <3>1 DEF NextWords
  <2>6. LongerLast(Append(W[p - 1], s), text[h + 1]) = Append(W[p - 1], Append(s, text[h + 1]))
    <3> DEFINE w == W[p - 1]
               c == text[h + 1]
    <3>1. w \in Seq(Seq(C)) /\ s \in Seq(C) /\ c \in C
      BY <1>2, <2>3, <2>4
    <3> HIDE DEF w, c
    <3>2. LongerLast(Append(w, s), c) = Append(w, Append(s, c))
      BY <3>1, LongerIsAppend
    <3> QED
      BY <3>2 DEF w, c
  <2> QED
    BY <2>2, <2>3, <2>5, <2>6
<1>5. \A d \in Nat : d \in T
  <2> HIDE DEF T
  <2> QED
    BY <1>3, <1>4, Counting
<1>6. e - p \in Nat /\ p + (e - p) = e /\ e <= e
  BY <1>1
<1>7. e - p \in T
  BY <1>5, <1>6
<1> QED
  BY <1>6, <1>7 DEF W

\* Spaces make no words.
LEMMA SpaceRun ==
    ASSUME NEW C, NEW text \in Seq(C), NEW a \in 0..Len(text), NEW b \in a..Len(text),
           \A q \in (a + 1)..b : text[q] = Space
    PROVE  WordsIn(text)[b] = WordsIn(text)[a]
<1> DEFINE W == WordsIn(text)
           n == Len(text)
           T == {d \in Nat : a + d <= b => W[a + d] = W[a]}
<1>1. n \in Nat /\ \A h \in 1..n : W[h] = NextWords(text, h, W[h - 1])
  BY WordsFacts
<1> HIDE DEF W
<1>2. 0 \in T
  OBVIOUS
<1>3. ASSUME NEW d \in Nat, d \in T PROVE d + 1 \in T
  <2>1. SUFFICES ASSUME a + (d + 1) <= b PROVE W[a + (d + 1)] = W[a]
    OBVIOUS
  <2> DEFINE h == a + d
  <2>2. h + 1 \in 1..n /\ (h + 1) - 1 = h /\ h + 1 = a + (d + 1) /\ W[h] = W[a] /\ h + 1 \in (a + 1)..b
    BY <1>1, <1>3, <2>1
  <2> HIDE DEF h
  <2>3. W[h + 1] = NextWords(text, h + 1, W[h]) /\ text[h + 1] = Space
    BY <1>1, <2>2
  <2> QED
    BY <2>2, <2>3 DEF NextWords
<1>4. \A d \in Nat : d \in T
  <2> HIDE DEF T
  <2> QED
    BY <1>2, <1>3, Counting
<1>5. b - a \in Nat /\ a + (b - a) = b /\ b <= b
  BY <1>1
<1>6. b - a \in T
  BY <1>4, <1>5
<1> QED
  BY <1>5, <1>6 DEF W

\* The three cases of one character more.
LEMMA NextWordsIs ==
    ASSUME NEW text, NEW k, NEW words
    PROVE  /\ text[k] = Space => NextWords(text, k, words) = words
           /\ text[k] # Space /\ (k = 1 \/ text[k - 1] = Space)
                 => NextWords(text, k, words) = Append(words, <<text[k]>>)
           /\ text[k] # Space /\ ~(k = 1 \/ text[k - 1] = Space)
                 => NextWords(text, k, words) = LongerLast(words, text[k])
BY Zenon DEF NextWords

\* Words appended behind others, and the last of them longer.
LEMMA BehindOthers ==
    ASSUME NEW V, NEW a \in Seq(V), NEW b \in Seq(V), NEW x \in V
    PROVE  Append(a \o b, x) = a \o Append(b, x)
<1>1. <<x>> \in Seq(V) /\ a \o b \in Seq(V)
  BY ConcatProperties
<1>2. Append(a \o b, x) = (a \o b) \o <<x>> /\ Append(b, x) = b \o <<x>>
  BY <1>1, AppendIsConcat
<1> QED
  BY <1>1, <1>2, ConcatAssociative

LEMMA LongerBehindOthers ==
    ASSUME NEW C, NEW a \in Seq(Seq(C)), NEW b \in Seq(Seq(C)), b # <<>>, NEW c \in C
    PROVE  LongerLast(a \o b, c) = a \o LongerLast(b, c)
<1> DEFINE V == Seq(C)
<1>1. \E front \in Seq(V) : \E s \in V : b = Append(front, s)
  <2>1. b \in Seq(V)
    OBVIOUS
  <2> HIDE DEF V
  <2> QED
    BY <2>1, SequenceEmptyOrAppend
<1>2. PICK front \in Seq(V), s \in V : b = Append(front, s)
  BY <1>1
<1> DEFINE longer == Append(s, c)
           af == a \o front
<1>3. longer \in V /\ a \in Seq(V) /\ front \in Seq(V) /\ s \in V
  BY <1>2, AppendProperties
<1>4. af \in Seq(V) /\ a \o b = Append(af, s) /\ a \o Append(front, longer) = Append(af, longer)
  <2> HIDE DEF V, longer
  <2> QED
    BY <1>2, <1>3, ConcatProperties, BehindOthers, SMTT(40)
<1>5. af \in Seq(Seq(C)) /\ front \in Seq(Seq(C)) /\ s \in Seq(C)
  BY <1>3, <1>4
<1> HIDE DEF af
<1>6. LongerLast(Append(af, s), c) = Append(af, longer)
  BY <1>5, LongerIsAppend
<1>7. LongerLast(Append(front, s), c) = Append(front, longer)
  BY <1>5, LongerIsAppend
<1> HIDE DEF longer
<1> QED
  BY <1>2, <1>4, <1>6, <1>7

\* No word of a text is cut at p.
Boundary(text, p) == p = 1 \/ text[p - 1] = Space \/ p > Len(text) \/ text[p] = Space

\* Where no word is cut, the words of a text are those of its two parts.
LEMMA WordsOfParts ==
    ASSUME NEW C, NEW text \in Seq(C), NEW p \in 1..(Len(text) + 1), Boundary(text, p),
           NEW r, r = SubSeq(text, p, Len(text))
    PROVE  r \in Seq(C) /\ Words(text) = WordsIn(text)[p - 1] \o Words(r)
<1> DEFINE n == Len(text)
           m == Len(r)
           V == Seq(Seq(C))
           W == WordsIn(text)
           R == WordsIn(r)
           o == p - 1
           before == W[o]
           T == {d \in Nat : d <= m => W[o + d] = before \o R[d]}
<1>1. /\ n \in Nat /\ r \in Seq(C) /\ m \in Nat /\ o \in Nat /\ o + m = n /\ o \in 0..n /\ p = o + 1
      /\ \A k \in 1..m : r[k] = text[o + k] /\ o + k \in 1..n
  <2>1. /\ p \in Int /\ n \in Int /\ n \in Nat /\ \A i \in p..n : text[i] \in C
    OBVIOUS
  <2>2. /\ r \in Seq(C) /\ m = IF p <= n THEN n - p + 1 ELSE 0
        /\ \A i \in 1..(n - p + 1) : r[i] = text[p + i - 1]
    BY <2>1, SubSeqProperties
  <2>3. m = n - p + 1 /\ m \in Nat
    BY <2>1, <2>2
  <2>4. \A k \in 1..m : o + k = p + k - 1 /\ o + k \in 1..n
    BY <2>1, <2>3
  <2> QED
    BY <2>1, <2>2, <2>3, <2>4
<1>2. /\ W \in [0..n -> V] /\ \A h \in 1..n : W[h] = NextWords(text, h, W[h - 1])
  BY WordsFacts
<1>3. /\ R \in [0..m -> V] /\ R[0] = <<>> /\ \A h \in 1..m : R[h] = NextWords(r, h, R[h - 1])
  BY <1>1, WordsFacts
<1>4. \A k \in 1..m : r[k] # Space => R[k] # <<>>
  BY <1>1, WordBehindLetter
<1>5. before \in V /\ \A k \in 1..m : r[k] \in C /\ <<r[k]>> \in Seq(C)
  <2>1. before \in V
    BY <1>1, <1>2
  <2>2. \A k \in 1..m : r[k] \in C
    BY <1>1
  <2> QED
    BY <2>1, <2>2
<1> HIDE DEF W, R, V, n, m, o, before
<1>6. 0 \in T
  <2>1. before \o <<>> = before
    BY <1>5, ConcatEmptySeq DEF V
  <2>2. o + 0 = o
    BY <1>1
  <2> QED
    BY <1>3, <2>1, <2>2 DEF before
<1>7. ASSUME NEW d \in Nat, d \in T PROVE d + 1 \in T
  <2>1. SUFFICES ASSUME d + 1 <= m PROVE W[o + (d + 1)] = before \o R[d + 1]
    OBVIOUS
  <2> DEFINE e == d + 1
             i == o + e
  <2>2. e \in 1..m /\ e - 1 = d /\ e - 1 \in 0..m /\ e = d + 1
    BY <1>1, <2>1
  <2>3. i - 1 = o + (e - 1) /\ i = o + (d + 1) /\ i \in 1..n
    BY <1>1, <2>1
  <2>10. r[e] = text[i]
    BY <1>1, <2>2
  <2>11. /\ e # 1 => e - 1 \in 1..m /\ i # 1
         /\ e = 1 => i = p
    BY <1>1, <2>2
  <2>4. W[i - 1] = before \o R[e - 1]
    BY <1>7, <2>1, <2>2, <2>3
  <2> HIDE DEF i, e
  <2> DEFINE c == r[e]
             a == R[e - 1]
  <2>5. a \in V /\ c \in C /\ <<c>> \in Seq(C)
    BY <1>3, <1>5, <2>2
  <2>6. W[i] = NextWords(text, i, before \o a) /\ R[e] = NextWords(r, e, a)
    BY <1>2, <1>3, <2>2, <2>3, <2>4
  <2>7. e # 1 => r[e - 1] = text[i - 1]
    BY <1>1, <2>3, <2>11
  <2>8. e = 1 /\ c # Space => i = 1 \/ text[i - 1] = Space
    <3>1. SUFFICES ASSUME e = 1, c # Space PROVE p = 1 \/ text[p - 1] = Space
      BY <2>11
    <3>2. i = p
      BY <2>11, <3>1
    <3>4. text[p] # Space
      BY <2>10, <3>1, <3>2
    <3>3. ~(p > n)
      BY <1>1, <2>3, <3>2
    <3> QED
      BY <3>3, <3>4 DEF Boundary, n
  <2>12. text[i] = c
    BY <2>10
  <2> HIDE DEF a, c
  <2>9. W[i] = before \o R[e]
    <3>1. CASE c = Space
      <4>1. W[i] = before \o a
        BY <2>6, <2>12, <3>1, NextWordsIs
      <4>2. R[e] = a
        BY <2>6, <3>1, NextWordsIs DEF c
      <4> QED
        BY <4>1, <4>2
    <3>2. CASE c # Space /\ (e = 1 \/ r[e - 1] = Space)
      <4>1. R[e] = Append(a, <<c>>)
        BY <2>6, <3>2, NextWordsIs, Zenon DEF c
      <4>3. i = 1 \/ text[i - 1] = Space
        BY <2>7, <2>8, <3>2
      <4>4. W[i] = Append(before \o a, <<c>>)
        BY <2>6, <2>12, <3>2, <4>3, NextWordsIs, Zenon
      <4>2. Append(before \o a, <<c>>) = before \o Append(a, <<c>>)
        <5> DEFINE U == Seq(C)
                   w == <<c>>
        <5>1. before \in Seq(U) /\ a \in Seq(U) /\ w \in U
          BY <1>5, <2>5 DEF V
        <5> HIDE DEF U, w
        <5>2. Append(before \o a, w) = before \o Append(a, w)
          <6>1. before \o a \in Seq(U) /\ <<w>> \in Seq(U)
            BY <5>1, ConcatProperties
          <6>2. Append(before \o a, w) = (before \o a) \o <<w>>
            BY <5>1, <6>1, AppendIsConcat
          <6>3. Append(a, w) = a \o <<w>>
            BY <5>1, <6>1, AppendIsConcat
          <6> QED
            BY <5>1, <6>1, <6>2, <6>3, ConcatAssociative, SMTT(40)
        <5> QED
          BY <5>2 DEF w
      <4> QED
        BY <4>1, <4>2, <4>4
    <3>3. CASE c # Space /\ ~(e = 1 \/ r[e - 1] = Space)
      <4>1. R[e] = LongerLast(a, c)
        BY <2>6, <3>3, NextWordsIs, Zenon DEF c
      <4>4. ~(i = 1 \/ text[i - 1] = Space)
        BY <2>7, <2>11, <3>3
      <4>5. W[i] = LongerLast(before \o a, c)
        BY <2>6, <2>12, <3>3, <4>4, NextWordsIs, Zenon
      <4>2. a # <<>>
        BY <1>4, <2>11, <3>3 DEF a
      <4>3. LongerLast(before \o a, c) = before \o LongerLast(a, c)
        <5>1. before \in Seq(Seq(C)) /\ a \in Seq(Seq(C)) /\ c \in C
          BY <1>5, <2>5 DEF V
        <5> QED
          BY <4>2, <5>1, LongerBehindOthers
      <4> QED
        BY <4>1, <4>3, <4>5
    <3> QED
      BY <3>1, <3>2, <3>3
  <2> QED
    BY <2>2, <2>3, <2>9
<1>8. \A d \in Nat : d \in T
  <2> HIDE DEF T
  <2> QED
    BY <1>6, <1>7, Counting
<1>9. m <= m /\ m \in T
  BY <1>1, <1>8
<1> QED
  <2>1. W[n] = before \o R[m]
    BY <1>1, <1>9
  <2> QED
    BY <1>1, <2>1 DEF Words, W, R, n, m, before, o

(***************************************************************************)
(* The parser                                                              *)
(***************************************************************************)
Characters == Letters \cup {Space}

\* The places each of the two readers goes through, and the types of what it
\* keeps.
Reading ==
    /\ caller \in {"tokens", "pair"}
    /\ caller = "tokens" => pc \in {"skip", "copy", "done", "usage"}
    /\ caller = "pair" => pc \in {"first", "second", "done"}
    /\ line \in Seq(Characters)
    /\ out \in Seq(Characters) /\ (pc # "copy" => out = <<>>)
    /\ args \in Seq(Seq(Characters)) /\ stored \in Seq(Seq(Characters))

TInv == TypeOK /\ Reading /\ NothingLost

\* The least number of a set.
LEMMA LeastNumber ==
    ASSUME NEW S \in SUBSET Nat, S # {}
    PROVE  Min(S) \in S /\ \A x \in S : Min(S) <= x
<1> DEFINE R == {ss \in Nat \X Nat : ss[1] < ss[2]}
<1>1. IsWellFoundedOn(R, Nat)
  BY NatLessThanWellFounded DEF OpToRel
<1>2. \A x, y \in Nat : y < x => <<y, x>> \in R
  OBVIOUS
<1> HIDE DEF R
<1>3. PICK n \in S : \A m \in S : ~(<<m, n>> \in R)
  BY <1>1, WFMin
<1>4. ASSUME NEW m \in S PROVE n <= m
  <2>1. m \in Nat /\ n \in Nat /\ ~(m < n)
    BY <1>2, <1>3
  <2> QED
    BY <2>1
<1>5. \E x \in S : \A y \in S : x <= y
  BY <1>4
<1> QED
  BY <1>5, Zenon DEF Min

\* The next place from p on of one kind (Q), or the end of the line.
LEMMA NextPlace ==
    ASSUME NEW n \in Nat, NEW p \in 1..(n + 1), NEW Q, NEW e,
           e = Min({q \in p..(n + 1) : q > n \/ q \in Q})
    PROVE  /\ e \in p..(n + 1) /\ (e > n \/ e \in Q)
           /\ \A q \in p..(e - 1) : q \in 1..n /\ q \notin Q
<1> DEFINE S == {q \in p..(n + 1) : q > n \/ q \in Q}
<1>1. S \in SUBSET Nat /\ n + 1 \in S
  OBVIOUS
<1>2. e \in S /\ \A q \in S : e <= q
  <2>1. e = Min(S)
    OBVIOUS
  <2> HIDE DEF S
  <2>2. S # {}
    BY <1>1
  <2>3. Min(S) \in S /\ \A q \in S : Min(S) <= q
    BY <1>1, <2>2, LeastNumber
  <2> QED
    BY <2>1, <2>3
<1>3. e \in p..(n + 1) /\ (e > n \/ e \in Q)
  BY <1>2
<1>4. ASSUME NEW q \in p..(e - 1) PROVE q \in 1..n /\ q \notin Q
  <2>1. q \in p..(n + 1) /\ q < e /\ q \in 1..n
    BY <1>3
  <2>2. q \notin S
    BY <1>2, <1>3, <2>1
  <2> QED
    BY <2>1, <2>2
<1> QED
  BY <1>3, <1>4

\* Where the word at p ends, and where the next one begins.
LEMMA Ends ==
    ASSUME line \in Seq(Characters), NEW p \in 1..(Len(line) + 1)
    PROVE  /\ WordEnd(p) \in p..(Len(line) + 1)
           /\ WordEnd(p) > Len(line) \/ line[WordEnd(p)] = Space
           /\ \A q \in p..(WordEnd(p) - 1) : q \in 1..Len(line) /\ line[q] # Space
<1> DEFINE Q == {q \in Nat : line[q] = Space}
<1>1. Len(line) \in Nat /\ \A q \in p..(Len(line) + 1) : q \in Nat
  OBVIOUS
<1>2. {q \in p..(Len(line) + 1) : q > Len(line) \/ line[q] = Space}
         = {q \in p..(Len(line) + 1) : q > Len(line) \/ q \in Q}
  BY <1>1
<1>3. WordEnd(p) = Min({q \in p..(Len(line) + 1) : q > Len(line) \/ q \in Q})
  BY <1>2, Zenon DEF WordEnd
<1>4. /\ WordEnd(p) \in p..(Len(line) + 1) /\ (WordEnd(p) > Len(line) \/ WordEnd(p) \in Q)
      /\ \A q \in p..(WordEnd(p) - 1) : q \in 1..Len(line) /\ q \notin Q
  <2> HIDE DEF Q
  <2> QED
    BY <1>1, <1>3, NextPlace
<1> QED
  BY <1>1, <1>4

LEMMA Begins ==
    ASSUME line \in Seq(Characters), NEW p \in 1..(Len(line) + 1), NEW e,
           e = Min({q \in p..(Len(line) + 1) : q > Len(line) \/ line[q] # Space})
    PROVE  /\ e \in p..(Len(line) + 1)
           /\ e > Len(line) \/ line[e] # Space
           /\ \A q \in p..(e - 1) : q \in 1..Len(line) /\ line[q] = Space
<1> DEFINE Q == {q \in Nat : line[q] # Space}
<1>1. Len(line) \in Nat /\ \A q \in p..(Len(line) + 1) : q \in Nat
  OBVIOUS
<1>2. {q \in p..(Len(line) + 1) : q > Len(line) \/ line[q] # Space}
         = {q \in p..(Len(line) + 1) : q > Len(line) \/ q \in Q}
  BY <1>1
<1>3. e = Min({q \in p..(Len(line) + 1) : q > Len(line) \/ q \in Q})
  BY <1>2, Zenon
<1>4. /\ e \in p..(Len(line) + 1) /\ (e > Len(line) \/ e \in Q)
      /\ \A q \in p..(e - 1) : q \in 1..Len(line) /\ q \notin Q
  <2> HIDE DEF Q
  <2> QED
    BY <1>1, <1>3, NextPlace
<1> QED
  BY <1>1, <1>4

\* A word of the line is a text.
LEMMA WordIsText ==
    ASSUME line \in Seq(Characters), NEW p \in 1..(Len(line) + 1)
    PROVE  WordAt(p) \in Seq(Characters)
<1>1. WordEnd(p) \in p..(Len(line) + 1)
  BY Ends
<1>2. /\ p \in Int /\ WordEnd(p) - 1 \in Int
      /\ \A i \in p..(WordEnd(p) - 1) : line[i] \in Characters
  BY <1>1
<1> HIDE DEF Characters
<1> QED
  BY <1>2, SubSeqProperties DEF WordAt

\* copy_string's text fits its field.
LEMMA CopyFits ==
    ASSUME NEW text \in Seq(Characters)
    PROVE  CopyString(text) \in Seq(Characters) /\ Len(CopyString(text)) < FieldSize
<1> DEFINE C == Characters
           n == IF Len(text) < FieldSize - 1 THEN Len(text) ELSE FieldSize - 1
<1>1. n \in Nat /\ n <= Len(text) /\ n < FieldSize /\ text \in Seq(C)
  BY TokensAssumption
<1>2. CopyString(text) = SubSeq(text, 1, n)
  BY Zenon DEF CopyString
<1> HIDE DEF n, C
<1>3. \A i \in 1..n : text[i] \in C
  BY <1>1
<1>4. SubSeq(text, 1, n) \in Seq(C) /\ Len(SubSeq(text, 1, n)) = n
  BY <1>1, <1>3
<1> QED
  BY <1>1, <1>2, <1>4 DEF C

\* One text more behind texts that fit.
LEMMA StoredFit ==
    ASSUME stored \in Seq(Seq(Characters)), \A k \in DOMAIN stored : Len(stored[k]) < FieldSize,
           NEW text \in Seq(Characters)
    PROVE  LET more == Append(stored, CopyString(text))
           IN  more \in Seq(Seq(Characters)) /\ \A k \in DOMAIN more : Len(more[k]) < FieldSize
<1> DEFINE V == Seq(Characters)
           copy == CopyString(text)
<1>1. copy \in V /\ Len(copy) < FieldSize /\ stored \in Seq(V)
  BY CopyFits
<1> HIDE DEF V, copy
<1>2. /\ Append(stored, copy) \in Seq(V) /\ DOMAIN stored = 1..Len(stored)
      /\ DOMAIN Append(stored, copy) = 1..(Len(stored) + 1)
      /\ Append(stored, copy)[Len(stored) + 1] = copy
      /\ \A k \in 1..Len(stored) : Append(stored, copy)[k] = stored[k]
  BY <1>1, AppendProperties
<1>3. \A k \in 1..(Len(stored) + 1) : k # Len(stored) + 1 => k \in 1..Len(stored)
  BY <1>1
<1> QED
  BY <1>1, <1>2, <1>3 DEF V, copy

LEMMA ArgsGrow ==
    ASSUME NEW seqs \in Seq(Seq(Characters)), NEW text \in Seq(Characters)
    PROVE  Append(seqs, text) \in Seq(Seq(Characters))
<1> DEFINE V == Seq(Characters)
<1>1. seqs \in Seq(V) /\ text \in V
  OBVIOUS
<1> HIDE DEF V
<1>2. Append(seqs, text) \in Seq(V)
  BY <1>1
<1> QED
  BY <1>2 DEF V

LEMMA TInit ==
    Init => TInv
<1> SUFFICES ASSUME Init PROVE TInv
  OBVIOUS
<1> USE DEF Init
<1>1. line \in Seq(Characters) /\ Len(line) \in Nat
  BY DEF Lines, Characters
<1>2. TypeOK
  BY <1>1, TokensAssumption DEF TypeOK, Places
<1>3. Reading
  BY <1>1, TokensAssumption DEF Reading
<1>4. LettersIn(line)[0] = <<>>
  BY <1>1, LettersFacts
<1>5. FlattenSeq(<<>>) = <<>>
  <2>1. <<>> \in Seq(Seq(Characters)) /\ <<>> \in Seq(Characters)
    BY EmptySeq
  <2> QED
    BY <2>1, FlattenAppends
<1>6. NothingLost
  BY <1>4, <1>5 DEF NothingLost
<1> QED
  BY <1>2, <1>3, <1>6 DEF TInv

\* What the proofs of the steps know of the state before.
LEMMA StateFacts ==
    ASSUME TInv
    PROVE  /\ Len(line) \in Nat /\ at \in 1..(Len(line) + 1) /\ at - 1 \in 0..Len(line)
           /\ Len(out) \in Nat /\ Len(out) < OutSize /\ OutSize \in Nat
           /\ ~AtEnd => at \in 1..Len(line) /\ at + 1 \in 1..(Len(line) + 1)
                        /\ line[at] \in Characters /\ (at + 1) - 1 = at
BY TokensAssumption DEF TInv, TypeOK, Reading, AtEnd

LEMMA TSkip ==
    ASSUME TInv, SkipSpace
    PROVE  TInv'
<1> USE DEF SkipSpace
<1>1. ~AtEnd /\ line[at] = Space
  BY DEF AtSpace
<1>2. TypeOK'
  BY <1>1, StateFacts DEF TInv, TypeOK
<1>3. Reading'
  BY DEF TInv, Reading
<1>4. LettersIn(line)[at] = LettersIn(line)[at - 1]
  <2>1. line \in Seq(Characters) /\ at \in 1..Len(line)
    BY <1>1, StateFacts DEF TInv, Reading
  <2>2. LettersIn(line)[at] = NextLetters(line, at, LettersIn(line)[at - 1])
    BY <2>1, LettersFacts
  <2> QED
    BY <1>1, <2>2 DEF NextLetters
<1>5. NothingLost'
  <2>1. at' - 1 = at
    BY <1>1, StateFacts
  <2> QED
    BY <1>4, <2>1 DEF TInv, NothingLost
<1> QED
  BY <1>2, <1>3, <1>5 DEF TInv

LEMMA TCopy ==
    ASSUME TInv, CopyChar
    PROVE  TInv'
<1> USE DEF CopyChar
<1> DEFINE c == line[at]
           F == FlattenSeq(args)
           C == Characters
<1>1. /\ ~AtEnd /\ c # Space /\ c \in C /\ out \in Seq(C) /\ line \in Seq(C)
      /\ args \in Seq(Seq(C)) /\ at \in 1..Len(line)
  BY StateFacts DEF AtLetter, TInv, Reading
<1>2. Append(out, c) \in Seq(C) /\ Len(Append(out, c)) = Len(out) + 1
  BY <1>1
<1>3. TypeOK'
  BY <1>1, <1>2, StateFacts DEF TInv, TypeOK
<1>4. Reading'
  BY <1>2 DEF TInv, Reading
<1>5. LettersIn(line)[at] = Append(LettersIn(line)[at - 1], c)
  <2>1. LettersIn(line)[at] = NextLetters(line, at, LettersIn(line)[at - 1])
    BY <1>1, LettersFacts
  <2> QED
    BY <1>1, <2>1 DEF NextLetters
<1>6. F \in Seq(C)
  BY <1>1, FlattenAppends
<1>7. F \o Append(out, c) = Append(F \o out, c)
  <2>1. F \in Seq(C) /\ out \in Seq(C) /\ c \in C
    BY <1>1, <1>6
  <2> HIDE DEF F, c, C, CopyChar
  <2>2. <<c>> \in Seq(C) /\ F \o out \in Seq(C)
    BY <2>1, ConcatProperties
  <2>3. Append(F \o out, c) = (F \o out) \o <<c>> /\ Append(out, c) = out \o <<c>>
    BY <2>1, <2>2, AppendIsConcat
  <2> QED
    BY <2>1, <2>2, <2>3, ConcatAssociative
<1>8. NothingLost'
  <2>1. at' - 1 = at
    BY <1>1, StateFacts
  <2> QED
    BY <1>5, <1>7, <2>1 DEF TInv, NothingLost
<1> QED
  BY <1>3, <1>4, <1>8 DEF TInv

LEMMA TEnd ==
    ASSUME TInv, EndToken
    PROVE  TInv'
<1> USE DEF EndToken
<1> DEFINE C == Characters
           F == FlattenSeq(args)
<1>1. out \in Seq(C) /\ args \in Seq(Seq(C)) /\ stored \in Seq(Seq(C))
  BY DEF TInv, Reading
<1>2. /\ Append(stored, CopyString(out)) \in Seq(Seq(C))
      /\ \A k \in DOMAIN Append(stored, CopyString(out)) :
            Len(Append(stored, CopyString(out))[k]) < FieldSize
  BY <1>1, StoredFit DEF TInv, TypeOK
<1>3. Append(args, out) \in Seq(Seq(C))
  BY <1>1, ArgsGrow
<1>4. TypeOK'
  BY <1>2, StateFacts DEF TInv, TypeOK, Places
<1>5. Reading'
  BY <1>2, <1>3 DEF TInv, Reading
<1>6. FlattenSeq(Append(args, out)) = F \o out /\ F \in Seq(C)
  BY <1>1, FlattenAppends
<1>7. (F \o out) \o <<>> = F \o out
  <2> HIDE DEF F, C
  <2> QED
    BY <1>1, <1>6, ConcatProperties, ConcatEmptySeq
<1>8. NothingLost'
  BY <1>6, <1>7 DEF TInv, NothingLost
<1> QED
  BY <1>4, <1>5, <1>8 DEF TInv

LEMMA TFirst ==
    ASSUME TInv, ScanFirst
    PROVE  TInv'
<1> USE DEF ScanFirst
<1>1. line \in Seq(Characters) /\ caller = "pair" /\ at \in 1..(Len(line) + 1)
  BY StateFacts DEF TInv, Reading
<1>2. WordAt(at) \in Seq(Characters) /\ WordEnd(at) \in at..(Len(line) + 1)
  BY <1>1, Ends, WordIsText
<1>3. WordEnd(at) \in 1..(Len(line) + 1)
  BY <1>1, <1>2
<1>4. at' \in WordEnd(at)..(Len(line) + 1)
  BY <1>1, <1>3, Begins
<1>5. at' \in 1..(Len(line) + 1)
  BY <1>1, <1>3, <1>4
<1>6. TypeOK'
  BY <1>5 DEF TInv, TypeOK, Places
<1>7. <<WordAt(at)>> \in Seq(Seq(Characters))
  BY <1>2
<1>8. Reading'
  BY <1>1, <1>7 DEF TInv, Reading
<1> QED
  BY <1>1, <1>6, <1>8 DEF TInv, NothingLost

LEMMA TSecond ==
    ASSUME TInv, ScanSecond
    PROVE  TInv'
<1> USE DEF ScanSecond
<1>1. line \in Seq(Characters) /\ caller = "pair" /\ at \in 1..(Len(line) + 1)
  BY StateFacts DEF TInv, Reading
<1>2. WordAt(at) \in Seq(Characters)
  BY <1>1, WordIsText
<1>3. Append(args, WordAt(at)) \in Seq(Seq(Characters))
  BY <1>2, ArgsGrow DEF TInv, Reading
<1>4. Reading' /\ TypeOK'
  BY <1>1, <1>3 DEF TInv, Reading, TypeOK, Places
<1> QED
  BY <1>1, <1>4 DEF TInv, NothingLost

LEMMA TStep ==
    ASSUME TInv, [Next]_vars
    PROVE  TInv'
<1>1. CASE SkipSpace
  BY <1>1, TSkip
<1>2. CASE NoToken \/ StartToken \/ TakeRest
  BY <1>2 DEF NoToken, StartToken, TakeRest, TInv, TypeOK, Places, Reading, NothingLost
<1>3. CASE CopyChar
  BY <1>3, TCopy
<1>4. CASE EndToken
  BY <1>4, TEnd
<1>5. CASE ScanFirst
  BY <1>5, TFirst
<1>6. CASE ScanSecond
  BY <1>6, TSecond
<1>7. CASE UNCHANGED vars
  BY <1>7 DEF vars, TInv, TypeOK, Places, Reading, NothingLost
<1> QED
  BY <1>1, <1>2, <1>3, <1>4, <1>5, <1>6, <1>7 DEF Next, Done

LEMMA TAlways ==
    Spec => []TInv
<1> QED
  BY TInit, TStep, PTL DEF Spec

(***************************************************************************)
(* The arguments are words                                                 *)
(***************************************************************************)
W == WordsIn(line)
Fits == \A k \in DOMAIN Words(line) : Len(Words(line)[k]) < OutSize

\* With words that fit, the arguments read are the words before the cursor, and
\* the cursor is not inside a word; a token in hand begins one and is what of it
\* lies before the cursor.
Begun == at = 1 \/ line[at - 1] = Space
InHand ==
    IF out = <<>> THEN args = W[at - 1] /\ AtLetter /\ Begun
    ELSE W[at - 1] = Append(args, out) /\ ~Begun

TakesWords ==
    caller = "tokens" /\ Fits =>
        /\ pc = "skip" => args = W[at - 1] /\ Boundary(line, at)
        /\ pc = "copy" => Len(args) < Wanted /\ InHand
        /\ pc = "usage" => args = Words(line) /\ Len(args) < Wanted
        /\ pc = "done" => /\ args = SubSeq(Words(line), 1, Wanted)
                          /\ Words(rest) = SubSeq(Words(line), Wanted + 1, Len(Words(line)))

\* The words before a character and with it, for the cursor's line.
LEMMA WordsStep ==
    ASSUME TInv, ~AtEnd
    PROVE  /\ W[at] = NextWords(line, at, W[at - 1])
           /\ at \in 1..Len(line) /\ line \in Seq(Characters) /\ line[at] \in Characters
<1>1. at \in 1..Len(line) /\ line \in Seq(Characters) /\ line[at] \in Characters
  BY StateFacts DEF TInv, Reading
<1> QED
  BY <1>1, WordsFacts DEF W

LEMMA WInit ==
    ASSUME Init
    PROVE  TakesWords
<1>1. line \in Seq(Characters)
  BY DEF Lines, Characters, Init
<1>2. W[0] = <<>>
  BY <1>1, WordsFacts DEF W
<1>3. caller = "tokens" => pc = "skip"
  BY DEF Init
<1>4. at - 1 = 0 /\ at = 1 /\ args = <<>>
  BY DEF Init
<1> QED
  BY <1>2, <1>3, <1>4 DEF TakesWords, Boundary

LEMMA WSkip ==
    ASSUME TInv, TakesWords, SkipSpace
    PROVE  TakesWords'
<1> USE DEF SkipSpace
<1>1. ~AtEnd /\ line[at] = Space
  BY DEF AtSpace
<1>2. at' - 1 = at
  BY <1>1, StateFacts
<1>3. W[at] = W[at - 1]
  BY <1>1, WordsStep, NextWordsIs
<1>4. Boundary(line, at)' /\ W' = W /\ Fits' = Fits
  BY <1>1, <1>2 DEF Boundary, W, Fits
<1> HIDE DEF SkipSpace
<1>5. caller' = caller /\ pc = "skip" /\ pc' = "skip" /\ args' = args
  BY DEF SkipSpace
<1> QED
  BY <1>2, <1>3, <1>4, <1>5, Zenon DEF TakesWords

LEMMA WNone ==
    ASSUME TInv, TakesWords, NoToken
    PROVE  TakesWords'
<1>1. at - 1 = Len(line)
  BY StateFacts DEF NoToken, AtEnd
<1>2. W[at - 1] = Words(line)
  BY <1>1 DEF W, Words
<1>3. W' = W /\ Fits' = Fits /\ Words(line)' = Words(line)
  BY DEF NoToken, W, Fits
<1>4. /\ caller' = caller /\ pc = "skip" /\ pc' = "usage" /\ args' = args
      /\ Len(args) < Wanted
  BY DEF NoToken
<1> QED
  BY <1>2, <1>3, <1>4 DEF TakesWords

LEMMA WStart ==
    ASSUME TInv, TakesWords, StartToken
    PROVE  TakesWords'
<1>1. out = <<>> /\ AtLetter /\ Len(args) < Wanted /\ pc = "skip" /\ pc' = "copy"
  BY DEF StartToken, TInv, Reading
<1>2. Boundary(line, at) => Begun
  BY <1>1, StateFacts DEF Boundary, Begun, AtLetter, AtEnd
<1>3. /\ W' = W /\ Fits' = Fits /\ AtLetter' = AtLetter /\ Begun' = Begun
      /\ args' = args /\ at' = at /\ out' = out /\ caller' = caller
  BY DEF StartToken, W, Fits, AtLetter, AtEnd, Begun
<1> QED
  BY <1>1, <1>2, <1>3 DEF TakesWords, InHand

LEMMA WCopy ==
    ASSUME TInv, TakesWords, CopyChar
    PROVE  TakesWords'
<1> DEFINE c == line[at]
           C == Characters
<1>1. /\ ~AtEnd /\ c # Space /\ pc = "copy" /\ pc' = "copy" /\ args' = args
      /\ out' = Append(out, c) /\ at' = at + 1 /\ line' = line /\ caller' = caller
  BY DEF CopyChar, AtLetter
<1>2. at' - 1 = at /\ at' # 1 /\ W' = W /\ Fits' = Fits
  BY <1>1, StateFacts DEF W, Fits
<1>3. ~Begun' /\ out' # <<>>
  <2>1. out \in Seq(C) /\ c \in C
    BY <1>1, WordsStep DEF TInv, Reading
  <2>2. Append(out, c) # <<>>
    BY <2>1
  <2> QED
    BY <1>1, <1>2, <2>2 DEF Begun
<1>4. ASSUME caller = "tokens", Fits PROVE Len(args') < Wanted /\ InHand'
  <2>1. Len(args) < Wanted /\ InHand
    BY <1>1, <1>4 DEF TakesWords
  <2>2. CASE out = <<>>
    <3>1. args = W[at - 1] /\ Begun
      BY <2>1, <2>2 DEF InHand
    <3>2. W[at] = Append(args, <<c>>)
      BY <1>1, <3>1, WordsStep, NextWordsIs DEF Begun
    <3>3. Append(out, c) = <<c>>
      BY <2>2
    <3> QED
      BY <1>1, <1>2, <1>3, <2>1, <3>2, <3>3 DEF InHand
  <2>3. CASE out # <<>>
    <3>1. W[at - 1] = Append(args, out) /\ ~Begun
      BY <2>1, <2>3 DEF InHand
    <3>2. W[at] = LongerLast(Append(args, out), c)
      BY <1>1, <3>1, WordsStep, NextWordsIs DEF Begun
    <3>3. args \in Seq(Seq(C)) /\ out \in Seq(C) /\ c \in C
      BY <1>1, WordsStep DEF TInv, Reading
    <3>4. LongerLast(Append(args, out), c) = Append(args, Append(out, c))
      <4> HIDE DEF c, C
      <4> QED
        BY <3>3, LongerIsAppend
    <3> QED
      BY <1>1, <1>2, <1>3, <2>1, <3>2, <3>4 DEF InHand
  <2> QED
    BY <2>2, <2>3
<1> QED
  BY <1>1, <1>2, <1>4 DEF TakesWords

\* A text's words are texts.
LEMMA WordsAreTexts ==
    ASSUME NEW C, NEW text \in Seq(C)
    PROVE  Words(text) \in Seq(Seq(C))
<1>1. Len(text) \in 0..Len(text)
  OBVIOUS
<1> QED
  BY <1>1, WordsFacts DEF Words

\* The two parts of a concatenation.
LEMMA Parts ==
    ASSUME NEW V, NEW a \in Seq(V), NEW b \in Seq(V), NEW n, n = Len(a)
    PROVE  /\ SubSeq(a \o b, 1, n) = a
           /\ SubSeq(a \o b, n + 1, Len(a \o b)) = b
<1> DEFINE m == Len(b)
           both == a \o b
<1>1. n \in Nat /\ m \in Nat
  OBVIOUS
<1>2. /\ both \in Seq(V) /\ Len(both) = n + m
      /\ \A i \in 1..n : both[i] = a[i]
      /\ \A i \in 1..m : both[n + i] = b[i]
  BY ConcatProperties
<1> HIDE DEF both
<1>3. \A i \in 1..n : both[i] = a[i] /\ both[i] \in V
  BY <1>2
<1>4. \A i \in 1..m : both[n + i] = b[i] /\ both[n + i] \in V
  BY <1>2, ConcatProperties DEF both
<1>5. /\ SubSeq(both, 1, n) \in Seq(V) /\ Len(SubSeq(both, 1, n)) = n
      /\ \A i \in 1..n : SubSeq(both, 1, n)[i] = both[i]
  BY <1>1, <1>2, <1>3
<1>6. SubSeq(both, 1, n) = a
  BY <1>3, <1>5, SeqEqual
<1> DEFINE back == SubSeq(both, n + 1, n + m)
<1>7. back \in Seq(V) /\ Len(back) = m /\ \A i \in 1..m : back[i] = both[n + i]
  BY <1>1, <1>2, <1>4
<1> HIDE DEF back
<1>8. back = b
  BY <1>4, <1>7, SeqEqual
<1> QED
  BY <1>2, <1>6, <1>8 DEF both, back

LEMMA WEnd ==
    ASSUME TInv, TakesWords, EndToken
    PROVE  TakesWords'
<1> DEFINE c == line[at]
           C == Characters
           n == Len(args) + 1
<1>1. /\ pc = "copy" /\ pc' = "skip" /\ args' = Append(args, out)
      /\ at' = at /\ line' = line /\ caller' = caller
      /\ ~AtLetter \/ Len(out) >= OutSize - 1
  BY DEF EndToken
<1>2. W' = W /\ Fits' = Fits /\ Boundary(line, at)' = Boundary(line, at)
  BY <1>1 DEF W, Fits, Boundary
<1>3. ASSUME caller = "tokens", Fits PROVE args' = W[at - 1] /\ Boundary(line, at)
  <2>1. Len(args) < Wanted /\ InHand
    BY <1>1, <1>3 DEF TakesWords
  <2>2. out # <<>>
    BY <1>1, <2>1, TokensAssumption DEF InHand
  <2>3. W[at - 1] = Append(args, out) /\ ~Begun
    BY <2>1, <2>2 DEF InHand
  <2>4. ASSUME AtLetter PROVE FALSE
    <3>1. ~AtEnd /\ c # Space /\ at # 1 /\ line[at - 1] # Space
      BY <2>3, <2>4 DEF AtLetter, Begun
    <3>2. args \in Seq(Seq(C)) /\ out \in Seq(C) /\ c \in C
      BY <3>1, WordsStep DEF TInv, Reading
    <3>3. W[at] = LongerLast(Append(args, out), c)
      BY <2>3, <3>1, WordsStep, NextWordsIs
    <3>4. LongerLast(Append(args, out), c) = Append(args, Append(out, c))
      <4> HIDE DEF c, C
      <4> QED
        BY <3>2, LongerIsAppend
    <3>5. n \in Nat /\ Len(W[at]) = n /\ W[at][n] = Append(out, c)
      <4>1. Append(out, c) \in Seq(C)
        BY <3>2
      <4> DEFINE V == Seq(C)
                 word == Append(out, c)
      <4>2. args \in Seq(V) /\ word \in V /\ W[at] = Append(args, word)
        BY <3>2, <3>3, <3>4, <4>1
      <4> HIDE DEF V, word
      <4>3. /\ n \in Nat /\ Len(Append(args, word)) = n /\ Append(args, word)[n] = word
        BY <4>2
      <4> QED
        BY <4>2, <4>3 DEF word
    <3>6. Len(Append(out, c)) >= OutSize
      BY <1>1, <2>4, <3>2, TokensAssumption
    <3>7. at \in 0..Len(line) /\ line \in Seq(C)
      BY <3>1, WordsStep
    <3>8. /\ n <= Len(Words(line)) /\ Len(W[at][n]) <= Len(Words(line)[n])
      <4>1. n \in 1..Len(W[at])
        BY <3>2, <3>5
      <4> HIDE DEF n
      <4> QED
        BY <3>5, <3>7, <4>1, WordsGrow DEF W, Words
    <3>9. Words(line) \in Seq(Seq(C))
      BY <3>7, WordsAreTexts
    <3>10. n \in 1..Len(Words(line)) /\ DOMAIN Words(line) = 1..Len(Words(line))
      BY <3>2, <3>5, <3>8, <3>9
    <3>11. Words(line)[n] \in Seq(C)
      BY <3>9, <3>10
    <3>12. Len(Words(line)[n]) \in Nat /\ Len(Append(out, c)) \in Nat
      BY <3>2, <3>11
    <3>13. Len(Words(line)[n]) < OutSize
      BY <1>3, <3>10 DEF Fits
    <3> HIDE DEF n, c
    <3> QED
      BY <3>5, <3>6, <3>8, <3>12, <3>13, TokensAssumption
  <2>5. Boundary(line, at)
    BY <2>4 DEF AtLetter, AtEnd, Boundary
  <2> QED
    BY <1>1, <2>3, <2>5
<1> QED
  BY <1>1, <1>2, <1>3 DEF TakesWords

LEMMA WRest ==
    ASSUME TInv, TakesWords, TakeRest
    PROVE  TakesWords'
<1> DEFINE C == Characters
           r == SubSeq(line, at, Len(line))
           words == Words(line)
<1>1. /\ pc = "skip" /\ pc' = "done" /\ args' = args /\ rest' = r
      /\ at' = at /\ line' = line /\ caller' = caller /\ Len(args) = Wanted
  BY DEF TakeRest
<1>2. words' = words /\ Fits' = Fits
  BY <1>1 DEF Fits
<1>3. ASSUME caller = "tokens", Fits
      PROVE  args = SubSeq(words, 1, Wanted) /\ Words(r) = SubSeq(words, Wanted + 1, Len(words))
  <2>1. args = W[at - 1] /\ Boundary(line, at)
    BY <1>1, <1>3 DEF TakesWords
  <2>2. /\ line \in Seq(C) /\ at \in 1..(Len(line) + 1) /\ args \in Seq(Seq(C))
    BY DEF TInv, TypeOK, Reading
  <2>3. r \in Seq(C) /\ words = WordsIn(line)[at - 1] \o Words(r)
    <3>1. \A t : t = SubSeq(line, at, Len(line))
                  => t \in Seq(C) /\ Words(line) = WordsIn(line)[at - 1] \o Words(t)
      <4> HIDE DEF C
      <4> QED
        BY <2>1, <2>2, WordsOfParts, ZenonT(60)
    <3> QED
      BY <3>1, Zenon
  <2>4. Words(r) \in Seq(Seq(C))
    BY <2>3, WordsAreTexts
  <2>5. words = args \o Words(r)
    BY <2>1, <2>3 DEF W
  <2> DEFINE V == Seq(C)
             behind == Words(r)
  <2>6. args \in Seq(V) /\ behind \in Seq(V) /\ words = args \o behind
    BY <2>2, <2>4, <2>5
  <2> HIDE DEF V, behind, words
  <2> QED
    BY <1>1, <2>6, Parts, SMTT(40) DEF behind
<1> QED
  BY <1>1, <1>2, <1>3 DEF TakesWords

LEMMA WStep ==
    ASSUME TInv, TakesWords, [Next]_vars
    PROVE  TakesWords'
<1>1. CASE SkipSpace
  BY <1>1, WSkip
<1>2. CASE NoToken
  BY <1>2, WNone
<1>3. CASE StartToken
  BY <1>3, WStart
<1>4. CASE CopyChar
  BY <1>4, WCopy
<1>5. CASE EndToken
  BY <1>5, WEnd
<1>6. CASE TakeRest
  BY <1>6, WRest
<1>7. CASE ScanFirst \/ ScanSecond
  BY <1>7 DEF ScanFirst, ScanSecond, TInv, Reading, TakesWords
<1>8. CASE UNCHANGED vars
  BY <1>8 DEF vars, TakesWords, W, Fits, Boundary, InHand, Begun, AtLetter, AtEnd
<1> QED
  BY <1>1, <1>2, <1>3, <1>4, <1>5, <1>6, <1>7, <1>8 DEF Next, Done

LEMMA WAlways ==
    Spec => [](TInv /\ TakesWords)
<1>1. Init => TInv /\ TakesWords
  BY TInit, WInit
<1>2. (TInv /\ TakesWords) /\ [Next]_vars => (TInv /\ TakesWords)'
  BY TStep, WStep
<1> QED
  BY <1>1, <1>2, PTL DEF Spec

(***************************************************************************)
(* The two numbers are words                                               *)
(***************************************************************************)

\* After the first step the scan has read the first word, or an empty one before
\* it, and stands at the next one or at the end.
TakesPair ==
    caller = "pair" =>
        /\ pc = "first" => at = 1
        /\ pc = "second" => /\ args = Ahead \o W[at - 1] /\ Len(args) = 1
                            /\ AtEnd \/ (line[at] # Space /\ Begun)
        /\ pc = "done" => args = TwoWords

LEMMA FirstIsLetter ==
    ASSUME line \in Seq(Characters), StartsWithWord
    PROVE  1 \in 1..Len(line) /\ line[1] # Space
<1>1. Len(line) \in Nat /\ Space \in Characters
  BY DEF Characters
<1>2. Append(line, Space)[1] # Space
  BY <1>1 DEF StartsWithWord
<1> DEFINE n == Len(line)
           more == Append(line, Space)
<1>3. more[n + 1] = Space /\ \A i \in 1..n : more[i] = line[i]
  BY <1>1, AppendProperties
<1>4. n # 0
  BY <1>1, <1>2, <1>3
<1> QED
  BY <1>1, <1>2, <1>3, <1>4

\* The word that begins at p, behind those before it.
LEMMA WordBehind ==
    ASSUME line \in Seq(Characters), NEW p \in 1..Len(line), line[p] # Space,
           p = 1 \/ line[p - 1] = Space, NEW e, e = WordEnd(p)
    PROVE  /\ e \in (p + 1)..(Len(line) + 1) /\ (e > Len(line) \/ line[e] = Space)
           /\ W[e - 1] = Append(W[p - 1], WordAt(p))
<1> DEFINE n == Len(line)
<1>1. n \in Nat /\ p \in 1..(n + 1)
  OBVIOUS
<1>2. /\ e \in p..(n + 1) /\ (e > n \/ line[e] = Space)
      /\ \A q \in p..(e - 1) : q \in 1..n /\ line[q] # Space
  BY <1>1, Ends
<1>3. e # p
  BY <1>1, <1>2
<1> DEFINE b == e - 1
<1>4. b \in p..n /\ WordAt(p) = SubSeq(line, p, b) /\ \A q \in p..b : line[q] # Space
  BY <1>1, <1>2, <1>3 DEF WordAt
<1> HIDE DEF b
<1>5. W[b] = Append(W[p - 1], SubSeq(line, p, b))
  BY <1>4, LetterRun DEF W
<1> QED
  BY <1>1, <1>2, <1>3, <1>4, <1>5 DEF b

\* The places before two of a line's.
LEMMA Between ==
    ASSUME NEW n \in Nat, NEW a \in 1..(n + 1), NEW b \in a..(n + 1)
    PROVE  /\ a - 1 \in 0..n /\ b - 1 \in (a - 1)..n /\ (a - 1) + 1 = a
           /\ b # a => b - 1 \in a..(b - 1)
<1>1. a \in Int /\ b \in Int /\ 1 <= a /\ a <= b /\ b <= n + 1
  OBVIOUS
<1> QED
  BY <1>1

LEMMA FirstIsSpace ==
    ASSUME line \in Seq(Characters), ~StartsWithWord, line # <<>>
    PROVE  1 \in 1..Len(line) /\ line[1] = Space
<1> DEFINE n == Len(line)
           more == Append(line, Space)
<1>1. n \in Nat /\ n # 0 /\ Space \in Characters
  BY DEF Characters
<1>2. more[1] = Space
  BY <1>1 DEF StartsWithWord
<1>3. \A i \in 1..n : more[i] = line[i]
  BY <1>1, AppendProperties
<1> QED
  BY <1>1, <1>2, <1>3

\* The first step reads the word the line begins with, or an empty one.
LEMMA FirstWord ==
    ASSUME line \in Seq(Characters), NEW e, e = WordEnd(1)
    PROVE  /\ e \in 1..(Len(line) + 1) /\ (e > Len(line) \/ line[e] = Space)
           /\ <<WordAt(1)>> = Ahead \o W[e - 1]
<1> DEFINE n == Len(line)
           word == WordAt(1)
<1>1. n \in Nat /\ 1 \in 1..(n + 1)
  OBVIOUS
<1>2. /\ e \in 1..(n + 1) /\ (e > n \/ line[e] = Space)
      /\ \A q \in 1..(e - 1) : q \in 1..n /\ line[q] # Space
  BY <1>1, Ends
<1>3. W[0] = <<>>
  BY WordsFacts DEF W
<1>4. CASE StartsWithWord
  <2>1. W[e - 1] = Append(W[1 - 1], word)
    BY <1>4, FirstIsLetter, WordBehind
  <2>2. 1 - 1 = 0
    OBVIOUS
  <2>3. W[e - 1] = Append(<<>>, word)
    BY <1>3, <2>1, <2>2, Zenon
  <2> HIDE DEF word
  <2>4. Append(<<>>, word) = <<word>> /\ <<>> \o <<word>> = <<word>>
    OBVIOUS
  <2>5. Ahead = <<>>
    BY <1>4 DEF Ahead
  <2> QED
    BY <1>2, <2>3, <2>4, <2>5, Zenon DEF word
<1>5. CASE ~StartsWithWord
  <2>1. e = 1
    <3>1. CASE line = <<>>
      BY <1>2, <3>1
    <3>2. CASE line # <<>>
      BY <1>2, <1>5, <3>2, FirstIsSpace
    <3> QED
      BY <3>1, <3>2
  <2>2. word = <<>>
    BY <2>1 DEF WordAt
  <2>3. e - 1 = 0 /\ << <<>> >> \o <<>> = << <<>> >>
    BY <2>1
  <2>4. Ahead = << <<>> >>
    BY <1>5 DEF Ahead
  <2> QED
    BY <1>2, <1>3, <2>2, <2>3, <2>4, Zenon
<1> QED
  BY <1>4, <1>5

LEMMA PFirst ==
    ASSUME TInv, TakesPair, ScanFirst
    PROVE  TakesPair'
<1> DEFINE n == Len(line)
           e == WordEnd(1)
<1>1. line \in Seq(Characters) /\ caller = "pair" /\ at = 1 /\ n \in Nat
  BY DEF TInv, Reading, TakesPair, ScanFirst
<1>2. /\ pc' = "second" /\ args' = <<WordAt(1)>> /\ line' = line /\ caller' = caller
      /\ at' = Min({q \in e..(n + 1) : q > n \/ line[q] # Space})
  BY <1>1, Zenon DEF ScanFirst
<1>3. W' = W /\ Ahead' = Ahead
  BY <1>2 DEF W, Ahead, StartsWithWord
<1>4. /\ e \in 1..(n + 1) /\ (e > n \/ line[e] = Space)
      /\ <<WordAt(1)>> = Ahead \o W[e - 1]
  BY <1>1, FirstWord
<1> HIDE DEF e
<1>5. /\ at' \in e..(n + 1) /\ (at' > n \/ line[at'] # Space)
      /\ \A q \in e..(at' - 1) : q \in 1..n /\ line[q] = Space
  BY <1>1, <1>2, <1>4, Begins
<1> DEFINE a == e - 1
           b == at' - 1
<1>6. a \in 0..n /\ b \in a..n /\ a + 1 = e
  <2>1. n \in Nat /\ e \in 1..(n + 1) /\ at' \in e..(n + 1)
    BY <1>1, <1>4, <1>5
  <2> HIDE DEF n
  <2> QED
    BY <2>1, Between
<1>7. \A q \in (a + 1)..b : line[q] = Space
  BY <1>5, <1>6, Zenon
<1> HIDE DEF a, b
<1>8. W[b] = W[a]
  BY <1>1, <1>6, <1>7, SpaceRun DEF W
<1>9. AtEnd' \/ (line[at'] # Space /\ line[at' - 1] = Space)
  <2> SUFFICES ASSUME at' <= n PROVE line[at'] # Space /\ line[at' - 1] = Space
    BY <1>1, <1>2, <1>4, <1>5 DEF AtEnd
  <2>1. at' # e /\ line[at'] # Space
    BY <1>1, <1>4, <1>5
  <2>2. at' - 1 \in e..(at' - 1)
    <3>1. n \in Nat /\ e \in 1..(n + 1) /\ at' \in e..(n + 1)
      BY <1>1, <1>4, <1>5
    <3> HIDE DEF n
    <3> QED
      BY <2>1, <3>1, Between
  <2> QED
    BY <1>5, <2>1, <2>2, Zenon
<1>10. args' = (Ahead \o W[at - 1])' /\ Len(args') = 1
  BY <1>2, <1>3, <1>4, <1>8 DEF a, b
<1>11. (AtEnd \/ (line[at] # Space /\ Begun))'
  BY <1>2, <1>9 DEF Begun
<1> QED
  BY <1>2, <1>10, <1>11 DEF TakesPair

\* A sequence that begins with two others: its first elements are theirs.
LEMMA FirstTwo ==
    ASSUME NEW V, NEW a \in Seq(V), NEW b \in Seq(V), NEW c \in Seq(V), Len(a) = 2
    PROVE  SubSeq((a \o b) \o c, 1, 2) = a
<1>1. (a \o b) \o c = a \o (b \o c) /\ b \o c \in Seq(V)
  <2>1. b \o c \in Seq(V)
    BY ConcatProperties
  <2>2. (a \o b) \o c = a \o (b \o c)
    BY ConcatAssociative
  <2> QED
    BY <2>1, <2>2
<1> DEFINE behind == b \o c
           n == 2
<1>2. behind \in Seq(V) /\ n = Len(a) /\ (a \o b) \o c = a \o behind
  BY <1>1
<1> HIDE DEF behind, n
<1>3. SubSeq(a \o behind, 1, n) = a
  BY ONLY <1>2, Parts, SMT
<1> QED
  BY <1>2, <1>3 DEF n

LEMMA PSecond ==
    ASSUME TInv, TakesPair, ScanSecond
    PROVE  TakesPair'
<1> DEFINE n == Len(line)
           C == Characters
           V == Seq(C)
           none == <<>>
           nones == <<none, none>>
           w == WordAt(at)
           words == Ahead \o Words(line)
<1>1. /\ line \in Seq(C) /\ caller = "pair" /\ at \in 1..(n + 1) /\ n \in Nat
      /\ args \in Seq(V) /\ w \in V /\ none \in V
  BY WordIsText DEF TInv, TypeOK, Reading, ScanSecond
<1>2. pc = "second" /\ pc' = "done" /\ args' = Append(args, w) /\ line' = line
  BY DEF ScanSecond
<1>3. TwoWords' = TwoWords /\ TwoWords = SubSeq(words \o nones, 1, 2)
  BY <1>2 DEF Ahead, StartsWithWord, TwoWords
<1>4. Append(args, w) = TwoWords
  <2>1. args = Ahead \o W[at - 1] /\ Len(args) = 1 /\ (AtEnd \/ (line[at] # Space /\ Begun))
    BY <1>1, <1>2 DEF TakesPair
  <2>2. Append(args, w) \in Seq(V) /\ Len(Append(args, w)) = 2 /\ nones \in Seq(V)
    <3>1. args \in Seq(V) /\ w \in V /\ none \in V /\ Len(args) = 1
      BY <1>1, <2>1
    <3> HIDE DEF V, w, none
    <3>2. Append(args, w) \in Seq(V) /\ Len(Append(args, w)) = Len(args) + 1
      BY ONLY <3>1, AppendProperties, Zenon
    <3> QED
      BY <3>1, <3>2
  <2>3. CASE AtEnd
    <3>1. at = n + 1
      BY <1>1, <2>3 DEF AtEnd
    <3>2. WordEnd(at) = n + 1
      <4>1. WordEnd(at) \in at..(n + 1)
        BY <1>1, Ends
      <4> HIDE DEF n
      <4> QED
        BY <1>1, <3>1, <4>1
    <3>3. w = <<>>
      BY <1>1, <3>1, <3>2 DEF WordAt
    <3>4. words = args
      BY <1>1, <2>1, <3>1 DEF Words, W
    <3>5. SubSeq(args \o nones, 1, 2) = Append(args, none)
      <4>1. SubSeq((Append(args, none) \o <<none>>) \o <<>>, 1, 2) = Append(args, none)
        <5>1. <<none>> \in Seq(V) /\ <<>> \in Seq(V)
          BY <1>1
        <5> DEFINE two == Append(args, none)
                   last == <<none>>
                   empty == <<>>
        <5>2. args \in Seq(V) /\ none \in V /\ last \in Seq(V) /\ empty \in Seq(V) /\ Len(args) = 1
          BY <1>1, <2>1, <5>1
        <5> HIDE DEF V, none
        <5>3. two \in Seq(V) /\ Len(two) = Len(args) + 1
          BY ONLY <5>2, AppendProperties, Zenon
        <5>4. two \in Seq(V) /\ last \in Seq(V) /\ empty \in Seq(V) /\ Len(two) = 2
          BY <5>2, <5>3
        <5> HIDE DEF two, last, empty
        <5>5. SubSeq((two \o last) \o empty, 1, 2) = two
          BY <5>4, FirstTwo
        <5> QED
          BY <5>5 DEF two, last, empty
      <4>2. (Append(args, none) \o <<none>>) \o <<>> = args \o nones
        <5> HIDE DEF V, none
        <5>1. <<none>> \in Seq(V) /\ <<none, none>> = <<none>> \o <<none>>
          BY <1>1
        <5>2. Append(args, none) = args \o <<none>> /\ Append(args, none) \in Seq(V)
          BY <1>1, AppendIsConcat, AppendProperties
        <5>3. (args \o <<none>>) \o <<none>> = args \o (<<none>> \o <<none>>)
          BY <1>1, <5>1, ConcatAssociative
        <5>4. Append(args, none) \o <<none>> \in Seq(V)
          BY <5>1, <5>2, ConcatProperties
        <5>5. (Append(args, none) \o <<none>>) \o <<>> = Append(args, none) \o <<none>>
          BY <5>4, ConcatEmptySeq
        <5> QED
          BY <5>1, <5>2, <5>3, <5>5
      <4> QED
        BY <4>1, <4>2
    <3> QED
      BY <1>3, <3>3, <3>4, <3>5
  <2>4. CASE line[at] # Space /\ Begun /\ ~AtEnd
    <3> DEFINE e == WordEnd(at)
               r == SubSeq(line, e, n)
    <3>1. /\ e \in (at + 1)..(n + 1) /\ (e > n \/ line[e] = Space)
          /\ W[e - 1] = Append(W[at - 1], w)
      <4>1. at \in 1..Len(line) /\ (at = 1 \/ line[at - 1] = Space)
        BY <1>1, <2>4 DEF AtEnd, Begun
      <4> QED
        BY <1>1, <2>4, <4>1, WordBehind
    <3>2. e \in 1..(n + 1) /\ Boundary(line, e)
      BY <1>1, <3>1 DEF Boundary
    <3>3. r \in Seq(C) /\ Words(line) = WordsIn(line)[e - 1] \o Words(r)
      <4>1. \A t : t = SubSeq(line, e, Len(line))
                    => t \in Seq(C) /\ Words(line) = WordsIn(line)[e - 1] \o Words(t)
        <5> HIDE DEF C, e
        <5> QED
          BY <1>1, <3>2, WordsOfParts, ZenonT(60)
      <4> QED
        BY <4>1, Zenon
    <3>4. Words(r) \in Seq(V)
      BY <3>3, WordsAreTexts
    <3> DEFINE behind == Words(r)
               two == Append(args, w)
    <3>5. words = two \o behind /\ behind \in Seq(V) /\ two \in Seq(V) /\ Len(two) = 2
      <4> DEFINE before == W[at - 1]
                 one == Append(before, w)
      <4>1. before \in Seq(V) /\ w \in V /\ Ahead \in Seq(V)
        <5>1. at - 1 \in 0..n
          BY <1>1
        <5>2. W \in [0..n -> Seq(V)]
          BY <1>1, WordsFacts DEF W
        <5>3. Ahead = <<>> \/ Ahead = <<none>>
          BY DEF Ahead
        <5> HIDE DEF V, none, w
        <5>4. before \in Seq(V)
          BY <5>1, <5>2
        <5>5. <<>> \in Seq(V) /\ <<none>> \in Seq(V)
          BY <1>1
        <5> QED
          BY <1>1, <5>3, <5>4, <5>5, Zenon
      <4>2. Words(line) = one \o behind /\ args = Ahead \o before
        BY <2>1, <3>1, <3>3 DEF W
      <4>3. behind \in Seq(V) /\ two \in Seq(V) /\ Len(two) = 2
        BY <2>2, <3>4
      <4> HIDE DEF V, behind, w, before
      <4>4. one = before \o <<w>> /\ <<w>> \in Seq(V) /\ one \in Seq(V)
        BY <4>1, AppendIsConcat, AppendProperties
      <4>5. Ahead \o one = (Ahead \o before) \o <<w>> /\ two = (Ahead \o before) \o <<w>>
        <5>1. Ahead \o before \in Seq(V)
          BY <4>1, ConcatProperties
        <5>2. two = (Ahead \o before) \o <<w>>
          BY <4>1, <4>2, <5>1, AppendIsConcat
        <5>3. (Ahead \o before) \o <<w>> = Ahead \o (before \o <<w>>)
          BY <4>1, <4>4, ConcatAssociative
        <5> QED
          BY <4>4, <5>2, <5>3
      <4> HIDE DEF one, two
      <4>6. (Ahead \o one) \o behind = Ahead \o (one \o behind)
        <5>1. Ahead \in Seq(V) /\ one \in Seq(V) /\ behind \in Seq(V)
          BY <4>1, <4>3, <4>4
        <5> QED
          BY ONLY <5>1, ConcatAssociative, SMT
      <4>7. Ahead \o Words(line) = two \o behind
        BY <4>2, <4>5, <4>6, Zenon
      <4> QED
        BY <4>3, <4>7, Zenon
    <3> HIDE DEF V, behind, two, words, nones
    <3>6. SubSeq((two \o behind) \o nones, 1, 2) = two
      BY <2>2, <3>5, FirstTwo
    <3> QED
      BY <1>3, <3>5, <3>6 DEF two
  <2> QED
    BY <2>1, <2>3, <2>4
<1> QED
  BY <1>1, <1>2, <1>3, <1>4 DEF TakesPair

LEMMA PStep ==
    ASSUME TInv, TakesPair, [Next]_vars
    PROVE  TakesPair'
<1>1. CASE SkipSpace \/ NoToken \/ StartToken \/ CopyChar \/ EndToken \/ TakeRest
  BY <1>1 DEF SkipSpace, NoToken, StartToken, CopyChar, EndToken, TakeRest, TInv, Reading, TakesPair
<1>2. CASE ScanFirst
  BY <1>2, PFirst
<1>3. CASE ScanSecond
  BY <1>3, PSecond
<1>4. CASE UNCHANGED vars
  BY <1>4 DEF vars, TakesPair, W, Ahead, StartsWithWord, AtEnd, Begun, TwoWords
<1> QED
  BY <1>1, <1>2, <1>3, <1>4 DEF Next, Done

LEMMA PInit ==
    Init => TakesPair
BY DEF Init, TakesPair

TokensInv == TInv /\ TakesWords /\ TakesPair

LEMMA TokensAlways ==
    Spec => []TokensInv
<1>1. Init => TokensInv
  BY TInit, WInit, PInit DEF TokensInv
<1>2. TokensInv /\ [Next]_vars => TokensInv'
  BY TStep, WStep, PStep DEF TokensInv
<1> QED
  BY <1>1, <1>2, PTL DEF Spec

LEMMA TokensInvGives ==
    TokensInv => TypeOK /\ NothingLost /\ ArgumentsAreWords /\ PairIsWords
<1>1. TokensInv => TypeOK /\ NothingLost
  BY DEF TokensInv, TInv
<1>2. TokensInv => ArgumentsAreWords
  BY DEF TokensInv, TakesWords, ArgumentsAreWords, Fits
<1>3. TokensInv => PairIsWords
  BY DEF TokensInv, TakesPair, PairIsWords
<1> QED
  BY <1>1, <1>2, <1>3

(***************************************************************************)
(* Ints                                                                    *)
(***************************************************************************)

\* Division with a rest.
LEMMA Division ==
    ASSUME NEW n \in Int, NEW m \in Nat, m > 0
    PROVE  n % m \in 0..(m - 1) /\ n \div m \in Int /\ n = m * (n \div m) + (n % m)
<1>1. n % m \in 0..(m - 1)
  OBVIOUS
<1>2. n \div m \in Int
  OBVIOUS
<1>3. n = m * (n \div m) + (n % m)
  OBVIOUS
<1> QED
  BY <1>1, <1>2, <1>3

\* Between -m and m there is one multiple of m.
LEMMA SmallMultiple ==
    ASSUME NEW m \in Nat, m > 0, NEW t \in Int, -m < m * t, m * t < m
    PROVE  t = 0
<1>1. ASSUME t >= 1 PROVE FALSE
  <2>1. t - 1 \in Nat
    BY <1>1
  <2>2. m * (t - 1) >= 0 /\ m * (t - 1) = m * t - m
    BY <2>1
  <2>3. m * t \in Int
    OBVIOUS
  <2> QED
    BY <2>2, <2>3
<1>2. ASSUME t <= -1 PROVE FALSE
  <2>1. -t - 1 \in Nat
    BY <1>2
  <2>2. m * (-t - 1) >= 0 /\ m * (-t - 1) = -(m * t) - m
    BY <2>1
  <2>3. m * t \in Int
    OBVIOUS
  <2> QED
    BY <2>2, <2>3
<1> QED
  BY <1>1, <1>2

\* What differs by a multiple has the same rest.
LEMMA SameRest ==
    ASSUME NEW m \in Nat, m > 0, NEW a \in Int, NEW b \in Int, NEW t \in Int, a = b + m * t
    PROVE  a % m = b % m
<1> DEFINE p == a \div m
           q == b \div m
           u == a % m
           v == b % m
<1>1. /\ p \in Int /\ q \in Int /\ u \in 0..(m - 1) /\ v \in 0..(m - 1)
      /\ a = m * p + u /\ b = m * q + v
  BY Division
<1> HIDE DEF p, q, u, v
<1> DEFINE s == t + q - p
<1>2. s \in Int
  BY <1>1
<1>3. m * s = m * t + m * q - m * p
  BY <1>1
<1>4. m * s = u - v
  <2>1. m * t \in Int /\ m * p \in Int /\ m * q \in Int
    BY <1>1
  <2> QED
    BY <1>1, <1>3, <2>1
<1> HIDE DEF s
<1>5. s = 0
  BY <1>1, <1>2, <1>4, SmallMultiple
<1> QED
  BY <1>1, <1>4, <1>5 DEF u, v

Width == 2 * IntMax + 2

\* An int holds a number up to a multiple of its range.
LEMMA WrapFacts ==
    ASSUME NEW n \in Int
    PROVE  /\ WrapInt(n) \in Int /\ -IntMax - 1 <= WrapInt(n) /\ WrapInt(n) <= IntMax
           /\ \E t \in Int : WrapInt(n) = n + Width * t
           /\ -IntMax - 1 <= n /\ n <= IntMax => WrapInt(n) = n
<1> DEFINE a == n + IntMax + 1
           u == a % Width
           p == a \div Width
<1>1. Width \in Nat /\ Width > 0 /\ a \in Int /\ IntMax \in Nat /\ Width = 2 * IntMax + 2
  BY IntFacts DEF Width
<1>2. WrapInt(n) = u - IntMax - 1 /\ a = n + IntMax + 1
  BY Zenon DEF WrapInt, Width
<1> HIDE DEF a
<1>3. u \in 0..(Width - 1) /\ p \in Int /\ a = Width * p + u
  BY <1>1, Division
<1>4. a >= 0 /\ a < Width => u = a
  BY <1>1
<1> HIDE DEF u, p, Width
<1>5. Width * (-p) = -(Width * p) /\ Width * p \in Int /\ -p \in Int
  BY <1>1, <1>3
<1>6. WrapInt(n) = n + Width * (-p)
  BY <1>1, <1>2, <1>3, <1>5
<1>7. \E t \in Int : WrapInt(n) = n + Width * t
  BY <1>5, <1>6
<1> QED
  BY <1>1, <1>2, <1>3, <1>4, <1>7

LEMMA WrapSame ==
    ASSUME NEW a \in Int, NEW b \in Int, NEW t \in Int, a = b + Width * t
    PROVE  WrapInt(a) = WrapInt(b)
<1> DEFINE c == a + IntMax + 1
           d == b + IntMax + 1
<1>1. Width \in Nat /\ Width > 0 /\ IntMax \in Nat /\ c \in Int /\ d \in Int
  BY IntFacts DEF Width
<1>2. Width * t \in Int
  BY <1>1
<1>3. c = d + Width * t
  BY <1>1, <1>2
<1>4. WrapInt(a) = (c % Width) - IntMax - 1 /\ WrapInt(b) = (d % Width) - IntMax - 1
  BY Zenon DEF WrapInt, Width
<1> HIDE DEF c, d, Width
<1>5. c % Width = d % Width
  BY <1>1, <1>3, SameRest
<1> QED
  BY <1>4, <1>5

\* A digit behind a number, in ints all the way.
LEMMA WrapDigit ==
    ASSUME NEW v \in Int, NEW d \in Int
    PROVE  WrapInt(WrapInt(WrapInt(v) * Base) + d) = WrapInt(v * Base + d)
<1>1. Width \in Nat /\ Base \in Nat
  BY IntFacts DEF Width
<1>2. PICK t \in Int : WrapInt(v) = v + Width * t
  BY WrapFacts
<1> DEFINE x == WrapInt(v) * Base
<1>3. x \in Int
  BY <1>1, WrapFacts
<1>4. PICK s \in Int : WrapInt(x) = x + Width * s
  BY <1>3, WrapFacts
<1> DEFINE r == t * Base + s
           y == WrapInt(x) + d
           z == v * Base + d
<1>5. r \in Int /\ y \in Int /\ z \in Int
  BY <1>1, <1>3, WrapFacts
<1>6. x = v * Base + Width * (t * Base)
  <2>1. (v + Width * t) * Base = v * Base + (Width * t) * Base
    BY <1>1
  <2>2. (Width * t) * Base = Width * (t * Base)
    BY <1>1
  <2> QED
    BY <1>2, <2>1, <2>2
<1>7. Width * r = Width * (t * Base) + Width * s
  BY <1>1
<1>8. y = z + Width * r
  <2>1. v * Base \in Int /\ Width * (t * Base) \in Int /\ Width * s \in Int
    BY <1>1
  <2> HIDE DEF r, x
  <2> QED
    BY <1>3, <1>4, <1>6, <1>7, <2>1
<1> HIDE DEF r, y, z, x
<1>9. WrapInt(y) = WrapInt(z)
  BY <1>5, <1>8, WrapSame
<1> QED
  BY <1>9 DEF y, z, x

LEMMA WrapMinus ==
    ASSUME NEW v \in Int
    PROVE  WrapInt(-WrapInt(v)) = WrapInt(-v)
<1>1. Width \in Nat
  BY IntFacts DEF Width
<1>2. PICK t \in Int : WrapInt(v) = v + Width * t
  BY WrapFacts
<1> DEFINE r == -t
           y == -WrapInt(v)
           z == -v
<1>3. r \in Int /\ y \in Int /\ z \in Int
  BY WrapFacts
<1>4. Width * r = -(Width * t) /\ Width * t \in Int
  BY <1>1
<1>5. y = z + Width * r
  BY <1>2, <1>4
<1> HIDE DEF r, y, z
<1>6. WrapInt(y) = WrapInt(z)
  BY <1>3, <1>5, WrapSame
<1> QED
  BY <1>6 DEF y, z

(***************************************************************************)
(* parse_number keeps the value modulo the range of an int                 *)
(***************************************************************************)
Ints == (-IntMax - 1)..IntMax
Scanned == caller = "pair" /\ pc = "done"

Counts ==
    caller = "pair" => (pc = "second" => Len(args) = 1) /\ (pc = "done" => Len(args) = 2)

\* The arithmetic begins after the scan.
NotBegun ==
    ~Scanned => /\ which = 1 /\ str = 1 /\ num = 0 /\ parsed = <<>>
                /\ buffer = <<>> /\ j = 0 /\ stage = "parse"

\* What parse_number has read of a word are digits, and num is their value.
Read == SubSeq(Word, 1, str - 1)
Parsing ==
    stage = "parse" =>
        /\ which \in 1..2 /\ Len(parsed) = which - 1
        /\ buffer = <<>> /\ j = 0
        /\ Scanned => /\ str \in 1..(Len(Word) + 1)
                      /\ \A k \in 1..(str - 1) : Word[k] \in Digits
                      /\ num = WrapInt(Value(Read))

Parsed ==
    /\ stage \in {"parse", "add", "digits", "reverse", "printed"}
    /\ parsed \in Seq(Ints)
    /\ stage # "parse" => Len(parsed) = 2
    /\ ParsesModuloRange

ParseInv == TInv /\ Counts /\ NotBegun /\ Parsing /\ Parsed

\* What follows a sign is a text.
LEMMA BodyIsText ==
    ASSUME NEW C, NEW word \in Seq(C)
    PROVE  Body(word) \in Seq(C)
BY DEF Body, Negative

LEMMA WordsParsed ==
    ASSUME TInv, Counts, Scanned, which \in 1..2
    PROVE  /\ args[which] \in Seq(Characters) /\ Word \in Seq(Characters)
           /\ Len(args) = 2 /\ DOMAIN args = 1..2
<1> DEFINE V == Seq(Characters)
<1>1. args \in Seq(V) /\ Len(args) = 2
  BY DEF TInv, Reading, Counts, Scanned
<1> HIDE DEF V
<1>2. args[which] \in V /\ DOMAIN args = 1..2
  BY <1>1
<1>3. args[which] \in Seq(Characters)
  BY <1>2 DEF V
<1> QED
  BY <1>1, <1>2, <1>3, BodyIsText DEF Word

\* Nothing read is 0.
LEMMA NothingRead ==
    ASSUME NEW word
    PROVE  WrapInt(Value(SubSeq(word, 1, 1 - 1))) = 0
<1>1. SubSeq(word, 1, 1 - 1) = <<>>
  BY SubSeqEmpty
<1>2. <<>> \in Seq(Digits) /\ 0 \in Digits /\ 0 \in Int
  BY IntFacts DEF Digits
<1>3. Value(<<>>) = 0
  BY <1>2, ValueAppends DEF Value
<1>4. WrapInt(0) = 0
  BY IntFacts, WrapFacts
<1> QED
  BY <1>1, <1>3, <1>4

LEMMA DigitsRead ==
    ASSUME NEW text, NEW n \in Nat, \A k \in 1..n : text[k] \in Digits
    PROVE  SubSeq(text, 1, n) \in Seq(Digits) /\ Value(SubSeq(text, 1, n)) \in Int
<1> DEFINE s == SubSeq(text, 1, n)
<1>1. s \in Seq(Digits)
  BY SubSeqProperties
<1>2. 0 \in Int /\ 0 \in Digits
  BY IntFacts DEF Digits
<1> HIDE DEF s
<1>3. ValueBehind(0, s) \in Int
  BY <1>1, <1>2, ValueAppends
<1> QED
  BY <1>1, <1>3 DEF s, Value

\* A word's meaning is that of the digits before the first other character.
LEMMA MeaningIs ==
    ASSUME NEW word, NEW text, text = Body(word), NEW n \in 0..Len(text), Len(text) \in Nat,
           \A k \in 1..n : text[k] \in Digits, n = Len(text) \/ text[n + 1] \notin Digits
    PROVE  Meaning(word) = IF Negative(word) THEN -Value(SubSeq(text, 1, n))
                           ELSE Value(SubSeq(text, 1, n))
<1> DEFINE ends == {m \in 0..Len(Body(word)) : \A k \in 1..m : Body(word)[k] \in Digits}
           last == CHOOSE e \in ends : \A m \in ends : m <= e
<1>1. n \in ends
  OBVIOUS
<1>2. \A m \in ends : m \in Int /\ m <= n
  <2> SUFFICES ASSUME NEW m \in ends, m > n PROVE FALSE
    OBVIOUS
  <2>1. n + 1 \in 1..m /\ n # Len(text)
    OBVIOUS
  <2> QED
    BY <2>1
<1>3. Meaning(word) = IF Negative(word) THEN -Value(SubSeq(Body(word), 1, last))
                      ELSE Value(SubSeq(Body(word), 1, last))
  BY Zenon DEF Meaning
<1> HIDE DEF ends
<1>4. last \in ends /\ \A m \in ends : m <= last
  BY <1>1, <1>2, Zenon
<1> HIDE DEF last
<1>5. last = n
  BY <1>1, <1>2, <1>4
<1> QED
  BY <1>3, <1>5

LEMMA ParseInit ==
    ASSUME NumbersInit
    PROVE  ParseInv
<1> USE DEF NumbersInit
<1>1. TInv /\ ~Scanned
  BY TInit DEF Init, Scanned
<1>2. Counts
  BY DEF Init, Counts
<1>3. NotBegun /\ Parsing
  BY <1>1 DEF NotBegun, Parsing
<1>4. Parsed
  BY DEF Parsed, ParsesModuloRange
<1> QED
  BY <1>1, <1>2, <1>3, <1>4 DEF ParseInv

\* The scan itself parses nothing.
LEMMA ParseScans ==
    ASSUME ParseInv, Next, UNCHANGED sum
    PROVE  ParseInv'
<1>1. TInv'
  BY TStep DEF ParseInv
<1> USE DEF ParseInv
<1>2. CASE UNCHANGED vars
  BY <1>2 DEF vars, sum, TInv, TypeOK, Reading, NothingLost, Counts, NotBegun, Parsing, Parsed, ParsesModuloRange,
              Scanned, Read, Word, Places
<1>3. CASE ~Scanned /\ ~UNCHANGED vars
  <2>1. Counts'
    <3>1. CASE ScanFirst
      BY <3>1 DEF ScanFirst, Counts
    <3>2. CASE ScanSecond
      <4> DEFINE V == Seq(Characters)
                 w == WordAt(at)
      <4>1. caller = "pair" /\ line \in Seq(Characters) /\ at \in 1..(Len(line) + 1)
        BY <3>2 DEF ScanSecond, TInv, TypeOK, Reading
      <4>2. args \in Seq(V) /\ w \in V /\ Len(args) = 1
        BY <3>2, <4>1, WordIsText DEF ScanSecond, TInv, Reading, Counts
      <4> HIDE DEF V, w
      <4>3. Len(Append(args, w)) = Len(args) + 1
        BY <4>2
      <4> QED
        BY <3>2, <4>2, <4>3 DEF ScanSecond, Counts, w
    <3>3. CASE SkipSpace \/ NoToken \/ StartToken \/ CopyChar \/ EndToken \/ TakeRest
      BY <3>3 DEF SkipSpace, NoToken, StartToken, CopyChar, EndToken, TakeRest, Counts, TInv, Reading
    <3> QED
      BY <1>3, <3>1, <3>2, <3>3 DEF Next, Done
  <2>2. /\ which' = 1 /\ str' = 1 /\ num' = 0 /\ parsed' = <<>> /\ buffer' = <<>>
        /\ j' = 0 /\ stage' = "parse"
    BY <1>3 DEF NotBegun, sum
  <2>3. NotBegun' /\ Parsed'
    BY <2>2 DEF NotBegun, Parsed, ParsesModuloRange
  <2>4. Parsing'
    <3>1. ASSUME Scanned' PROVE Word' \in Seq(Characters) /\ WrapInt(Value(Read))' = 0
      <4>1. Word' \in Seq(Characters)
        <5> DEFINE V == Seq(Characters)
        <5>1. args' \in Seq(V) /\ Len(args') = 2
          BY <1>1, <2>1, <3>1 DEF TInv, Reading, Counts, Scanned
        <5> HIDE DEF V
        <5>2. args'[1] \in V
          BY <5>1
        <5>3. args'[1] \in Seq(Characters)
          BY <5>2 DEF V
        <5> QED
          BY <2>2, <5>3, BodyIsText DEF Word
      <4>2. Read' = SubSeq(Word', 1, 1 - 1)
        BY <2>2 DEF Read
      <4>3. WrapInt(Value(Read))' = WrapInt(Value(Read'))
        OBVIOUS
      <4> QED
        BY <4>1, <4>2, <4>3, NothingRead
    <3> QED
      BY <2>2, <3>1 DEF Parsing
  <2> QED
    BY <1>1, <2>1, <2>3, <2>4
<1>4. CASE Scanned
  BY <1>2, <1>4 DEF Scanned, Next, Done, SkipSpace, NoToken, StartToken, CopyChar, EndToken, TakeRest,
                    ScanFirst, ScanSecond
<1> QED
  BY <1>2, <1>3, <1>4

LEMMA ParsesDigit ==
    ASSUME ParseInv, ParseDigit
    PROVE  ParseInv'
<1> USE DEF ParseInv
<1> DEFINE C == Characters
           w == Word
           s == SubSeq(w, 1, str - 1)
           d == w[str]
<1>1. /\ At("parse") /\ AtDigit /\ str' = str + 1 /\ num' = WrapInt(WrapInt(num * Base) + d)
      /\ UNCHANGED <<vars, which, parsed, buffer, j, stage>>
  BY DEF ParseDigit
<1>2. stage = "parse" /\ Scanned
  BY <1>1 DEF At, Scanned
<1>3. /\ which \in 1..2 /\ str \in 1..(Len(w) + 1) /\ num = WrapInt(Value(s))
      /\ \A k \in 1..(str - 1) : w[k] \in Digits
  BY <1>2 DEF Parsing, Read
<1>4. w \in Seq(C) /\ d \in Digits /\ str \in 1..Len(w)
  BY <1>1, <1>2, <1>3, WordsParsed DEF AtDigit
<1>5. s \in Seq(Digits) /\ Value(s) \in Int
  <2>1. str - 1 \in Nat
    BY <1>3
  <2> HIDE DEF w
  <2> QED
    BY <1>3, <2>1, DigitsRead
<1>6. SubSeq(w, 1, str) = Append(s, d)
  <2>1. 1 \in 1..Len(w) /\ str \in 1..Len(w)
    BY <1>4
  <2> HIDE DEF w, C
  <2> QED
    BY <1>4, <2>1, PartGrows
<1>7. Value(SubSeq(w, 1, str)) = Value(s) * Base + d
  <2>1. 0 \in Int
    OBVIOUS
  <2> HIDE DEF w, s, d
  <2>2. ValueBehind(0, Append(s, d)) = ValueBehind(0, s) * Base + d
    BY <1>4, <1>5, <2>1, ValueAppends
  <2> QED
    BY <1>6, <2>2 DEF Value
<1>8. num' = WrapInt(Value(SubSeq(w, 1, str)))
  <2>1. d \in Int
    BY <1>4, IntFacts
  <2> DEFINE v == Value(s)
  <2>2. v \in Int /\ num = WrapInt(v)
    BY <1>3, <1>5
  <2> HIDE DEF w, s, d, v
  <2>3. WrapInt(WrapInt(WrapInt(v) * Base) + d) = WrapInt(v * Base + d)
    BY <2>1, <2>2, WrapDigit
  <2> QED
    BY <1>1, <1>7, <2>2, <2>3 DEF v
<1>9. w' = w /\ (str + 1) - 1 = str
  BY <1>1, <1>3 DEF vars, Word
<1>10. Parsing'
  <2>1. str' \in 1..(Len(w) + 1) /\ \A k \in 1..str : w[k] \in Digits
    <3>1. \A k \in 1..str : k # str => k \in 1..(str - 1)
      BY <1>3
    <3> HIDE DEF w
    <3> QED
      BY <1>1, <1>3, <1>4, <3>1 DEF d
  <2>2. Read' = SubSeq(w, 1, str)
    BY <1>1, <1>9 DEF Read
  <2>3. str' - 1 = str /\ Value(Read)' = Value(Read')
    BY <1>1, <1>9
  <2>4. num' = WrapInt(Value(Read))'
    BY <1>8, <2>2, <2>3
  <2>5. Word' = w
    BY <1>9
  <2> HIDE DEF w, s, d
  <2> QED
    BY <1>1, <1>2, <2>1, <2>3, <2>4, <2>5 DEF Parsing
<1>11. TInv' /\ Counts' /\ NotBegun' /\ Parsed'
  <2>1. TInv'
    BY <1>1, TStep
  <2> HIDE DEF w, s, d
  <2>2. Scanned'
    BY <1>1, <1>2 DEF vars, Scanned
  <2> QED
    BY <1>1, <2>1, <2>2 DEF vars, Counts, NotBegun, Parsed, ParsesModuloRange
<1> QED
  BY <1>10, <1>11

LEMMA ParseEnds ==
    ASSUME ParseInv, EndParse
    PROVE  ParseInv'
<1> USE DEF ParseInv
<1> DEFINE w == Word
           word == args[which]
           s == SubSeq(w, 1, str - 1)
           v == Value(s)
           x == IF Negative(word) THEN WrapInt(-num) ELSE num
<1>1. /\ At("parse") /\ ~AtDigit /\ str' = 1 /\ num' = 0 /\ which' = 2
      /\ parsed' = Append(parsed, x) /\ stage' = (IF which = 1 THEN "parse" ELSE "add")
      /\ UNCHANGED <<vars, buffer, j>>
  BY DEF EndParse
<1>2. stage = "parse" /\ Scanned
  BY <1>1 DEF At, Scanned
<1>3. /\ which \in 1..2 /\ str \in 1..(Len(w) + 1) /\ num = WrapInt(v)
      /\ \A k \in 1..(str - 1) : w[k] \in Digits
      /\ Len(parsed) = which - 1 /\ buffer = <<>> /\ j = 0
  BY <1>2 DEF Parsing, Read
<1>4. w \in Seq(Characters) /\ Len(w) \in Nat /\ Len(args) = 2 /\ DOMAIN args = 1..2
  BY <1>2, <1>3, WordsParsed
<1>5. v \in Int /\ str - 1 \in 0..Len(w)
  <2>1. str - 1 \in Nat /\ str - 1 \in 0..Len(w)
    BY <1>3, <1>4
  <2> HIDE DEF w
  <2> QED
    BY <1>3, <2>1, DigitsRead
<1>6. Meaning(word) = IF Negative(word) THEN -v ELSE v
  <2>1. w = Body(word)
    BY DEF Word
  <2>2. str - 1 = Len(w) \/ w[(str - 1) + 1] \notin Digits
    <3>1. str <= Len(w) => w[str] \notin Digits
      BY <1>1 DEF AtDigit
    <3>2. (str - 1) + 1 = str
      BY <1>3
    <3> HIDE DEF w
    <3> QED
      BY <1>3, <1>4, <3>1, <3>2
  <2> DEFINE n == str - 1
  <2>3. n \in 0..Len(w) /\ (n = Len(w) \/ w[n + 1] \notin Digits) /\ \A k \in 1..n : w[k] \in Digits
    BY <1>3, <1>5, <2>2
  <2>4. Meaning(word) = IF Negative(word) THEN -Value(SubSeq(w, 1, n)) ELSE Value(SubSeq(w, 1, n))
    <3> HIDE DEF w, n, word
    <3> QED
      BY <1>4, <2>1, <2>3, MeaningIs
  <2> QED
    BY <2>4
<1>7. x = WrapInt(Meaning(word)) /\ x \in Ints
  <2> HIDE DEF v, word
  <2>1. WrapInt(-WrapInt(v)) = WrapInt(-v) /\ -v \in Int /\ -WrapInt(v) \in Int
    <3>1. v \in Int
      BY <1>5
    <3>2. WrapInt(-WrapInt(v)) = WrapInt(-v)
      BY <3>1, WrapMinus
    <3>3. WrapInt(v) \in Int
      BY <3>1, WrapFacts
    <3> QED
      BY <3>1, <3>2, <3>3
  <2>2. x = WrapInt(Meaning(word))
    BY <1>3, <1>6, <2>1
  <2>3. \A n \in Int : WrapInt(n) \in Ints
    BY WrapFacts, IntFacts DEF Ints
  <2> QED
    BY <1>5, <1>6, <2>1, <2>2, <2>3
<1> HIDE DEF x, v, s
<1>8. parsed' \in Seq(Ints) /\ Len(parsed') = which
  BY <1>1, <1>3, <1>7 DEF Parsed
<1>9. ParsesModuloRange'
  <2> SUFFICES ASSUME NEW k \in DOMAIN parsed' PROVE parsed'[k] = WrapInt(Meaning(args[k]))
    BY <1>1 DEF ParsesModuloRange, vars
  <2>1. /\ parsed \in Seq(Ints) /\ \A i \in DOMAIN parsed : parsed[i] = WrapInt(Meaning(args[i]))
    BY DEF Parsed, ParsesModuloRange
  <2>2. /\ k \in 1..which
        /\ parsed'[which] = x /\ \A i \in 1..(which - 1) : parsed'[i] = parsed[i] /\ i \in DOMAIN parsed
    BY <1>1, <1>3, <1>7, <1>8, <2>1
  <2>3. CASE k = which
    BY <1>7, <2>2, <2>3
  <2>4. CASE k # which
    <3>1. k \in 1..(which - 1)
      BY <1>3, <2>2, <2>4
    <3> QED
      BY <2>1, <2>2, <3>1
  <2> QED
    BY <2>3, <2>4
<1>10. Parsed'
  BY <1>1, <1>3, <1>8, <1>9 DEF Parsed
<1>11. TInv' /\ Counts' /\ Scanned'
  BY <1>1, <1>2, TStep DEF vars, Counts, Scanned
<1>12. Parsing'
  <2> SUFFICES ASSUME stage' = "parse"
               PROVE  /\ which' = 2 /\ Len(parsed') = 1 /\ buffer' = <<>> /\ j' = 0
                      /\ str' = 1 /\ str' \in 1..(Len(Word') + 1) /\ num' = WrapInt(Value(Read'))
    BY DEF Parsing
  <2>1. which = 1
    BY <1>1
  <2>2. Word' \in Seq(Characters)
    <3> DEFINE V == Seq(Characters)
    <3>1. args' \in Seq(V) /\ Len(args') = 2
      BY <1>11 DEF TInv, Reading, Counts, Scanned
    <3> HIDE DEF V
    <3>2. args'[2] \in V
      BY <3>1
    <3>3. args'[2] \in Seq(Characters)
      BY <3>2 DEF V
    <3> QED
      BY <1>1, <3>3, BodyIsText DEF Word
  <2>3. WrapInt(Value(Read')) = 0
    <3>1. Read' = SubSeq(Word', 1, 1 - 1)
      BY <1>1 DEF Read
    <3> QED
      BY <3>1, NothingRead
  <2> QED
    BY <1>1, <1>3, <1>8, <2>1, <2>2, <2>3
<1> QED
  BY <1>10, <1>11, <1>12 DEF NotBegun

LEMMA ParsePrints ==
    ASSUME ParseInv, StartPrint \/ PrintDigit \/ PrintSign \/ SwapDigits \/ EndPrint
    PROVE  ParseInv' /\ UNCHANGED <<vars, parsed>>
<1>1. /\ UNCHANGED <<vars, parsed>> /\ Scanned /\ stage # "parse" /\ stage' # "parse"
      /\ stage' \in {"add", "digits", "reverse", "printed"}
  BY DEF StartPrint, PrintDigit, PrintSign, SwapDigits, EndPrint, At, Scanned
<1>2. TInv' /\ Counts' /\ Scanned'
  BY <1>1, TStep DEF ParseInv, vars, Counts, Scanned
<1>3. Parsed'
  BY <1>1 DEF ParseInv, Parsed, ParsesModuloRange, vars
<1> QED
  BY <1>1, <1>2, <1>3 DEF ParseInv, NotBegun, Parsing

LEMMA ParseStep ==
    ASSUME ParseInv, [NumbersNext]_numbersVars
    PROVE  ParseInv'
<1>1. CASE Next /\ UNCHANGED sum
  BY <1>1, ParseScans
<1>2. CASE ParseDigit
  BY <1>2, ParsesDigit
<1>3. CASE EndParse
  BY <1>3, ParseEnds
<1>4. CASE StartPrint \/ PrintDigit \/ PrintSign \/ SwapDigits \/ EndPrint
  BY <1>4, ParsePrints
<1>5. CASE UNCHANGED numbersVars
  BY <1>5 DEF numbersVars, vars, sum, ParseInv, TInv, TypeOK, Reading, NothingLost, Counts, NotBegun,
              Parsing, Parsed, ParsesModuloRange, Scanned, Read, Word, Places
<1> QED
  BY <1>1, <1>2, <1>3, <1>4, <1>5 DEF NumbersNext

(***************************************************************************)
(* int_to_str prints the sum                                               *)
(***************************************************************************)
Signed == Digits \cup {Minus}

LEMMA ReverseFacts ==
    ASSUME NEW V, NEW s \in Seq(V)
    PROVE  /\ Reverse(s) \in Seq(V) /\ Len(Reverse(s)) = Len(s)
           /\ \A k \in 1..Len(s) : Reverse(s)[k] = s[Len(s) + 1 - k]
<1> DEFINE n == Len(s)
           e(k) == s[(n - k) + 1]
           r == [k \in 1..n |-> e(k)]
<1>1. n \in Nat /\ \A k \in 1..n : (n - k) + 1 \in 1..n /\ (n - k) + 1 = n + 1 - k
  OBVIOUS
<1>2. \A k \in 1..n : e(k) \in V /\ e(k) = s[n + 1 - k]
  BY <1>1
<1>3. Reverse(s) = r
  BY Zenon DEF Reverse
<1> HIDE DEF n, e
<1>4. r \in Seq(V) /\ Len(r) = n /\ \A k \in 1..n : r[k] = e(k)
  BY <1>1, <1>2
<1> HIDE DEF r
<1> QED
  BY <1>2, <1>3, <1>4 DEF n

\* A character appended comes first when reversed.
LEMMA ReversePrepends ==
    ASSUME NEW V, NEW s \in Seq(V), NEW c \in V
    PROVE  /\ Reverse(Append(s, c)) \in Seq(V)
           /\ Len(Reverse(Append(s, c))) = Len(Reverse(s)) + 1
           /\ Reverse(Append(s, c))[1] = c
           /\ \A k \in 1..Len(Reverse(s)) : Reverse(Append(s, c))[k + 1] = Reverse(s)[k]
<1> DEFINE n == Len(s)
           r == Reverse(Append(s, c))
           more == Append(s, c)
           t == Reverse(s)
<1>1. /\ more \in Seq(V) /\ Len(more) = n + 1 /\ more[n + 1] = c
      /\ \A k \in 1..n : more[k] = s[k]
  OBVIOUS
<1>2. n \in Nat /\ t \in Seq(V) /\ Len(t) = n /\ \A k \in 1..n : t[k] = s[n + 1 - k]
  BY ReverseFacts
<1>0. r = Reverse(more)
  OBVIOUS
<1> HIDE DEF more, t, r
<1>3. r \in Seq(V) /\ Len(r) = n + 1 /\ \A k \in 1..(n + 1) : r[k] = more[(n + 1) + 1 - k]
  <2>1. /\ Reverse(more) \in Seq(V) /\ Len(Reverse(more)) = Len(more)
        /\ \A k \in 1..Len(more) : Reverse(more)[k] = more[Len(more) + 1 - k]
    BY <1>1, ReverseFacts
  <2> HIDE DEF n
  <2> QED
    BY <1>0, <1>1, <2>1
<1> HIDE DEF n
<1>4. r[1] = c
  <2>1. 1 \in 1..(n + 1) /\ (n + 1) + 1 - 1 = n + 1
    BY <1>2
  <2> QED
    BY <1>1, <1>3, <2>1
<1>5. ASSUME NEW k \in 1..n PROVE r[k + 1] = t[k]
  <2>1. k + 1 \in 1..(n + 1) /\ (n + 1) + 1 - (k + 1) = n + 1 - k /\ n + 1 - k \in 1..n
    BY <1>2
  <2> QED
    BY <1>1, <1>2, <1>3, <2>1, SMTT(40)
<1> QED
  BY <1>2, <1>3, <1>4, <1>5 DEF t, r

Magnitude == IF Sum < 0 THEN -Sum ELSE Sum

\* The digits of the sum, least significant first, and what stands behind them.
SumDigits(digits) ==
    /\ digits \in Seq(Digits) /\ digits # <<>> /\ digits[Len(digits)] # 0
    /\ Value(Reverse(digits)) = Magnitude
Backwards(digits) == IF Sum < 0 THEN Append(digits, Minus) ELSE digits

\* The first and the last j characters of the buffer have changed places.
Swapped(full) ==
    /\ buffer \in Seq(Signed) /\ Len(buffer) = Len(full)
    /\ j \in Nat /\ 2 * j <= Len(full)
    /\ \A k \in 1..Len(full) :
          buffer[k] = IF k <= j \/ k > Len(full) - j THEN full[Len(full) + 1 - k] ELSE full[k]

Printing ==
    stage # "parse" /\ Sum # -IntMax - 1 =>
        /\ stage = "add" => buffer = <<>> /\ j = 0
        /\ stage = "digits" =>
              /\ buffer \in Seq(Digits) /\ num \in Nat /\ Sum # 0 /\ j = 0
              /\ ValueBehind(num, Reverse(buffer)) = Magnitude
              /\ num = 0 => buffer # <<>> /\ buffer[Len(buffer)] # 0
        /\ stage = "reverse" =>
              /\ Sum # 0
              /\ \E digits : SumDigits(digits) /\ Swapped(Backwards(digits))
        /\ stage = "printed" => IsNumeral(buffer) /\ Printed(buffer) = Sum

\* A numeral without its sign.
LEMMA SignOf ==
    ASSUME NEW s \in Seq(Signed), s # <<>>
    PROVE  /\ s[1] \in Digits => ~Negative(s) /\ Body(s) = s
           /\ s[1] = Minus => Negative(s) /\ Body(s) = Tail(s)
BY NumbersAssumption DEF Negative, Body

\* Digits of the sum turned around are a numeral for it.
LEMMA NumeralOf ==
    ASSUME Sum \in Int, Sum # 0, NEW digits, SumDigits(digits),
           NEW text, text = Reverse(Backwards(digits))
    PROVE  IsNumeral(text) /\ Printed(text) = Sum
<1> DEFINE r == Reverse(digits)
           n == Len(digits)
<1>1. digits \in Seq(Digits) /\ n \in Nat /\ n > 0 /\ digits[n] # 0 /\ Value(r) = Magnitude
  BY DEF SumDigits
<1>2. r \in Seq(Digits) /\ Len(r) = n /\ r[1] = digits[n]
  <2>1. r \in Seq(Digits) /\ Len(r) = n /\ \A k \in 1..n : r[k] = digits[n + 1 - k]
    BY <1>1, ReverseFacts
  <2>2. 1 \in 1..n /\ n + 1 - 1 = n
    BY <1>1
  <2> HIDE DEF r, n
  <2> QED
    BY <2>1, <2>2
<1> HIDE DEF r
<1>3. r # <<>> /\ r[1] \in Digits /\ r[1] # 0 /\ Head(r) = r[1] /\ \A k \in DOMAIN r : r[k] \in Digits
  BY <1>1, <1>2
<1>4. digits \in Seq(Signed) /\ r \in Seq(Signed) /\ Minus \in Signed
  BY <1>1, <1>2 DEF Signed
<1>5. CASE ~(Sum < 0)
  <2>1. text = r
    BY <1>5 DEF Backwards, r
  <2>2. ~Negative(r) /\ Body(r) = r
    BY <1>3, <1>4, SignOf
  <2> QED
    BY <1>1, <1>3, <1>5, <2>1, <2>2 DEF IsNumeral, Printed, Magnitude
<1>6. CASE Sum < 0
  <2>1. text = Reverse(Append(digits, Minus))
    BY <1>6 DEF Backwards
  <2>2. /\ text \in Seq(Signed) /\ Len(text) = Len(r) + 1 /\ text[1] = Minus
        /\ \A k \in 1..Len(r) : text[k + 1] = r[k]
    <3> DEFINE t == Reverse(Append(digits, Minus))
    <3>1. t \in Seq(Signed) /\ Len(t) = Len(Reverse(digits)) + 1
      BY <1>4, ReversePrepends
    <3>2. t[1] = Minus
      BY <1>4, ReversePrepends
    <3>3. \A k \in 1..Len(Reverse(digits)) : t[k + 1] = Reverse(digits)[k]
      BY <1>4, ReversePrepends
    <3> QED
      BY <2>1, <3>1, <3>2, <3>3, Zenon DEF r
  <2>3. text # <<>>
    BY <1>1, <1>2, <2>2
  <2>4. Negative(text) /\ Body(text) = Tail(text)
    BY <2>2, <2>3, SignOf
  <2>5. Tail(text) \in Seq(Signed) /\ Len(Tail(text)) = Len(r) /\ \A k \in 1..Len(r) : Tail(text)[k] = r[k]
    BY <1>4, <2>2, <2>3
  <2>6. Tail(text) = r
    BY <1>4, <2>5, SeqEqual
  <2>7. Body(text) = r /\ Negative(text) /\ Value(r) = -Sum
    BY <1>1, <1>6, <2>4, <2>6 DEF Magnitude
  <2>8. IsNumeral(text)
    BY <1>3, <2>7 DEF IsNumeral
  <2>9. Printed(text) = -Value(r)
    BY <2>7, Zenon DEF Printed
  <2> QED
    BY <2>7, <2>8, <2>9
<1> QED
  BY <1>5, <1>6

LEMMA SumInt ==
    ASSUME Parsed, stage # "parse"
    PROVE  Sum \in Int /\ -IntMax - 1 <= Sum /\ Sum <= IntMax
<1>1. parsed \in Seq(Ints) /\ Len(parsed) = 2
  BY DEF Parsed
<1>2. parsed[1] \in Ints /\ parsed[2] \in Ints
  <2>1. \A k \in 1..Len(parsed) : parsed[k] \in Ints
    BY <1>1, ElementOfSeq
  <2>2. 1 \in 1..Len(parsed) /\ 2 \in 1..Len(parsed)
    BY <1>1
  <2> QED
    BY <2>1, <2>2
<1>3. parsed[1] + parsed[2] \in Int
  BY <1>2, IntFacts DEF Ints
<1> QED
  BY <1>3, WrapFacts DEF Sum

LEMMA ZeroIsNumeral ==
    IsNumeral(<<0>>) /\ Printed(<<0>>) = 0
<1> DEFINE s == <<0>>
<1>1. 0 \in Digits /\ 0 \in Int /\ <<>> \in Seq(Digits) /\ Base \in Int
  BY IntFacts DEF Digits
<1>2. s \in Seq(Signed) /\ s # <<>> /\ s[1] \in Digits
  BY <1>1 DEF Signed
<1>3. ~Negative(s) /\ Body(s) = s
  <2> HIDE DEF s
  <2> QED
    BY <1>2, SignOf
<1>4. Append(<<>>, 0) = s
  OBVIOUS
<1>5. Value(s) = 0
  <2>1. ValueBehind(0, <<>>) = 0
    BY <1>1, ValueAppends
  <2>2. ValueBehind(0, Append(<<>>, 0)) = ValueBehind(0, <<>>) * Base + 0
    BY <1>1, ValueAppends
  <2> QED
    BY <1>1, <1>4, <2>1, <2>2 DEF Value
<1>6. IsNumeral(s)
  BY <1>1, <1>3 DEF IsNumeral
<1>7. Printed(s) = 0
  BY <1>3, <1>5 DEF Printed
<1> QED
  BY <1>6, <1>7

LEMMA PrintStarts ==
    ASSUME ParseInv, Printing, StartPrint
    PROVE  Printing'
<1>1. /\ stage = "add" /\ parsed' = parsed /\ j' = j
      /\ Sum = 0 => buffer' = <<0>> /\ stage' = "printed"
      /\ Sum # 0 => /\ num' = (IF Sum < 0 THEN WrapInt(-Sum) ELSE Sum)
                    /\ stage' = "digits" /\ buffer' = buffer
  BY DEF StartPrint, At
<1>2. Sum \in Int /\ -IntMax - 1 <= Sum /\ Sum <= IntMax
  BY <1>1, SumInt DEF ParseInv
<1>3. Sum' = Sum /\ Magnitude' = Magnitude
  BY <1>1 DEF Sum, Magnitude
<1>4. CASE Sum = 0
  BY <1>1, <1>3, <1>4, ZeroIsNumeral DEF Printing
<1>5. CASE Sum # 0
  <2> SUFFICES ASSUME Sum # -IntMax - 1
               PROVE  /\ buffer' \in Seq(Digits) /\ num' \in Nat /\ j' = 0 /\ num' # 0
                      /\ ValueBehind(num', Reverse(buffer')) = Magnitude
    BY <1>1, <1>3, <1>5 DEF Printing
  <2>1. buffer' = <<>> /\ j' = 0
    BY <1>1, <1>5 DEF Printing
  <2>2. Sum < 0 => WrapInt(-Sum) = -Sum
    <3>1. Sum < 0 => -Sum \in Int /\ -IntMax - 1 <= -Sum /\ -Sum <= IntMax
      BY <1>2, IntFacts
    <3> QED
      BY <3>1, WrapFacts
  <2>3. num' = Magnitude /\ num' \in Nat /\ num' # 0
    BY <1>1, <1>2, <1>5, <2>2 DEF Magnitude
  <2>4. Reverse(<<>>) = <<>>
    <3>1. <<>> \in Seq(Digits)
      BY EmptySeq
    <3>2. Reverse(<<>>) \in Seq(Digits) /\ Len(Reverse(<<>>)) = Len(<<>>)
      BY <3>1, ReverseFacts
    <3> QED
      BY <3>2
  <2>5. ValueBehind(num', <<>>) = num'
    <3>1. \A n \in Int : ValueBehind(n, <<>>) = n
      <4>1. 0 \in Digits /\ <<>> \in Seq(Digits)
        BY IntFacts DEF Digits
      <4> QED
        BY <4>1, ValueAppends
    <3> QED
      BY <2>3, <3>1
  <2>6. ValueBehind(num', Reverse(buffer')) = Magnitude
    BY <2>1, <2>3, <2>4, <2>5, Zenon
  <2> QED
    BY <2>1, <2>3, <2>6
<1> QED
  BY <1>4, <1>5

LEMMA DigitStep ==
    ASSUME NEW n \in Nat, n > 0, NEW digits \in Seq(Digits)
    PROVE  /\ n \div Base \in Nat /\ n % Base \in Digits /\ (n \div Base = 0 => n % Base # 0)
           /\ ValueBehind(n \div Base, Reverse(Append(digits, n % Base)))
                 = ValueBehind(n, Reverse(digits))
<1> DEFINE q == n \div Base
           d == n % Base
           r == Reverse(digits)
           more == Reverse(Append(digits, d))
<1>1. Base \in Nat /\ Base > 0
  BY IntFacts
<1>2. q \in Int /\ d \in 0..(Base - 1) /\ n = Base * q + d
  BY <1>1, Division
<1> HIDE DEF q, d
<1>3. q \in Nat
  <2>1. q < 0 => Base * q <= -Base
    <3>1. q < 0 => -q - 1 \in Nat /\ Base * (-q - 1) >= 0 /\ Base * (-q - 1) = -(Base * q) - Base
      BY <1>1, <1>2
    <3>2. Base * q \in Int
      BY <1>1, <1>2
    <3> QED
      BY <1>1, <3>1, <3>2
  <2>2. Base * q \in Int
    BY <1>1, <1>2
  <2> QED
    BY <1>1, <1>2, <2>1, <2>2
<1>4. d \in Digits /\ (q = 0 => d # 0)
  BY <1>1, <1>2 DEF Digits
<1>5. r \in Seq(Digits)
  BY ReverseFacts
<1>6. /\ more \in Seq(Digits) /\ Len(more) = Len(r) + 1
  BY <1>4, ReversePrepends
<1>7. more[1] = d
  BY <1>4, ReversePrepends
<1>8. \A k \in 1..Len(r) : more[k + 1] = r[k]
  BY <1>4, ReversePrepends
<1> HIDE DEF r, more
<1>9. ValueBehind(q, more) = ValueBehind(q * Base + d, r)
  BY <1>2, <1>4, <1>5, <1>6, <1>7, <1>8, ValuePrepends
<1>10. q * Base + d = n
  BY <1>1, <1>2
<1> QED
  BY <1>3, <1>4, <1>9, <1>10 DEF q, d, r, more

LEMMA PrintsDigit ==
    ASSUME ParseInv, Printing, PrintDigit
    PROVE  Printing'
<1>1. /\ stage = "digits" /\ stage' = "digits" /\ num > 0 /\ parsed' = parsed /\ j' = j
      /\ buffer' = Append(buffer, num % Base) /\ num' = num \div Base
  BY DEF PrintDigit, At
<1>2. Sum' = Sum /\ Magnitude' = Magnitude
  BY <1>1 DEF Sum, Magnitude
<1> SUFFICES ASSUME Sum # -IntMax - 1
             PROVE  /\ buffer' \in Seq(Digits) /\ num' \in Nat /\ Sum # 0 /\ j' = 0
                    /\ ValueBehind(num', Reverse(buffer')) = Magnitude
                    /\ num' = 0 => buffer' # <<>> /\ buffer'[Len(buffer')] # 0
  BY <1>1, <1>2 DEF Printing
<1>3. /\ buffer \in Seq(Digits) /\ num \in Nat /\ Sum # 0 /\ j = 0
      /\ ValueBehind(num, Reverse(buffer)) = Magnitude
  BY <1>1 DEF Printing
<1> DEFINE d == num % Base
<1>4. num' \in Nat /\ d \in Digits /\ (num' = 0 => d # 0)
  BY <1>1, <1>3, DigitStep
<1>5. ValueBehind(num', Reverse(buffer')) = ValueBehind(num, Reverse(buffer))
  BY <1>1, <1>3, DigitStep
<1> HIDE DEF d
<1>6. /\ Append(buffer, d) \in Seq(Digits) /\ Append(buffer, d) # <<>>
      /\ Append(buffer, d)[Len(Append(buffer, d))] = d
  BY <1>3, <1>4
<1> QED
  BY <1>1, <1>3, <1>4, <1>5, <1>6 DEF d

\* The digits and their sign are a text.
LEMMA BackwardsIsText ==
    ASSUME NEW digits \in Seq(Digits)
    PROVE  Backwards(digits) \in Seq(Signed)
<1>1. digits \in Seq(Signed) /\ Minus \in Signed
  BY DEF Signed
<1>2. Append(digits, Minus) \in Seq(Signed)
  BY <1>1
<1> QED
  BY <1>1, <1>2 DEF Backwards

LEMMA PrintsSign ==
    ASSUME ParseInv, Printing, PrintSign
    PROVE  Printing'
<1>1. /\ stage = "digits" /\ stage' = "reverse" /\ num <= 0 /\ parsed' = parsed /\ j' = j
      /\ buffer' = Backwards(buffer)
  BY DEF PrintSign, At, Backwards
<1>2. Sum' = Sum /\ Magnitude' = Magnitude /\ Value(Reverse(buffer))' = Value(Reverse(buffer'))
  BY <1>1 DEF Sum, Magnitude
<1> SUFFICES ASSUME Sum # -IntMax - 1
             PROVE  Sum # 0 /\ \E digits : SumDigits(digits)' /\ Swapped(Backwards(digits))'
  BY <1>1, <1>2 DEF Printing
<1>3. /\ buffer \in Seq(Digits) /\ num = 0 /\ Sum # 0 /\ j = 0
      /\ ValueBehind(num, Reverse(buffer)) = Magnitude
      /\ buffer # <<>> /\ buffer[Len(buffer)] # 0
  BY <1>1 DEF Printing
<1>4. SumDigits(buffer)
  BY <1>3 DEF SumDigits, Value
<1> DEFINE full == Backwards(buffer)
           n == Len(full)
<1>5. full \in Seq(Signed) /\ n \in Nat
  BY <1>3, BackwardsIsText
<1>6. /\ buffer' \in Seq(Signed) /\ Len(buffer') = n /\ j' = 0
      /\ \A k \in 1..n : buffer'[k] = IF k <= j' \/ k > n - j' THEN full[n + 1 - k] ELSE full[k]
  BY <1>1, <1>3, <1>5
<1>7. \E digits : SumDigits(digits) /\ digits = buffer
  BY <1>4
<1>8. PICK digits : SumDigits(digits) /\ digits = buffer
  BY <1>7
<1>9. SumDigits(digits)'
  BY <1>2, <1>8 DEF SumDigits
<1>10. Backwards(digits)' = full
  BY <1>2, <1>8 DEF Backwards
<1>11. Swapped(Backwards(digits))'
  <2> HIDE DEF full
  <2>1. 2 * j' <= n /\ j' \in Nat
    BY <1>5, <1>6
  <2> QED
    BY <1>6, <1>10, <2>1 DEF Swapped
<1> QED
  BY <1>3, <1>9, <1>11

\* Two more places.
LEMMA SwapStep ==
    ASSUME NEW full \in Seq(Signed), Swapped(full), j < Len(buffer) \div 2,
           NEW k, k = Len(buffer) - j,
           buffer' = [buffer EXCEPT ![j + 1] = buffer[k], ![k] = buffer[j + 1]], j' = j + 1
    PROVE  /\ buffer' \in Seq(Signed) /\ Len(buffer') = Len(full)
           /\ j' \in Nat /\ 2 * j' <= Len(full)
           /\ \A i \in 1..Len(full) :
                 buffer'[i] = IF i <= j' \/ i > Len(full) - j' THEN full[Len(full) + 1 - i] ELSE full[i]
<1> DEFINE n == Len(full)
           V == Signed
<1>1. /\ buffer \in Seq(V) /\ Len(buffer) = n /\ n \in Nat /\ j \in Nat
      /\ \A i \in 1..n : buffer[i] = IF i <= j \/ i > n - j THEN full[n + 1 - i] ELSE full[i]
  BY DEF Swapped
<1>2. 2 * (j + 1) <= n
  <2>1. n \div 2 \in Int /\ 2 * (n \div 2) <= n
    BY <1>1
  <2> QED
    BY <1>1, <2>1
<1>3. j + 1 \in 1..n /\ k \in 1..n /\ j + 1 < k /\ k = n - j
  BY <1>1, <1>2
<1> DEFINE a == j + 1
           e(i) == IF i = k THEN buffer[a] ELSE IF i = a THEN buffer[k] ELSE buffer[i]
<1>4. buffer' = [i \in 1..n |-> e(i)]
  <2>1. DOMAIN buffer = 1..n /\ a \in 1..n /\ k \in 1..n
    BY <1>1, <1>3
  <2>2. buffer' = [buffer EXCEPT ![a] = buffer[k], ![k] = buffer[a]]
    OBVIOUS
  <2> HIDE DEF a, n
  <2>3. [buffer EXCEPT ![a] = buffer[k], ![k] = buffer[a]] = [i \in 1..n |-> e(i)]
    BY <2>1
  <2> QED
    BY <2>2, <2>3
<1>5. \A i \in 1..n : buffer[i] \in V
  BY <1>1, ElementOfSeq
<1>6. \A i \in 1..n : e(i) \in V
  BY <1>3, <1>5
<1>7. buffer' \in Seq(V) /\ Len(buffer') = n /\ \A i \in 1..n : buffer'[i] = e(i)
  <2> HIDE DEF e, n, V
  <2>1. /\ [i \in 1..n |-> e(i)] \in Seq(V) /\ Len([i \in 1..n |-> e(i)]) = n
        /\ \A i \in 1..n : [h \in 1..n |-> e(h)][i] = e(i)
    <3>1. n \in Nat
      BY <1>1
    <3> QED
      BY ONLY <1>6, <3>1
  <2> QED
    BY <1>4, <2>1, Zenon
<1>8. ASSUME NEW i \in 1..n
      PROVE  buffer'[i] = IF i <= j' \/ i > n - j' THEN full[n + 1 - i] ELSE full[i]
  <2> HIDE DEF n, V
  <2>1. buffer'[i] = e(i) /\ j' = j + 1
    BY <1>7
  <2> HIDE DEF e
  <2>2. CASE i = k
    <3>1. e(i) = buffer[a] /\ a \in 1..n /\ ~(a <= j) /\ ~(a > n - j) /\ n + 1 - i = a
      BY <1>1, <1>3, <2>2 DEF e
    <3>2. buffer[a] = full[a]
      BY <1>1, <3>1
    <3>3. i > n - j'
      BY <1>1, <1>3, <2>2
    <3> QED
      BY <2>1, <3>1, <3>2, <3>3
  <2>3. CASE i = a
    <3>1. e(i) = buffer[k] /\ ~(k <= j) /\ ~(k > n - j) /\ n + 1 - i = k
      BY <1>1, <1>3, <2>3 DEF e
    <3>2. buffer[k] = full[k]
      BY <1>1, <1>3, <3>1
    <3>3. i <= j'
      BY <1>1, <1>3, <2>3
    <3> QED
      BY <2>1, <3>1, <3>2, <3>3
  <2>4. CASE i # a /\ i # k
    <3>1. e(i) = buffer[i]
      BY <2>4 DEF e
    <3>2. (i <= j' \/ i > n - j') <=> (i <= j \/ i > n - j)
      BY <1>1, <1>3, <2>4
    <3> QED
      BY <1>1, <2>1, <3>1, <3>2
  <2> QED
    BY <2>2, <2>3, <2>4
<1>9. j' \in Nat /\ 2 * j' <= n
  BY <1>1, <1>2
<1> HIDE DEF e, a
<1> QED
  BY <1>7, <1>8, <1>9

LEMMA PrintSwaps ==
    ASSUME ParseInv, Printing, SwapDigits
    PROVE  Printing'
<1>1. /\ stage = "reverse" /\ stage' = "reverse" /\ parsed' = parsed /\ j < Len(buffer) \div 2
      /\ j' = j + 1
      /\ buffer' = [buffer EXCEPT ![j + 1] = buffer[Len(buffer) - j], ![Len(buffer) - j] = buffer[j + 1]]
  BY Zenon DEF SwapDigits, At
<1>2. Sum' = Sum /\ Magnitude' = Magnitude
  BY <1>1 DEF Sum, Magnitude
<1> SUFFICES ASSUME Sum # -IntMax - 1
             PROVE  Sum # 0 /\ \E digits : SumDigits(digits)' /\ Swapped(Backwards(digits))'
  BY <1>1, <1>2 DEF Printing
<1>3. PICK digits : Sum # 0 /\ SumDigits(digits) /\ Swapped(Backwards(digits))
  BY <1>1 DEF Printing
<1> DEFINE full == Backwards(digits)
<1>4. full \in Seq(Signed) /\ Swapped(full)
  BY <1>3, BackwardsIsText DEF SumDigits
<1>5. SumDigits(digits)' /\ full' = full
  BY <1>2, <1>3 DEF SumDigits, Backwards
<1>6. Swapped(full)'
  <2>1. \E f, k : f = full /\ k = Len(buffer) - j
    OBVIOUS
  <2>2. PICK f, k : f = full /\ k = Len(buffer) - j
    BY <2>1
  <2> HIDE DEF full
  <2>3. f \in Seq(Signed) /\ Swapped(f)
    BY <1>4, <2>2
  <2>4. buffer' = [buffer EXCEPT ![j + 1] = buffer[k], ![k] = buffer[j + 1]]
    BY <1>1, <2>2, Zenon
  <2>5. /\ buffer' \in Seq(Signed) /\ Len(buffer') = Len(f)
        /\ j' \in Nat /\ 2 * j' <= Len(f)
        /\ \A i \in 1..Len(f) :
              buffer'[i] = IF i <= j' \/ i > Len(f) - j' THEN f[Len(f) + 1 - i] ELSE f[i]
    BY <1>1, <2>2, <2>3, <2>4, SwapStep
  <2> QED
    BY <1>5, <2>2, <2>5 DEF Swapped
<1> QED
  BY <1>3, <1>5, <1>6

LEMMA PrintEnds ==
    ASSUME ParseInv, Printing, EndPrint
    PROVE  Printing'
<1>1. /\ stage = "reverse" /\ stage' = "printed" /\ parsed' = parsed /\ buffer' = buffer
      /\ j >= Len(buffer) \div 2
  BY DEF EndPrint, At
<1>2. Sum' = Sum
  BY <1>1 DEF Sum
<1> SUFFICES ASSUME Sum # -IntMax - 1
             PROVE  IsNumeral(buffer) /\ Printed(buffer) = Sum
  BY <1>1, <1>2 DEF Printing
<1>3. PICK digits : Sum # 0 /\ SumDigits(digits) /\ Swapped(Backwards(digits))
  BY <1>1 DEF Printing
<1> DEFINE full == Backwards(digits)
           n == Len(full)
           r == Reverse(full)
<1>4. full \in Seq(Signed) /\ n \in Nat
  BY <1>3, BackwardsIsText DEF SumDigits
<1>5. r \in Seq(Signed) /\ Len(r) = n /\ \A i \in 1..n : r[i] = full[n + 1 - i]
  <2> HIDE DEF full
  <2> QED
    BY <1>4, ReverseFacts
<1>6. /\ buffer \in Seq(Signed) /\ Len(buffer) = n /\ j \in Nat /\ 2 * j <= n
      /\ \A i \in 1..n : buffer[i] = IF i <= j \/ i > n - j THEN full[n + 1 - i] ELSE full[i]
  BY <1>3 DEF Swapped
<1> HIDE DEF full, n, r
<1>7. 2 * j >= n - 1
  <2>1. n \div 2 \in Int /\ n <= 2 * (n \div 2) + 1
    BY <1>4
  <2> QED
    BY <1>1, <1>4, <1>6, <2>1
<1>8. \A i \in 1..n : ~(i <= j \/ i > n - j) => n + 1 - i = i
  BY <1>4, <1>6, <1>7
<1>9. \A i \in 1..n : buffer[i] = r[i]
  BY <1>5, <1>6, <1>8
<1>10. buffer = r
  BY <1>5, <1>6, <1>9, SeqEqual
<1>11. Sum \in Int
  BY <1>1, SumInt DEF ParseInv
<1> QED
  BY <1>3, <1>10, <1>11, NumeralOf DEF r, full

LEMMA PrintInit ==
    NumbersInit => Printing
BY DEF NumbersInit, Printing

LEMMA PrintStep ==
    ASSUME ParseInv, Printing, [NumbersNext]_numbersVars
    PROVE  Printing'
<1>1. CASE (Next /\ UNCHANGED sum) \/ ParseDigit \/ UNCHANGED numbersVars
  <2>1. /\ stage' = stage /\ parsed' = parsed /\ buffer' = buffer /\ j' = j
        /\ stage # "parse" => num' = num
    BY <1>1 DEF sum, ParseDigit, At, numbersVars
  <2>2. Sum' = Sum /\ Magnitude' = Magnitude
    BY <2>1 DEF Sum, Magnitude
  <2>3. \A digits : SumDigits(digits)' = SumDigits(digits) /\ Swapped(Backwards(digits))' = Swapped(Backwards(digits))
    BY <2>1, <2>2 DEF SumDigits, Swapped, Backwards
  <2> QED
    BY <2>1, <2>2, <2>3 DEF Printing
<1>2. CASE EndParse
  BY <1>2 DEF EndParse, At, Printing, ParseInv, Parsing
<1>3. CASE StartPrint
  BY <1>3, PrintStarts
<1>4. CASE PrintDigit
  BY <1>4, PrintsDigit
<1>5. CASE PrintSign
  BY <1>5, PrintsSign
<1>6. CASE SwapDigits
  BY <1>6, PrintSwaps
<1>7. CASE EndPrint
  BY <1>7, PrintEnds
<1> QED
  BY <1>1, <1>2, <1>3, <1>4, <1>5, <1>6, <1>7 DEF NumbersNext

(***************************************************************************)
(* Theorems                                                                *)
(***************************************************************************)

\* Tokens and their terminators stay inside the buffers that read_token and
\* copy_string fill, whatever the line and the sizes.
THEOREM TokensFit ==
    Spec => []TypeOK
<1> QED
  BY TokensAlways, TokensInvGives, PTL

\* Through any number of spaces and any number of words cut by a full buffer,
\* read_token and its callers lose no character of the line and read none twice.
THEOREM TokensLoseNothing ==
    Spec => []NothingLost
<1> QED
  BY TokensAlways, TokensInvGives, PTL

\* Where the words of a line fit, a command's arguments are the first of them, a
\* missing one is reported, and the text behind the arguments has the others.
THEOREM TokensAreWords ==
    Spec => []ArgumentsAreWords
<1> QED
  BY TokensAlways, TokensInvGives, PTL

\* The scan that sleep, priority and add do themselves finds the first two words
\* of a line that begins with one.
THEOREM PairsAreWords ==
    Spec => []PairIsWords
<1> QED
  BY TokensAlways, TokensInvGives, PTL

\* The add command reads its line as the scan does: parsing and printing disturb
\* nothing of it, and the theorems above hold of it too.
THEOREM AddScans ==
    NumbersSpec => Spec
<1>1. NumbersInit => Init
  BY DEF NumbersInit
<1>2. [NumbersNext]_numbersVars => [Next]_vars
  BY DEF numbersVars, NumbersNext, ParseDigit, EndParse, StartPrint, PrintDigit, PrintSign,
         SwapDigits, EndPrint
<1> QED
  BY <1>1, <1>2, PTL DEF NumbersSpec, Spec

LEMMA NumbersAlways ==
    NumbersSpec => [](ParseInv /\ Printing)
<1>1. NumbersInit => ParseInv /\ Printing
  BY ParseInit, PrintInit
<1>2. (ParseInv /\ Printing) /\ [NumbersNext]_numbersVars => (ParseInv /\ Printing)'
  BY ParseStep, PrintStep
<1> QED
  BY <1>1, <1>2, PTL DEF NumbersSpec

\* However many digits a word has, whatever the base and the width of an int,
\* parse_number's wrapping steps leave the word's value modulo that width.
THEOREM ParsingWraps ==
    NumbersSpec => []ParsesModuloRange
<1>1. ParseInv /\ Printing => ParsesModuloRange
  BY DEF ParseInv, Parsed
<1> QED
  BY <1>1, NumbersAlways, PTL

\* What add prints of two numbers is a numeral of their sum as an int holds it,
\* unless that is the smallest int.
THEOREM SumsArePrinted ==
    NumbersSpec => []PrintsSum
<1>1. ParseInv /\ Printing => PrintsSum
  BY DEF Printing, PrintsSum
<1> QED
  BY <1>1, NumbersAlways, PTL
=============================================================================
