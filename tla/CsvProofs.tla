------------------------------ MODULE CsvProofs ------------------------------
(***************************************************************************)
(* Proofs that a file is read back as it was written: for rows of any      *)
(* number and length, and for every text a field may hold.  The parsers    *)
(* take a text character by character, so the proofs are inductions over   *)
(* characters, fields, rows and lines.                                     *)
(***************************************************************************)
EXTENDS CsvText, SequenceTheorems, WellFoundedInduction, TLAPS

(* Induction on the numbers and on sequences, for sets instead of predicates: *)
(* a least number left out of the set would have a predecessor in it.       *)
LEMMA NatSetInduction ==
    ASSUME NEW S, 0 \in S, \A n \in Nat : n \in S => n + 1 \in S
    PROVE  Nat \subseteq S
<1> DEFINE Out == Nat \ S
<1>1. SUFFICES ASSUME Out # {} PROVE FALSE
  OBVIOUS
<1>2. IsWellFoundedOn(OpToRel(<,Nat), Nat)
  BY NatLessThanWellFounded, Zenon
<1>a. Out \subseteq Nat
  OBVIOUS
<1>3. \E x \in Out : \A y \in Out : ~ (<<y, x>> \in OpToRel(<,Nat))
  <2> HIDE DEF Out
  <2> QED BY <1>1, <1>2, <1>a, WFMin, Zenon
<1>4. PICK x \in Out : \A y \in Out : ~ (<<y, x>> \in OpToRel(<,Nat))
  BY <1>3
<1>5. \A y \in Out : ~(y < x)
  BY <1>4, <1>a, Zenon DEF OpToRel
<1>6. x # 0 /\ x \in Nat /\ x - 1 \in Nat
  OBVIOUS
<1>7. x - 1 \notin Out
  BY <1>5, <1>6
<1>8. x - 1 \in S
  BY <1>6, <1>7
<1>9. (x - 1) + 1 \in S
  BY <1>6, <1>8
<1> QED BY <1>6, <1>9

(* The function behind Read exists: one of length m goes on to m + 1.       *)
Reads(read, m, parser, p, text) ==
    read = [n \in 0..m |-> IF n = 0 THEN p ELSE NextChar(parser, read[n - 1], text[n])]

LEMMA ReadIsChosen ==
    ASSUME NEW parser, NEW p, NEW text
    PROVE  Read(parser, p, text) = (CHOOSE r : Reads(r, Len(text), parser, p, text))[Len(text)]
BY DEF Read, Reads

LEMMA ReadExists ==
    ASSUME NEW parser, NEW p, NEW text, NEW m \in Nat
    PROVE  \E r : Reads(r, m, parser, p, text)
<1> DEFINE S == {k \in Nat : \E r : Reads(r, k, parser, p, text)}
<1>1. 0 \in S
  <2>1. Reads([n \in 0..0 |-> p], 0, parser, p, text)
    BY DEF Reads
  <2> QED BY <2>1
<1>2. ASSUME NEW k \in Nat, k \in S PROVE k + 1 \in S
  <2>1. PICK r : Reads(r, k, parser, p, text)
    BY <1>2
  <2> DEFINE q == [n \in 0..(k+1) |-> IF n = k + 1 THEN NextChar(parser, r[k], text[k+1]) ELSE r[n]]
  <2>2. \A n \in 0..k : /\ q[n] = r[n]
                       /\ r[n] = IF n = 0 THEN p ELSE NextChar(parser, r[n - 1], text[n])
    BY <2>1 DEF Reads
  <2>3. \A n \in 0..(k+1) : q[n] = IF n = 0 THEN p ELSE NextChar(parser, q[n - 1], text[n])
    <3> TAKE n \in 0..(k+1)
    <3>1. CASE n = k + 1
      BY <3>1, <2>2
    <3>2. CASE n \in 0..k
      <4>1. n = 0 \/ n - 1 \in 0..k
        BY <3>2
      <4> HIDE DEF q
      <4> QED BY <4>1, <3>2, <2>2
    <3> QED BY <3>1, <3>2
  <2>4. q = [n \in 0..(k+1) |-> q[n]]
    OBVIOUS
  <2>5. Reads(q, k + 1, parser, p, text)
    <3> HIDE DEF q
    <3> QED BY <2>3, <2>4 DEF Reads
  <2> QED BY <2>5
<1>3. Nat \subseteq S
  <2> HIDE DEF S
  <2> QED BY <1>1, <1>2, NatSetInduction
<1> QED BY <1>3


(* What Read computes, one character after the other.                       *)
LEMMA ReadFunction ==
    ASSUME NEW parser, NEW p, NEW text, Len(text) \in Nat
    PROVE  \E r : /\ Read(parser, p, text) = r[Len(text)]
                  /\ r[0] = p
                  /\ \A n \in 1..Len(text) : r[n] = NextChar(parser, r[n - 1], text[n])
<1> DEFINE r == CHOOSE r : Reads(r, Len(text), parser, p, text)
<1>1. Reads(r, Len(text), parser, p, text)
  BY ReadExists
<1>2. Read(parser, p, text) = r[Len(text)]
  BY ReadIsChosen
<1> HIDE DEF r
<1>3. \A n \in 0..Len(text) : r[n] = IF n = 0 THEN p ELSE NextChar(parser, r[n - 1], text[n])
  BY <1>1 DEF Reads
<1>4. r[0] = p /\ \A n \in 1..Len(text) : r[n] = NextChar(parser, r[n - 1], text[n])
  BY <1>3
<1> QED BY <1>2, <1>4

LEMMA ReadEmpty ==
    ASSUME NEW parser, NEW p
    PROVE  Read(parser, p, <<>>) = p
BY ReadFunction

(* Reading one character more is one step more of the parser.               *)
LEMMA ReadAppend ==
    ASSUME NEW parser, NEW p, NEW C, NEW s \in Seq(C), NEW c \in C
    PROVE  Read(parser, p, Append(s, c)) = NextChar(parser, Read(parser, p, s), c)
<1> DEFINE t == Append(s, c)
<1>1. /\ Len(s) \in Nat /\ Len(t) = Len(s) + 1 /\ t[Len(t)] = c
      /\ \A n \in 1..Len(s) : t[n] = s[n]
  BY AppendProperties
<1> HIDE DEF t
<1>2. PICK r : /\ Read(parser, p, s) = r[Len(s)] /\ r[0] = p
               /\ \A n \in 1..Len(s) : r[n] = NextChar(parser, r[n - 1], s[n])
  BY <1>1, ReadFunction
<1>3. PICK q : /\ Read(parser, p, t) = q[Len(t)] /\ q[0] = p
               /\ \A n \in 1..Len(t) : q[n] = NextChar(parser, q[n - 1], t[n])
  BY <1>1, ReadFunction
<1> DEFINE Same == {n \in Nat : n <= Len(s) => q[n] = r[n]}
<1>4. 0 \in Same
  BY <1>2, <1>3
<1>5. ASSUME NEW n \in Nat, n \in Same PROVE n + 1 \in Same
  <2>1. SUFFICES ASSUME n + 1 <= Len(s) PROVE q[n + 1] = r[n + 1]
    OBVIOUS
  <2>2. q[n] = r[n] /\ n + 1 \in 1..Len(s) /\ n + 1 \in 1..Len(t) /\ (n + 1) - 1 = n
    BY <1>1, <1>5, <2>1
  <2> QED BY <1>1, <1>2, <1>3, <2>2
<1>6. Nat \subseteq Same
  <2> HIDE DEF Same
  <2> QED BY <1>4, <1>5, NatSetInduction
<1>7. q[Len(s)] = r[Len(s)]
  BY <1>1, <1>6
<1>8. Len(t) \in 1..Len(t) /\ Len(t) - 1 = Len(s)
  BY <1>1
<1> QED BY <1>1, <1>2, <1>3, <1>7, <1>8 DEF t

(* A set with the empty sequence that is closed under Append has every sequence. *)
LEMMA SeqSetInduction ==
    ASSUME NEW C, NEW S, <<>> \in S, \A s \in Seq(C), c \in C : s \in S => Append(s, c) \in S
    PROVE  Seq(C) \subseteq S
<1> DEFINE N == {n \in Nat : \A s \in Seq(C) : Len(s) = n => s \in S}
<1>1. 0 \in N
  BY EmptySeq
<1>2. ASSUME NEW n \in Nat, n \in N PROVE n + 1 \in N
  <2>1. SUFFICES ASSUME NEW t \in Seq(C), Len(t) = n + 1 PROVE t \in S
    OBVIOUS
  <2>2. t # <<>>
    BY <2>1
  <2>3. PICK s \in Seq(C), c \in C : t = Append(s, c)
    BY <2>2, SequenceEmptyOrAppend
  <2>4. Len(s) \in Nat /\ Len(t) = Len(s) + 1
    BY <2>3, AppendProperties
  <2>5. s \in S
    BY <1>2, <2>1, <2>4
  <2> QED BY <2>3, <2>5
<1>3. Nat \subseteq N
  <2> HIDE DEF N
  <2> QED BY <1>1, <1>2, NatSetInduction
<1> QED BY <1>3

LEMMA ReadOne ==
    ASSUME NEW parser, NEW p, NEW C, NEW c \in C
    PROVE  Read(parser, p, <<c>>) = NextChar(parser, p, c)
<1> DEFINE none == <<>>
<1>1. none \in Seq(C) /\ <<c>> = Append(none, c) /\ Read(parser, p, none) = p
  BY ReadEmpty
<1> HIDE DEF none
<1>2. Read(parser, p, Append(none, c)) = NextChar(parser, Read(parser, p, none), c)
  BY <1>1, ReadAppend
<1> QED BY <1>1, <1>2

LEMMA ConcatAppend ==
    ASSUME NEW C, NEW s \in Seq(C), NEW t \in Seq(C), NEW c \in C
    PROVE  s \o Append(t, c) = Append(s \o t, c)
<1>1. <<c>> \in Seq(C) /\ s \o t \in Seq(C)
  OBVIOUS
<1>2. Append(t, c) = t \o <<c>> /\ Append(s \o t, c) = (s \o t) \o <<c>>
  BY <1>1, AppendIsConcat
<1> QED BY <1>1, <1>2, ConcatAssociative

(* A text in two parts is read one part after the other: the parser's state is *)
(* all that is carried over.                                                *)
LEMMA ReadConcat ==
    ASSUME NEW parser, NEW p, NEW C, NEW s \in Seq(C), NEW t \in Seq(C)
    PROVE  Read(parser, p, s \o t) = Read(parser, Read(parser, p, s), t)
<1> DEFINE S == {u \in Seq(C) : Read(parser, p, s \o u) = Read(parser, Read(parser, p, s), u)}
<1>1. <<>> \in S
  BY ReadEmpty, ConcatEmptySeq
<1>2. ASSUME NEW u \in Seq(C), NEW c \in C, u \in S PROVE Append(u, c) \in S
  <2>1. s \o Append(u, c) = Append(s \o u, c)
    BY ConcatAppend
  <2>2. s \o u \in Seq(C) /\ Append(u, c) \in Seq(C)
    OBVIOUS
  <2>3. Read(parser, p, Append(s \o u, c)) = NextChar(parser, Read(parser, p, s \o u), c)
    <3> DEFINE v == s \o u
    <3>1. v \in Seq(C)
      BY <2>2
    <3> HIDE DEF v
    <3>2. Read(parser, p, Append(v, c)) = NextChar(parser, Read(parser, p, v), c)
      BY <3>1, ReadAppend
    <3> QED BY <3>2 DEF v
  <2>4. Read(parser, Read(parser, p, s), Append(u, c))
          = NextChar(parser, Read(parser, Read(parser, p, s), u), c)
    BY ReadAppend
  <2> QED BY <1>2, <2>1, <2>2, <2>3, <2>4
<1>3. Seq(C) \subseteq S
  <2> HIDE DEF S
  <2> QED BY <1>1, <1>2, SeqSetInduction
<1> QED BY <1>3

-----------------------------------------------------------------------------
(* The same for FlattenSeq: the function behind it exists, and one sequence more *)
(* is appended at the end.                                                  *)
Flattens(flatten, m, seqs) ==
    flatten = [i \in 1..m |-> IF i = 1 THEN seqs[i] ELSE flatten[i - 1] \o seqs[i]]

LEMMA FlattenIsChosen ==
    ASSUME NEW seqs, Len(seqs) # 0
    PROVE  FlattenSeq(seqs) = (CHOOSE r : Flattens(r, Len(seqs), seqs))[Len(seqs)]
BY DEF FlattenSeq, Flattens

LEMMA FlattenExists ==
    ASSUME NEW seqs, NEW m \in Nat
    PROVE  \E r : Flattens(r, m, seqs)
<1> DEFINE S == {k \in Nat : \E r : Flattens(r, k, seqs)}
<1>1. 0 \in S
  <2>1. Flattens([i \in 1..0 |-> i], 0, seqs)
    BY DEF Flattens
  <2> QED BY <2>1
<1>2. ASSUME NEW k \in Nat, k \in S PROVE k + 1 \in S
  <2>1. PICK r : Flattens(r, k, seqs)
    BY <1>2
  <2> DEFINE last == IF k = 0 THEN seqs[1] ELSE r[k] \o seqs[k + 1]
             q == [i \in 1..(k + 1) |-> IF i = k + 1 THEN last ELSE r[i]]
  <2>2. \A i \in 1..k : r[i] = IF i = 1 THEN seqs[i] ELSE r[i - 1] \o seqs[i]
    BY <2>1 DEF Flattens
  <2>3. \A i \in 1..k : q[i] = r[i]
    BY <2>2
  <2>4. q[k + 1] = last
    OBVIOUS
  <2>5. q = [i \in 1..(k + 1) |-> q[i]]
    OBVIOUS
  <2> HIDE DEF q
  <2>6. \A i \in 1..(k + 1) : q[i] = IF i = 1 THEN seqs[i] ELSE q[i - 1] \o seqs[i]
    <3> TAKE i \in 1..(k + 1)
    <3>1. CASE i = k + 1 /\ k = 0
      BY <3>1, <2>4
    <3>2. CASE i = k + 1 /\ k # 0
      <4>1. k \in 1..k /\ i # 1 /\ i - 1 = k
        BY <3>2
      <4>2. q[i - 1] = r[k]
        BY <4>1, <2>3
      <4> QED BY <3>2, <2>4, <4>1, <4>2
    <3>3. CASE i \in 1..k
      <4>1. i # 1 => i - 1 \in 1..k
        BY <3>3
      <4> QED BY <3>3, <4>1, <2>2, <2>3
    <3> QED BY <3>1, <3>2, <3>3
  <2>7. Flattens(q, k + 1, seqs)
    BY <2>5, <2>6 DEF Flattens
  <2> QED BY <2>7
<1>3. Nat \subseteq S
  <2> HIDE DEF S
  <2> QED BY <1>1, <1>2, NatSetInduction
<1> QED BY <1>3

LEMMA FlattenFunction ==
    ASSUME NEW seqs, Len(seqs) \in Nat, Len(seqs) # 0
    PROVE  \E r : /\ FlattenSeq(seqs) = r[Len(seqs)]
                  /\ r[1] = seqs[1]
                  /\ \A i \in 2..Len(seqs) : r[i] = r[i - 1] \o seqs[i]
<1> DEFINE r == CHOOSE r : Flattens(r, Len(seqs), seqs)
<1>1. Flattens(r, Len(seqs), seqs)
  BY FlattenExists
<1>2. FlattenSeq(seqs) = r[Len(seqs)]
  BY FlattenIsChosen
<1> HIDE DEF r
<1>3. \A i \in 1..Len(seqs) : r[i] = IF i = 1 THEN seqs[i] ELSE r[i - 1] \o seqs[i]
  BY <1>1 DEF Flattens
<1>4. r[1] = seqs[1]
  <2>1. 1 \in 1..Len(seqs)
    OBVIOUS
  <2> QED BY <1>3, <2>1
<1>5. \A i \in 2..Len(seqs) : r[i] = r[i - 1] \o seqs[i]
  <2>1. \A i \in 2..Len(seqs) : i \in 1..Len(seqs) /\ i # 1
    OBVIOUS
  <2> QED BY <1>3, <2>1
<1> QED BY <1>2, <1>4, <1>5

LEMMA FlattenEmpty == FlattenSeq(<<>>) = <<>>
BY DEF FlattenSeq

(* The last of several sequences comes last in the text.                    *)
LEMMA FlattenAppend ==
    ASSUME NEW C, NEW seqs \in Seq(Seq(C)), NEW s \in Seq(C)
    PROVE  FlattenSeq(Append(seqs, s)) = FlattenSeq(seqs) \o s
<1> DEFINE more == Append(seqs, s)
<1>1. /\ Len(seqs) \in Nat /\ Len(more) = Len(seqs) + 1 /\ more[Len(more)] = s
      /\ \A i \in 1..Len(seqs) : more[i] = seqs[i]
  BY AppendProperties
<1> HIDE DEF more
<1>a. Len(more) \in Nat /\ Len(more) # 0
  BY <1>1
<1>2. PICK q : /\ FlattenSeq(more) = q[Len(more)] /\ q[1] = more[1]
               /\ \A i \in 2..Len(more) : q[i] = q[i - 1] \o more[i]
  BY <1>a, FlattenFunction, Zenon
<1>3. CASE seqs = <<>>
  <2>1. Len(seqs) = 0
    BY <1>3
  <2>2. FlattenSeq(more) = s
    BY <1>1, <1>2, <2>1
  <2>3. FlattenSeq(seqs) \o s = s
    BY <1>3, FlattenEmpty, ConcatEmptySeq
  <2> QED BY <2>2, <2>3 DEF more
<1>4. CASE seqs # <<>>
  <2>1. Len(seqs) # 0 /\ 1 \in 1..Len(seqs)
    BY <1>4, <1>1, EmptySeq
  <2>2. PICK r : /\ FlattenSeq(seqs) = r[Len(seqs)] /\ r[1] = seqs[1]
                 /\ \A i \in 2..Len(seqs) : r[i] = r[i - 1] \o seqs[i]
    BY <1>1, <2>1, FlattenFunction
  <2> DEFINE Same == {n \in Nat : n + 1 <= Len(seqs) => q[n + 1] = r[n + 1]}
  <2>3. 0 \in Same
    BY <1>1, <1>2, <2>1, <2>2
  <2>4. ASSUME NEW n \in Nat, n \in Same PROVE n + 1 \in Same
    <3>1. SUFFICES ASSUME n + 2 <= Len(seqs) PROVE q[n + 2] = r[n + 2]
      OBVIOUS
    <3>2. /\ q[n + 1] = r[n + 1] /\ n + 2 \in 2..Len(seqs) /\ n + 2 \in 2..Len(more)
          /\ n + 2 \in 1..Len(seqs) /\ (n + 2) - 1 = n + 1
      BY <1>1, <2>4, <3>1
    <3> QED BY <1>1, <1>2, <2>2, <3>2
  <2>5. Nat \subseteq Same
    <3> HIDE DEF Same
    <3> QED BY <2>3, <2>4, NatSetInduction
  <2>6. Len(seqs) - 1 \in Nat /\ (Len(seqs) - 1) + 1 = Len(seqs)
    BY <1>1, <2>1
  <2>7. q[Len(seqs)] = r[Len(seqs)]
    <3>1. Len(seqs) - 1 \in Same
      BY <2>5, <2>6
    <3> QED BY <2>6, <3>1, <1>1
  <2>8. Len(more) \in 2..Len(more) /\ Len(more) - 1 = Len(seqs)
    BY <1>1, <2>1
  <2> QED BY <1>1, <1>2, <2>2, <2>7, <2>8 DEF more
<1> QED BY <1>3, <1>4

LEMMA FlattenType ==
    ASSUME NEW C, NEW seqs \in Seq(Seq(C))
    PROVE  FlattenSeq(seqs) \in Seq(C)
<1> DEFINE S == {ss \in Seq(Seq(C)) : FlattenSeq(ss) \in Seq(C)}
<1>1. <<>> \in S
  BY FlattenEmpty, EmptySeq
<1>2. ASSUME NEW ss \in Seq(Seq(C)), NEW s \in Seq(C), ss \in S PROVE Append(ss, s) \in S
  BY <1>2, FlattenAppend, AppendProperties, ConcatProperties
<1>3. Seq(Seq(C)) \subseteq S
  <2> HIDE DEF S
  <2> QED BY <1>1, <1>2, SeqSetInduction
<1> QED BY <1>3

-----------------------------------------------------------------------------
(* A function on 1..n + 1 is the one on 1..n with a value appended.         *)
LEMMA LongerFunction ==
    ASSUME NEW T, NEW n \in Nat, NEW f \in [1..n -> T], NEW g \in [1..(n + 1) -> T],
           \A i \in 1..n : g[i] = f[i]
    PROVE  /\ f \in Seq(T) /\ Len(f) = n
           /\ g = Append(f, g[n + 1])
<1>1. f \in Seq(T) /\ Len(f) = n
  OBVIOUS
<1>2. g \in Seq(T) /\ Len(g) = n + 1 /\ g[n + 1] \in T
  OBVIOUS
<1> DEFINE h == Append(f, g[n + 1])
<1>3. h \in Seq(T) /\ Len(h) = n + 1 /\ h[n + 1] = g[n + 1] /\ \A i \in 1..n : h[i] = f[i]
  BY <1>1, <1>2, AppendProperties
<1> HIDE DEF h
<1>4. \A i \in 1..Len(g) : g[i] = h[i]
  BY <1>2, <1>3
<1>5. g = h
  BY <1>2, <1>3, <1>4, SeqEqual
<1> QED BY <1>1, <1>5 DEF h

(* The characters for which a field is quoted.                              *)
Specials == {Quote, Comma, CR, LF}

LEMMA SpecialsDiffer ==
    /\ Quote # Comma /\ Quote # LF /\ Quote # CR
    /\ Comma # LF /\ Comma # CR /\ LF # CR
BY DEF Quote, Comma, LF, CR

(* A character of a quoted field as it is written.                          *)
DoubledChar(c) == IF c = Quote THEN <<Quote, Quote>> ELSE <<c>>

(* Escaping works character by character.                                   *)
LEMMA DoubledAppend ==
    ASSUME NEW C, Specials \subseteq C, NEW s \in Seq(C), NEW c \in C
    PROVE  /\ Doubled(s) \in Seq(C)
           /\ Doubled(Append(s, c)) = Doubled(s) \o DoubledChar(c)
<1> DEFINE t == Append(s, c)
           f == [i \in DOMAIN s |-> DoubledChar(s[i])]
           g == [i \in DOMAIN t |-> DoubledChar(t[i])]
<1>1. /\ Len(s) \in Nat /\ DOMAIN s = 1..Len(s) /\ DOMAIN t = 1..(Len(s) + 1)
      /\ t[Len(s) + 1] = c /\ \A i \in 1..Len(s) : t[i] = s[i] /\ s[i] \in C
  BY AppendProperties, LenProperties, ElementOfSeq
<1> HIDE DEF t
<1>2. \A d \in C : DoubledChar(d) \in Seq(C)
  BY DEF DoubledChar, Specials
<1>3. f \in [1..Len(s) -> Seq(C)] /\ g \in [1..(Len(s) + 1) -> Seq(C)]
  <2>1. \A i \in 1..(Len(s) + 1) : i \in 1..Len(s) \/ i = Len(s) + 1
    BY <1>1
  <2>2. \A i \in 1..(Len(s) + 1) : t[i] \in C
    BY <1>1, <2>1
  <2> QED BY <1>1, <1>2, <2>2
<1>4. \A i \in 1..Len(s) : g[i] = f[i]
  BY <1>1
<1>5. g[Len(s) + 1] = DoubledChar(c)
  BY <1>1
<1>6. Doubled(s) = FlattenSeq(f) /\ Doubled(t) = FlattenSeq(g)
  BY DEF Doubled, DoubledChar
<1> HIDE DEF f, g
<1>7. f \in Seq(Seq(C)) /\ g = Append(f, DoubledChar(c))
  <2> DEFINE n == Len(s)
             T == Seq(C)
  <2>1. /\ n \in Nat /\ f \in [1..n -> T] /\ g \in [1..(n + 1) -> T]
        /\ \A i \in 1..n : g[i] = f[i]
    BY <1>1, <1>3, <1>4
  <2>2. g[n + 1] = DoubledChar(c)
    BY <1>5
  <2> HIDE DEF n, T
  <2>3. f \in Seq(T) /\ g = Append(f, g[n + 1])
    BY <2>1, LongerFunction
  <2> QED BY <2>2, <2>3 DEF T
<1> DEFINE d == DoubledChar(c)
<1>8. d \in Seq(C) /\ g = Append(f, d)
  BY <1>2, <1>7
<1> HIDE DEF d
<1>9. FlattenSeq(f) \in Seq(C) /\ FlattenSeq(g) = FlattenSeq(f) \o d
  BY <1>7, <1>8, FlattenAppend, FlattenType
<1> QED BY <1>6, <1>9 DEF t, d

LEMMA DoubledEmpty == Doubled(<<>>) = <<>>
<1>1. [i \in DOMAIN <<>> |-> DoubledChar(<<>>[i])] = <<>>
  OBVIOUS
<1> QED BY <1>1, FlattenEmpty DEF Doubled, DoubledChar

-----------------------------------------------------------------------------
(* A parser half way, as long as csv-parse has not refused the text.        *)
Modes == {"start", "plain", "quoted", "closing"}

Parsing(C) == [rows : Seq(Seq(Seq(C))), row : Seq(Seq(C)), field : Seq(C), mode : Modes]

(* What both parsers do with a quote, with a character of a field and with the *)
(* end of a field: the two differ only on texts the writer never makes.     *)
LEMMA ParserQuotes ==
    ASSUME NEW parser, NEW C, NEW p \in Parsing(C)
    PROVE  /\ p.mode = "start" => NextChar(parser, p, Quote) = [p EXCEPT !.mode = "quoted"]
           /\ p.mode = "quoted" => NextChar(parser, p, Quote) = [p EXCEPT !.mode = "closing"]
           /\ p.mode = "closing" => NextChar(parser, p, Quote) = Keep(p, Quote, "quoted")
<1>1. p.mode \in Modes
  BY DEF Parsing
<1>2. CASE parser = "script"
  BY <1>1, <1>2, SpecialsDiffer DEF NextChar, ScriptChar, InQuotes, Modes
<1>3. CASE parser # "script"
  BY <1>1, <1>3, SpecialsDiffer DEF NextChar, CsvParseChar, InQuotes, Modes
<1> QED BY <1>2, <1>3

LEMMA ParserKeeps ==
    ASSUME NEW parser, NEW C, NEW p \in Parsing(C), NEW c
    PROVE  /\ p.mode = "quoted" /\ c # Quote => NextChar(parser, p, c) = Keep(p, c, "quoted")
           /\ p.mode \in {"start", "plain"} /\ c \notin Specials
                 => NextChar(parser, p, c) = Keep(p, c, "plain")
<1>1. p.mode \in Modes
  BY DEF Parsing
<1>2. CASE parser = "script"
  BY <1>1, <1>2, SpecialsDiffer DEF NextChar, ScriptChar, InQuotes, Modes, Specials
<1>3. CASE parser # "script"
  BY <1>1, <1>3, SpecialsDiffer DEF NextChar, CsvParseChar, InQuotes, Modes, Specials
<1> QED BY <1>2, <1>3

LEMMA ParserEnds ==
    ASSUME NEW parser, NEW C, NEW p \in Parsing(C), p.mode # "quoted"
    PROVE  /\ NextChar(parser, p, Comma) = EndField(p)
           /\ NextChar(parser, p, LF) = EndRecord(p)
<1>1. p.mode \in Modes
  BY DEF Parsing
<1>2. CASE parser = "script"
  BY <1>1, <1>2, SpecialsDiffer DEF NextChar, ScriptChar, Modes
<1>3. CASE parser # "script"
  BY <1>1, <1>3, SpecialsDiffer DEF NextChar, CsvParseChar, Modes
<1> QED BY <1>2, <1>3

(* The parser p, inside the field read so far.                              *)
InField(p, field, mode) == [p EXCEPT !.field = field, !.mode = mode]

(* A character of a quoted field is read as itself, a doubled quote as one quote. *)
LEMMA ReadDoubledChar ==
    ASSUME NEW parser, NEW C, Specials \subseteq C, NEW c \in C,
           NEW p \in Parsing(C), p.mode = "quoted"
    PROVE  Read(parser, p, DoubledChar(c)) = InField(p, Append(p.field, c), "quoted")
<1>1. Keep(p, c, "quoted") = InField(p, Append(p.field, c), "quoted")
  BY DEF Keep, InField
<1>2. CASE c = Quote
  <2> DEFINE q == [p EXCEPT !.mode = "closing"]
             one == <<Quote>>
  <2>1. q \in Parsing(C) /\ q.mode = "closing"
    BY DEF Parsing, Modes
  <2>2. Keep(q, Quote, "quoted") = Keep(p, Quote, "quoted")
    BY DEF Keep, Parsing
  <2>3. NextChar(parser, p, Quote) = q
    BY ParserQuotes
  <2> HIDE DEF q
  <2>4. NextChar(parser, q, Quote) = Keep(q, Quote, "quoted")
    BY <2>1, ParserQuotes
  <2>5. Quote \in C /\ one \in Seq(C) /\ DoubledChar(c) = Append(one, Quote)
    BY <1>2 DEF DoubledChar
  <2>6. Read(parser, p, one) = q
    BY <2>3, <2>5, ReadOne
  <2> HIDE DEF one
  <2>7. Read(parser, p, Append(one, Quote)) = NextChar(parser, Read(parser, p, one), Quote)
    BY <2>5, ReadAppend
  <2> QED BY <1>1, <1>2, <2>2, <2>4, <2>5, <2>6, <2>7
<1>3. CASE c # Quote
  <2>1. Read(parser, p, <<c>>) = NextChar(parser, p, c)
    BY ReadOne
  <2>2. NextChar(parser, p, c) = Keep(p, c, "quoted")
    BY <1>3, ParserKeeps
  <2> QED BY <1>1, <1>3, <2>1, <2>2 DEF DoubledChar
<1> QED BY <1>2, <1>3

(* So is every quoted text.                                                 *)
LEMMA ReadDoubled ==
    ASSUME NEW parser, NEW C, Specials \subseteq C, NEW s \in Seq(C),
           NEW p \in Parsing(C), p.mode = "quoted", p.field = <<>>
    PROVE  Read(parser, p, Doubled(s)) = InField(p, s, "quoted")
<1> DEFINE S == {u \in Seq(C) : Read(parser, p, Doubled(u)) = InField(p, u, "quoted")}
<1>1. <<>> \in S
  <2>1. InField(p, <<>>, "quoted") = p
    BY DEF InField, Parsing
  <2> QED BY <2>1, DoubledEmpty, ReadEmpty, EmptySeq
<1>2. ASSUME NEW u \in Seq(C), NEW c \in C, u \in S PROVE Append(u, c) \in S
  <2> DEFINE q == InField(p, u, "quoted")
             v == Append(u, c)
             d == DoubledChar(c)
  <2>1. q \in Parsing(C) /\ q.mode = "quoted" /\ q.field = u
    BY DEF InField, Parsing, Modes
  <2>2. v \in Seq(C)
    BY AppendProperties
  <2>3. InField(q, v, "quoted") = InField(p, v, "quoted")
    BY DEF InField, Parsing
  <2>4. Doubled(u) \in Seq(C) /\ Doubled(v) = Doubled(u) \o d /\ d \in Seq(C)
    <3>1. d \in Seq(C)
      BY DEF DoubledChar, Specials
    <3> QED BY <3>1, DoubledAppend
  <2>5. Read(parser, p, Doubled(u)) = q
    BY <1>2
  <2> HIDE DEF q, v
  <2>6. Read(parser, q, d) = InField(q, v, "quoted")
    BY <2>1, ReadDoubledChar DEF v
  <2> HIDE DEF d
  <2>7. Read(parser, p, Doubled(v)) = Read(parser, q, d)
    BY <2>4, <2>5, ReadConcat
  <2> QED BY <2>2, <2>3, <2>6, <2>7 DEF v
<1>3. Seq(C) \subseteq S
  <2> HIDE DEF S
  <2> QED BY <1>1, <1>2, SeqSetInduction
<1> QED BY <1>3

(* A text without a special character is read as itself.                    *)
LEMMA ReadPlain ==
    ASSUME NEW parser, NEW C, NEW s \in Seq(C \ Specials),
           NEW p \in Parsing(C), p.mode = "start", p.field = <<>>
    PROVE  \E m \in {"start", "plain"} : Read(parser, p, s) = InField(p, s, m)
<1> DEFINE S == {u \in Seq(C \ Specials) :
                   \E m \in {"start", "plain"} : Read(parser, p, u) = InField(p, u, m)}
<1>1. <<>> \in S
  <2>1. InField(p, <<>>, "start") = p
    BY DEF InField, Parsing
  <2> QED BY <2>1, ReadEmpty, EmptySeq
<1>2. ASSUME NEW u \in Seq(C \ Specials), NEW c \in C \ Specials, u \in S
      PROVE  Append(u, c) \in S
  <2>1. PICK m \in {"start", "plain"} : Read(parser, p, u) = InField(p, u, m)
    BY <1>2
  <2> DEFINE q == InField(p, u, m)
             v == Append(u, c)
  <2>2. q \in Parsing(C) /\ q.mode = m
    <3>1. u \in Seq(C)
      BY SeqMonotonic
    <3> QED BY <3>1 DEF InField, Parsing, Modes
  <2>3. Keep(q, c, "plain") = InField(p, v, "plain")
    BY DEF Keep, InField, Parsing
  <2> HIDE DEF q
  <2>4. NextChar(parser, q, c) = Keep(q, c, "plain")
    BY <2>2, ParserKeeps
  <2>5. Read(parser, p, v) = NextChar(parser, Read(parser, p, u), c)
    BY ReadAppend
  <2>6. v \in Seq(C \ Specials)
    BY AppendProperties
  <2> QED BY <2>1, <2>3, <2>4, <2>5, <2>6 DEF q
<1>3. Seq(C \ Specials) \subseteq S
  <2> HIDE DEF S
  <2> QED BY <1>1, <1>2, SeqSetInduction
<1> QED BY <1>3

(* What is written for a field, and that it is read back as the field.      *)
LEMMA EscapeType ==
    ASSUME NEW C, Specials \subseteq C, NEW s \in Seq(C)
    PROVE  EscapeCsvField(s) \in Seq(C)
<1>1. Doubled(s) \in Seq(C)
  <2>1. Quote \in C
    BY DEF Specials
  <2> QED BY <2>1, DoubledAppend
<1>2. <<Quote>> \in Seq(C)
  BY DEF Specials
<1> QED BY <1>1, <1>2, ConcatProperties DEF EscapeCsvField

LEMMA ReadField ==
    ASSUME NEW parser, NEW C, Specials \subseteq C, NEW s \in Seq(C),
           NEW p \in Parsing(C), p.mode = "start", p.field = <<>>
    PROVE  \E m \in {"start", "plain", "closing"} :
              Read(parser, p, EscapeCsvField(s)) = InField(p, s, m)
<1>1. CASE ToSet(s) \cap {Quote, Comma, CR, LF} = {}
  <2>1. s \in Seq(C \ Specials)
    <3>1. DOMAIN s = 1..Len(s) /\ Len(s) \in Nat /\ \A i \in 1..Len(s) : s[i] \in C
      BY LenProperties, ElementOfSeq
    <3>2. \A i \in 1..Len(s) : s[i] \notin Specials
      BY <1>1, <3>1 DEF ToSet, Specials
    <3>3. s \in [1..Len(s) -> C \ Specials]
      BY <3>1, <3>2, LenProperties
    <3> QED BY <3>1, <3>3, SeqDef
  <2>2. EscapeCsvField(s) = s
    BY <1>1 DEF EscapeCsvField
  <2>3. \E m \in {"start", "plain"} : Read(parser, p, s) = InField(p, s, m)
    BY <2>1, ReadPlain
  <2> QED BY <2>2, <2>3
<1>2. CASE ToSet(s) \cap {Quote, Comma, CR, LF} # {}
  <2> DEFINE one == <<Quote>>
             open == InField(p, <<>>, "quoted")
             full == InField(p, s, "quoted")
             shut == InField(p, s, "closing")
  <2>1. EscapeCsvField(s) = (one \o Doubled(s)) \o one
    BY <1>2 DEF EscapeCsvField
  <2>2. Quote \in C /\ one \in Seq(C) /\ Doubled(s) \in Seq(C)
    <3>1. Quote \in C
      BY DEF Specials
    <3> QED BY <3>1, DoubledAppend
  <2>3. open \in Parsing(C) /\ open.mode = "quoted" /\ open.field = <<>>
    BY EmptySeq DEF InField, Parsing, Modes
  <2>4. full \in Parsing(C) /\ full.mode = "quoted"
    BY DEF InField, Parsing, Modes
  <2>5. InField(open, s, "quoted") = full /\ [full EXCEPT !.mode = "closing"] = shut
        /\ [p EXCEPT !.mode = "quoted"] = open
    BY DEF InField, Parsing
  <2>6. Read(parser, p, one) = open
    BY <2>2, <2>5, ReadOne, ParserQuotes
  <2> HIDE DEF open
  <2>7. Read(parser, open, Doubled(s)) = full
    BY <2>3, <2>5, ReadDoubled
  <2> HIDE DEF full
  <2>8. Read(parser, full, one) = shut
    BY <2>2, <2>4, <2>5, ReadOne, ParserQuotes
  <2>9. Read(parser, p, (one \o Doubled(s)) \o one) = shut
    <3> HIDE DEF one, open, full, shut
    <3>1. one \o Doubled(s) \in Seq(C)
      BY <2>2, ConcatProperties
    <3>2. Read(parser, p, one \o Doubled(s)) = full
      BY <2>2, <2>6, <2>7, ReadConcat
    <3> DEFINE long == one \o Doubled(s)
    <3> HIDE DEF long
    <3>3. Read(parser, p, long \o one) = Read(parser, Read(parser, p, long), one)
      <4>1. long \in Seq(C)
        BY <3>1 DEF long
      <4> QED BY <2>2, <4>1, ReadConcat
    <3> QED BY <2>8, <3>2, <3>3 DEF long
  <2> QED BY <2>1, <2>9
<1> QED BY <1>1, <1>2

-----------------------------------------------------------------------------
(* A text with the comma before it.  Joined texts grow by one of them.      *)
WithComma(i, text) == (IF i = 1 THEN <<>> ELSE <<Comma>>) \o text

LEMMA JoinedAppend ==
    ASSUME NEW C, Comma \in C, NEW texts \in Seq(Seq(C)), NEW s \in Seq(C)
    PROVE  /\ Joined(texts) \in Seq(C)
           /\ WithComma(Len(texts) + 1, s) \in Seq(C)
           /\ Joined(Append(texts, s)) = Joined(texts) \o WithComma(Len(texts) + 1, s)
<1> DEFINE more == Append(texts, s)
           f == [i \in DOMAIN texts |-> WithComma(i, texts[i])]
           g == [i \in DOMAIN more |-> WithComma(i, more[i])]
<1>1. /\ Len(texts) \in Nat /\ DOMAIN texts = 1..Len(texts) /\ DOMAIN more = 1..(Len(texts) + 1)
      /\ more[Len(texts) + 1] = s
      /\ \A i \in 1..Len(texts) : more[i] = texts[i] /\ texts[i] \in Seq(C)
  BY AppendProperties, LenProperties, ElementOfSeq
<1> HIDE DEF more
<1>2. \A i, u : u \in Seq(C) => WithComma(i, u) \in Seq(C)
  <2>1. <<Comma>> \in Seq(C) /\ <<>> \in Seq(C)
    OBVIOUS
  <2> QED BY <2>1, ConcatProperties DEF WithComma
<1>3. f \in [1..Len(texts) -> Seq(C)] /\ g \in [1..(Len(texts) + 1) -> Seq(C)]
  <2>1. \A i \in 1..(Len(texts) + 1) : i \in 1..Len(texts) \/ i = Len(texts) + 1
    BY <1>1
  <2>2. \A i \in 1..(Len(texts) + 1) : more[i] \in Seq(C)
    BY <1>1, <2>1
  <2> QED BY <1>1, <1>2, <2>2
<1>4. \A i \in 1..Len(texts) : g[i] = f[i]
  BY <1>1
<1>5. g[Len(texts) + 1] = WithComma(Len(texts) + 1, s)
  BY <1>1
<1>6. Joined(texts) = FlattenSeq(f) /\ Joined(more) = FlattenSeq(g)
  BY DEF Joined, WithComma
<1> HIDE DEF f, g
<1> DEFINE d == WithComma(Len(texts) + 1, s)
<1>7. f \in Seq(Seq(C)) /\ g = Append(f, d)
  <2> DEFINE n == Len(texts)
             T == Seq(C)
  <2>1. /\ n \in Nat /\ f \in [1..n -> T] /\ g \in [1..(n + 1) -> T]
        /\ \A i \in 1..n : g[i] = f[i]
    BY <1>1, <1>3, <1>4
  <2>2. g[n + 1] = d
    BY <1>5
  <2> HIDE DEF n, T, d
  <2>3. f \in Seq(T) /\ g = Append(f, g[n + 1])
    BY <2>1, LongerFunction
  <2> QED BY <2>2, <2>3 DEF T
<1>8. d \in Seq(C)
  BY <1>2
<1> HIDE DEF d
<1>9. FlattenSeq(f) \in Seq(C) /\ FlattenSeq(g) = FlattenSeq(f) \o d
  BY <1>7, <1>8, FlattenAppend, FlattenType
<1> QED BY <1>6, <1>8, <1>9 DEF more, d

(* A row grows by a comma and a field.                                      *)
Separated(i, field) == WithComma(i, EscapeCsvField(field))

LEMMA RowAppend ==
    ASSUME NEW C, Specials \subseteq C, NEW fields \in Seq(Seq(C)), NEW s \in Seq(C)
    PROVE  /\ SerializeCsvRow(fields) \in Seq(C)
           /\ Separated(Len(fields) + 1, s) \in Seq(C)
           /\ SerializeCsvRow(Append(fields, s))
                = SerializeCsvRow(fields) \o Separated(Len(fields) + 1, s)
<1> DEFINE more == Append(fields, s)
           f == [i \in DOMAIN fields |-> EscapeCsvField(fields[i])]
           g == [i \in DOMAIN more |-> EscapeCsvField(more[i])]
           n == Len(fields)
           T == Seq(C)
           d == EscapeCsvField(s)
<1>1. /\ n \in Nat /\ DOMAIN fields = 1..n /\ DOMAIN more = 1..(n + 1) /\ more[n + 1] = s
      /\ \A i \in 1..n : more[i] = fields[i] /\ fields[i] \in Seq(C)
  BY AppendProperties, LenProperties, ElementOfSeq
<1> HIDE DEF more
<1>2. \A u \in Seq(C) : EscapeCsvField(u) \in T
  BY EscapeType
<1>3. f \in [1..n -> T] /\ g \in [1..(n + 1) -> T]
  <2>1. \A i \in 1..(n + 1) : i \in 1..n \/ i = n + 1
    BY <1>1
  <2>2. \A i \in 1..(n + 1) : more[i] \in Seq(C)
    BY <1>1, <2>1
  <2> QED BY <1>1, <1>2, <2>2
<1>4. /\ \A i \in 1..n : g[i] = f[i]
      /\ g[n + 1] = d
  BY <1>1
<1>5. SerializeCsvRow(fields) = Joined(f) /\ SerializeCsvRow(more) = Joined(g)
  BY DEF SerializeCsvRow
<1>6. d \in T
  BY <1>2
<1>7. f \in Seq(T) /\ Len(f) = n /\ g = Append(f, d)
  <2> HIDE DEF f, g, n, T, d
  <2>1. f \in Seq(T) /\ Len(f) = n /\ g = Append(f, g[n + 1])
    BY <1>1, <1>3, <1>4, LongerFunction
  <2> QED BY <1>4, <2>1
<1>8. Separated(n + 1, s) = WithComma(Len(f) + 1, d)
  BY <1>7 DEF Separated
<1> HIDE DEF f, g, d, n
<1>9. /\ Joined(f) \in Seq(C) /\ WithComma(Len(f) + 1, d) \in Seq(C)
      /\ Joined(g) = Joined(f) \o WithComma(Len(f) + 1, d)
  <2>1. Comma \in C
    BY DEF Specials
  <2> QED BY <1>6, <1>7, <2>1, JoinedAppend
<1> QED BY <1>5, <1>8, <1>9 DEF more, n

LEMMA EmptyRow == Joined(<<>>) = <<>> /\ SerializeCsvRow(<<>>) = <<>>
<1>1. [i \in DOMAIN <<>> |-> (IF i = 1 THEN <<>> ELSE <<Comma>>) \o <<>>[i]] = <<>>
  OBVIOUS
<1>2. [i \in DOMAIN <<>> |-> EscapeCsvField(<<>>[i])] = <<>>
  OBVIOUS
<1>3. Joined(<<>>) = <<>>
  BY <1>1, FlattenEmpty DEF Joined
<1> QED BY <1>2, <1>3 DEF SerializeCsvRow

-----------------------------------------------------------------------------
(* The parser at the start of a line.                                       *)
AtLine(rows) == [rows |-> rows, row |-> <<>>, field |-> <<>>, mode |-> "start"]

(* The parser after the last field of a row and before what ends it.        *)
InRow(p, rows, fields, C) ==
    /\ p \in Parsing(C) /\ p.mode # "quoted"
    /\ p.rows = rows
    /\ Append(p.row, p.field) = fields

(* The parser after a comma.                                                *)
BetweenFields(rows, fields) ==
    [rows |-> rows, row |-> fields, field |-> <<>>, mode |-> "start"]

(* A comma takes the parser to the next field, the end of the line to the next row. *)
LEMMA EndsInRow ==
    ASSUME NEW C, NEW p, NEW rows, NEW fields, InRow(p, rows, fields, C)
    PROVE  /\ EndField(p) = BetweenFields(rows, fields)
           /\ EndRecord(p) = AtLine(Append(rows, fields))
<1>1. EndField(p) = BetweenFields(rows, fields)
  BY DEF EndField, BetweenFields, InRow
<1>2. EndField(p).row = fields /\ p.rows = rows
  BY <1>1 DEF BetweenFields, InRow
<1> QED BY <1>1, <1>2 DEF EndRecord, StartOfText, AtLine

(* A row is read back field by field, up to the end of its line.            *)
LEMMA ReadRow ==
    ASSUME NEW parser, NEW C, Specials \subseteq C, NEW rows \in Seq(Seq(Seq(C))),
           NEW fields \in Seq(Seq(C)), fields # <<>>
    PROVE  InRow(Read(parser, AtLine(rows), SerializeCsvRow(fields)), rows, fields, C)
<1> DEFINE p == AtLine(rows)
           S == {u \in Seq(Seq(C)) :
                   u # <<>> => InRow(Read(parser, p, SerializeCsvRow(u)), rows, u, C)}
<1>0. p \in Parsing(C) /\ p.mode = "start" /\ p.field = <<>> /\ p.row = <<>> /\ p.rows = rows
  BY DEF AtLine, Parsing, Modes
<1>1. <<>> \in S
  BY EmptySeq
<1>2. ASSUME NEW u \in Seq(Seq(C)), NEW f \in Seq(C), u \in S PROVE Append(u, f) \in S
  <2> DEFINE v == Append(u, f)
             text == EscapeCsvField(f)
  <2>1. v \in Seq(Seq(C)) /\ text \in Seq(C)
    BY AppendProperties, EscapeType
  <2>2. InRow(Read(parser, p, SerializeCsvRow(v)), rows, v, C)
    <3>1. /\ SerializeCsvRow(u) \in Seq(C) /\ Separated(Len(u) + 1, f) \in Seq(C)
          /\ SerializeCsvRow(v) = SerializeCsvRow(u) \o Separated(Len(u) + 1, f)
      BY RowAppend
    <3>2. Read(parser, p, SerializeCsvRow(v))
            = Read(parser, Read(parser, p, SerializeCsvRow(u)), Separated(Len(u) + 1, f))
      <4> HIDE DEF p, v
      <4> QED BY <3>1, ReadConcat
    <3>3. CASE u = <<>>
      <4>1. Len(u) + 1 = 1
        BY <3>3
      <4>2. Separated(Len(u) + 1, f) = text
        BY <2>1, <4>1, ConcatEmptySeq DEF Separated, WithComma
      <4>3. Read(parser, p, SerializeCsvRow(u)) = p
        BY <3>3, EmptyRow, ReadEmpty
      <4>4. PICK m \in {"start", "plain", "closing"} : Read(parser, p, text) = InField(p, f, m)
        <5> HIDE DEF p
        <5> QED BY <1>0, ReadField
      <4>5. InRow(InField(p, f, m), rows, v, C)
        BY <1>0, <3>3 DEF InRow, InField, Parsing, Modes
      <4> HIDE DEF p, v, text
      <4> QED BY <3>2, <4>2, <4>3, <4>4, <4>5
    <3>4. CASE u # <<>>
      <4> DEFINE q == Read(parser, p, SerializeCsvRow(u))
                 e == BetweenFields(rows, u)
                 comma == <<Comma>>
      <4>1. InRow(q, rows, u, C)
        BY <1>2, <3>4
      <4>2. Len(u) + 1 # 1
        BY <3>4, EmptySeq
      <4>3. Separated(Len(u) + 1, f) = comma \o text
        BY <4>2 DEF Separated, WithComma
      <4>4. comma \in Seq(C) /\ Comma \in C
        BY DEF Specials
      <4>5. e \in Parsing(C) /\ e.mode = "start" /\ e.field = <<>>
        BY DEF BetweenFields, Parsing, Modes
      <4> HIDE DEF q, p, text
      <4>6. EndField(q) = e
        BY <4>1, EndsInRow
      <4>7. Read(parser, q, comma) = e
        BY <4>1, <4>4, <4>6, ReadOne, ParserEnds DEF InRow
      <4> HIDE DEF comma
      <4>8. Read(parser, q, comma \o text) = Read(parser, e, text)
        BY <2>1, <4>4, <4>7, ReadConcat
      <4>9. PICK m \in {"start", "plain", "closing"} : Read(parser, e, text) = InField(e, f, m)
        <5> HIDE DEF e
        <5> QED BY <4>5, ReadField DEF text
      <4>10. InRow(InField(e, f, m), rows, v, C)
        BY DEF InRow, InField, BetweenFields, Parsing, Modes
      <4> HIDE DEF e, v
      <4> QED BY <3>2, <4>3, <4>8, <4>9, <4>10 DEF q
    <3> QED BY <3>3, <3>4
  <2> QED BY <2>1, <2>2
<1>3. Seq(Seq(C)) \subseteq S
  <2> HIDE DEF S
  <2> QED BY <1>1, <1>2, SeqSetInduction
<1> QED BY <1>3

(* A line of the file, and that it is read back as a row.                   *)
LineOf(row) == SerializeCsvRow(row) \o <<LF>>

LEMMA LineType ==
    ASSUME NEW C, Specials \subseteq C, NEW row \in Seq(Seq(C))
    PROVE  SerializeCsvRow(row) \in Seq(C) /\ LineOf(row) \in Seq(C)
<1>1. <<LF>> \in Seq(C) /\ <<>> \in Seq(C)
  BY DEF Specials
<1>2. SerializeCsvRow(row) \in Seq(C)
  BY <1>1, RowAppend
<1> QED BY <1>1, <1>2, ConcatProperties DEF LineOf

LEMMA ReadLine ==
    ASSUME NEW parser, NEW C, Specials \subseteq C, NEW rows \in Seq(Seq(Seq(C))),
           NEW row \in Seq(Seq(C)), row # <<>>
    PROVE  Read(parser, AtLine(rows), LineOf(row)) = AtLine(Append(rows, row))
<1> DEFINE p == AtLine(rows)
           text == SerializeCsvRow(row)
           lf == <<LF>>
           q == Read(parser, p, text)
<1>1. InRow(q, rows, row, C)
  BY ReadRow
<1>2. text \in Seq(C) /\ lf \in Seq(C) /\ LF \in C
  BY LineType DEF Specials
<1> HIDE DEF q
<1>3. EndRecord(q) = AtLine(Append(rows, row))
  BY <1>1, EndsInRow
<1>4. Read(parser, q, lf) = EndRecord(q)
  <2>1. q \in Parsing(C) /\ q.mode # "quoted"
    BY <1>1 DEF InRow
  <2>2. NextChar(parser, q, LF) = EndRecord(q)
    BY <2>1, ParserEnds
  <2> QED BY <1>2, <2>2, ReadOne
<1> HIDE DEF p, text, lf
<1>5. Read(parser, p, text \o lf) = Read(parser, q, lf)
  BY <1>2, ReadConcat DEF q
<1> QED BY <1>3, <1>4, <1>5 DEF p, text, lf, LineOf

(* A chunk grows by a line.                                                 *)
LEMMA ChunkAppend ==
    ASSUME NEW C, Specials \subseteq C, NEW rows \in Seq(Seq(Seq(C))), NEW row \in Seq(Seq(C))
    PROVE  /\ SerializeCsvChunk(rows) \in Seq(C)
           /\ SerializeCsvChunk(Append(rows, row)) = SerializeCsvChunk(rows) \o LineOf(row)
<1> DEFINE more == Append(rows, row)
           f == [i \in DOMAIN rows |-> LineOf(rows[i])]
           g == [i \in DOMAIN more |-> LineOf(more[i])]
<1>1. /\ Len(rows) \in Nat /\ DOMAIN rows = 1..Len(rows) /\ DOMAIN more = 1..(Len(rows) + 1)
      /\ more[Len(rows) + 1] = row
      /\ \A i \in 1..Len(rows) : more[i] = rows[i] /\ rows[i] \in Seq(Seq(C))
  BY AppendProperties, LenProperties, ElementOfSeq
<1> HIDE DEF more
<1>2. \A r \in Seq(Seq(C)) : LineOf(r) \in Seq(C)
  BY LineType
<1>3. f \in [1..Len(rows) -> Seq(C)] /\ g \in [1..(Len(rows) + 1) -> Seq(C)]
  <2>1. \A i \in 1..(Len(rows) + 1) : i \in 1..Len(rows) \/ i = Len(rows) + 1
    BY <1>1
  <2>2. \A i \in 1..(Len(rows) + 1) : more[i] \in Seq(Seq(C))
    BY <1>1, <2>1
  <2> QED BY <1>1, <1>2, <2>2
<1>4. \A i \in 1..Len(rows) : g[i] = f[i]
  BY <1>1
<1>5. g[Len(rows) + 1] = LineOf(row)
  BY <1>1
<1>6. SerializeCsvChunk(rows) = FlattenSeq(f) /\ SerializeCsvChunk(more) = FlattenSeq(g)
  BY DEF SerializeCsvChunk, LineOf
<1> HIDE DEF f, g
<1>7. f \in Seq(Seq(C)) /\ g = Append(f, LineOf(row))
  <2> DEFINE n == Len(rows)
             T == Seq(C)
  <2>1. /\ n \in Nat /\ f \in [1..n -> T] /\ g \in [1..(n + 1) -> T]
        /\ \A i \in 1..n : g[i] = f[i]
    BY <1>1, <1>3, <1>4
  <2>2. g[n + 1] = LineOf(row)
    BY <1>5
  <2> HIDE DEF n, T
  <2>3. f \in Seq(T) /\ g = Append(f, g[n + 1])
    BY <2>1, LongerFunction
  <2> QED BY <2>2, <2>3 DEF T
<1> DEFINE d == LineOf(row)
<1>8. d \in Seq(C) /\ g = Append(f, d)
  BY <1>2, <1>7
<1> HIDE DEF d
<1>9. FlattenSeq(f) \in Seq(C) /\ FlattenSeq(g) = FlattenSeq(f) \o d
  BY <1>7, <1>8, FlattenAppend, FlattenType
<1> QED BY <1>6, <1>9 DEF more, d

LEMMA ChunkType ==
    ASSUME NEW C, Specials \subseteq C, NEW rows \in Seq(Seq(Seq(C)))
    PROVE  SerializeCsvChunk(rows) \in Seq(C)
<1>1. <<>> \in Seq(Seq(C))
  BY EmptySeq
<1> QED BY <1>1, ChunkAppend

LEMMA ChunkEmpty == SerializeCsvChunk(<<>>) = <<>>
<1>1. [i \in DOMAIN <<>> |-> LineOf(<<>>[i])] = <<>>
  OBVIOUS
<1> QED BY <1>1, FlattenEmpty DEF SerializeCsvChunk, LineOf

(* The rows of a chunk are added to the rows before it.                     *)
LEMMA ReadChunk ==
    ASSUME NEW parser, NEW C, Specials \subseteq C, NEW before \in Seq(Seq(Seq(C))),
           NEW rows \in Seq(Seq(Seq(C)) \ {<<>>})
    PROVE  Read(parser, AtLine(before), SerializeCsvChunk(rows)) = AtLine(before \o rows)
<1> DEFINE Row == Seq(Seq(C)) \ {<<>>}
           p == AtLine(before)
           S == {u \in Seq(Row) : Read(parser, p, SerializeCsvChunk(u)) = AtLine(before \o u)}
<1>1. <<>> \in S
  <2>1. before \o <<>> = before
    BY ConcatEmptySeq
  <2> QED BY <2>1, ChunkEmpty, ReadEmpty, EmptySeq
<1>2. ASSUME NEW u \in Seq(Row), NEW r \in Row, u \in S PROVE Append(u, r) \in S
  <2> DEFINE v == Append(u, r)
             chunk == SerializeCsvChunk(u)
             line == LineOf(r)
  <2>1. u \in Seq(Seq(Seq(C)))
    BY SeqMonotonic
  <2>2. chunk \in Seq(C) /\ line \in Seq(C) /\ SerializeCsvChunk(v) = chunk \o line
    BY <2>1, ChunkAppend, LineType
  <2>3. v \in Seq(Row)
    BY AppendProperties
  <2>4. before \o u \in Seq(Seq(Seq(C))) /\ before \o v = Append(before \o u, r)
    <3> DEFINE T == Seq(Seq(C))
    <3>1. u \in Seq(T) /\ before \in Seq(T) /\ r \in T
      BY <2>1
    <3> HIDE DEF T
    <3>2. before \o u \in Seq(T)
      BY <3>1, ConcatProperties
    <3>3. \A y \in Seq(T), c \in T : before \o Append(y, c) = Append(before \o y, c)
      BY <3>1, ConcatAppend
    <3>4. before \o Append(u, r) = Append(before \o u, r)
      BY <3>1, <3>3
    <3> QED BY <3>2, <3>4 DEF T
  <2>5. Read(parser, p, chunk) = AtLine(before \o u)
    BY <1>2
  <2>6. Read(parser, AtLine(before \o u), line) = AtLine(before \o v)
    <3> DEFINE w == before \o u
    <3> HIDE DEF w
    <3>1. Read(parser, AtLine(w), LineOf(r)) = AtLine(Append(w, r))
      <4>1. w \in Seq(Seq(Seq(C)))
        BY <2>4 DEF w
      <4> QED BY <4>1, ReadLine
    <3> QED BY <2>4, <3>1 DEF w
  <2> HIDE DEF p, chunk, line, v
  <2>7. Read(parser, p, chunk \o line) = Read(parser, Read(parser, p, chunk), line)
    BY <2>2, ReadConcat
  <2> QED BY <2>2, <2>3, <2>5, <2>6, <2>7 DEF v
<1>3. Seq(Row) \subseteq S
  <2> HIDE DEF S, Row
  <2> QED BY <1>1, <1>2, SeqSetInduction
<1> QED BY <1>3

(* Column names need no escaping: the header line is what serializeCsvRow would *)
(* make of it.                                                              *)
LEMMA ColumnsAreRow ==
    ASSUME NEW C, NEW columns \in Seq(Seq(C \ Specials))
    PROVE  SerializeCsvRow(columns) = Joined(columns)
<1>1. \A i \in DOMAIN columns : EscapeCsvField(columns[i]) = columns[i]
  <2>1. SUFFICES ASSUME NEW i \in DOMAIN columns
                 PROVE  EscapeCsvField(columns[i]) = columns[i]
    OBVIOUS
  <2> DEFINE s == columns[i]
  <2>2. s \in Seq(C \ Specials)
    BY <2>1, LenProperties, ElementOfSeq
  <2>3. \A j \in DOMAIN s : s[j] \notin Specials
    BY <2>2, LenProperties, ElementOfSeq
  <2>4. ToSet(s) \cap {Quote, Comma, CR, LF} = {}
    BY <2>3 DEF ToSet, Specials
  <2> QED BY <2>4 DEF EscapeCsvField
<1>2. [i \in DOMAIN columns |-> EscapeCsvField(columns[i])] = columns
  <2>1. columns = [i \in DOMAIN columns |-> columns[i]]
    BY LenProperties
  <2> QED BY <1>1, <2>1
<1> QED BY <1>2 DEF SerializeCsvRow

LEMMA HeaderIsLine ==
    ASSUME NEW C, NEW columns \in Seq(Seq(C \ Specials))
    PROVE  CsvHeader(columns) = LineOf(columns)
BY ColumnsAreRow DEF CsvHeader, LineOf

-----------------------------------------------------------------------------
(* The script compares the fields of the header joined: with as many fields as *)
(* columns that is as good as a comparison field by field, although a field may *)
(* hold a comma.  In a text without quotes and ends of lines, a parser adds a *)
(* field to the row for every comma, and reads none without a comma.        *)
Unquoted(C) == (C \ Specials) \cup {Comma}

Further(p, q, s, C) ==
    /\ q \in Parsing(C) /\ q.mode \in {"start", "plain"}
    /\ Len(p.row) <= Len(q.row)
    /\ Len(p.row) = Len(q.row) => q.row = p.row /\ q.field = p.field \o s

LEMMA ReadUnquoted ==
    ASSUME NEW parser, NEW C, Specials \subseteq C, NEW s \in Seq(Unquoted(C)),
           NEW p \in Parsing(C), p.mode \in {"start", "plain"}
    PROVE  Further(p, Read(parser, p, s), s, C)
<1> DEFINE S == {u \in Seq(Unquoted(C)) : Further(p, Read(parser, p, u), u, C)}
<1>1. <<>> \in S
  <2>1. p.field \o <<>> = p.field /\ p.field \in Seq(C) /\ Len(p.row) \in Nat
    BY ConcatEmptySeq DEF Parsing
  <2> QED BY <2>1, ReadEmpty, EmptySeq DEF Further
<1>2. ASSUME NEW u \in Seq(Unquoted(C)), NEW c \in Unquoted(C), u \in S PROVE Append(u, c) \in S
  <2> DEFINE v == Append(u, c)
             q == Read(parser, p, u)
  <2>1. v \in Seq(Unquoted(C)) /\ Read(parser, p, v) = NextChar(parser, q, c)
    BY ReadAppend
  <2>2. Further(p, q, u, C)
    BY <1>2
  <2>3. u \in Seq(C) /\ c \in C
    BY SeqMonotonic DEF Unquoted, Specials
  <2> HIDE DEF q
  <2>4. /\ q \in Parsing(C) /\ q.mode \in {"start", "plain"} /\ q.mode # "quoted"
        /\ q.row \in Seq(Seq(C)) /\ q.field \in Seq(C) /\ q.rows \in Seq(Seq(Seq(C)))
        /\ Len(q.row) \in Nat /\ Len(p.row) \in Nat /\ p.field \in Seq(C)
    BY <2>2 DEF Further, Parsing
  <2>5. CASE c = Comma
    <3>1. NextChar(parser, q, c) = EndField(q)
      BY <2>4, <2>5, ParserEnds
    <3>2. EndField(q) \in Parsing(C) /\ EndField(q).mode = "start"
          /\ EndField(q).row = Append(q.row, q.field)
      BY <2>4 DEF EndField, Parsing, Modes
    <3>3. Len(Append(q.row, q.field)) = Len(q.row) + 1
      BY <2>4
    <3>4. Further(p, EndField(q), v, C)
      <4> HIDE DEF v
      <4> QED BY <2>2, <2>4, <3>2, <3>3 DEF Further
    <3> QED BY <2>1, <3>1, <3>4
  <2>6. CASE c # Comma
    <3> DEFINE k == Keep(q, c, "plain")
    <3>1. NextChar(parser, q, c) = k
      BY <2>4, <2>6, ParserKeeps DEF Unquoted
    <3>2. k.mode = "plain" /\ k.row = q.row /\ k.field = Append(q.field, c)
      BY <2>4 DEF Keep, Parsing
    <3>a. k \in Parsing(C)
      <4> DEFINE g == Append(q.field, c)
      <4>1. g \in Seq(C) /\ "plain" \in Modes
        BY <2>3, <2>4, AppendProperties DEF Modes
      <4>2. k = [q EXCEPT !.field = g, !.mode = "plain"]
        BY DEF Keep
      <4> HIDE DEF g, k
      <4> QED BY <2>4, <4>1, <4>2 DEF Parsing
    <3>3. p.field \o v = Append(p.field \o u, c)
      <4> DEFINE g == p.field
      <4>1. g \in Seq(C)
        BY <2>4
      <4> HIDE DEF g
      <4>2. g \o Append(u, c) = Append(g \o u, c)
        BY <2>3, <4>1, ConcatAppend
      <4> QED BY <4>2 DEF g
    <3>4. Further(p, k, v, C)
      <4> HIDE DEF v, k
      <4> QED BY <2>2, <2>4, <3>2, <3>a, <3>3 DEF Further
    <3> QED BY <2>1, <3>1, <3>4
  <2> QED BY <2>5, <2>6
<1>3. Seq(Unquoted(C)) \subseteq S
  <2> HIDE DEF S
  <2> QED BY <1>1, <1>2, SeqSetInduction
<1> QED BY <1>3

(* So a parser reads at least as many fields as were joined, and when it reads *)
(* no more, it reads those.                                                 *)
AtLeast(q, fields, C) ==
    /\ q \in Parsing(C) /\ q.mode \in {"start", "plain"}
    /\ Len(fields) <= Len(q.row) + 1
    /\ Len(fields) = Len(q.row) + 1 => Append(q.row, q.field) = fields

LEMMA ReadJoined ==
    ASSUME NEW parser, NEW C, Specials \subseteq C,
           NEW fields \in Seq(Seq(Unquoted(C))), fields # <<>>
    PROVE  AtLeast(Read(parser, StartOfText, Joined(fields)), fields, C)
<1> DEFINE p == StartOfText
           S == {u \in Seq(Seq(Unquoted(C))) :
                   u # <<>> => AtLeast(Read(parser, p, Joined(u)), u, C)}
<1>0. /\ p \in Parsing(C) /\ p.mode = "start" /\ p.field = <<>> /\ p.row = <<>>
      /\ Comma \in C /\ Unquoted(C) \subseteq C
  BY DEF StartOfText, Parsing, Modes, Specials, Unquoted
<1>a. Seq(Unquoted(C)) \subseteq Seq(C) /\ Seq(Seq(Unquoted(C))) \subseteq Seq(Seq(C))
  BY <1>0, SeqMonotonic
<1>1. <<>> \in S
  BY EmptySeq
<1>2. ASSUME NEW u \in Seq(Seq(Unquoted(C))), NEW f \in Seq(Unquoted(C)), u \in S
      PROVE  Append(u, f) \in S
  <2> DEFINE v == Append(u, f)
  <2>1. v \in Seq(Seq(Unquoted(C)))
    BY AppendProperties
  <2>a. Len(v) = Len(u) + 1 /\ Len(u) \in Nat
    BY AppendProperties
  <2>2. AtLeast(Read(parser, p, Joined(v)), v, C)
    <3>1. /\ Joined(u) \in Seq(C) /\ WithComma(Len(u) + 1, f) \in Seq(C)
          /\ Joined(v) = Joined(u) \o WithComma(Len(u) + 1, f)
      BY <1>0, <1>a, JoinedAppend
    <3>2. Read(parser, p, Joined(v))
            = Read(parser, Read(parser, p, Joined(u)), WithComma(Len(u) + 1, f))
      <4> HIDE DEF p, v
      <4> QED BY <3>1, ReadConcat
    <3>3. CASE u = <<>>
      <4> DEFINE q == Read(parser, p, f)
      <4>1. Len(u) = 0 /\ Len(u) + 1 = 1
        BY <3>3
      <4>2. WithComma(Len(u) + 1, f) = f
        BY <4>1, ConcatEmptySeq DEF WithComma
      <4>3. Read(parser, p, Joined(u)) = p
        BY <3>3, EmptyRow, ReadEmpty
      <4>4. Further(p, q, f, C)
        BY <1>0, ReadUnquoted
      <4>5. p.field \o f = f
        BY <1>0, ConcatEmptySeq
      <4> HIDE DEF q
      <4>6. q \in Parsing(C) /\ q.mode \in {"start", "plain"} /\ Len(q.row) \in Nat
        BY <4>4 DEF Further, Parsing
      <4>7. Len(v) = Len(q.row) + 1 => Append(q.row, q.field) = v
        <5>1. SUFFICES ASSUME Len(v) = Len(q.row) + 1 PROVE Append(q.row, q.field) = v
          OBVIOUS
        <5>2. Len(p.row) = 0 /\ Len(q.row) = 0
          BY <1>0, <2>a, <4>1, <4>6, <5>1
        <5>3. q.row = u /\ q.field = f
          BY <1>0, <3>3, <4>4, <4>5, <5>2 DEF Further
        <5> QED BY <5>3
      <4>8. AtLeast(q, v, C)
        <5> HIDE DEF v
        <5> QED BY <2>a, <4>1, <4>6, <4>7 DEF AtLeast
      <4> HIDE DEF p, v
      <4> QED BY <3>2, <4>2, <4>3, <4>8 DEF q
    <3>4. CASE u # <<>>
      <4> DEFINE q == Read(parser, p, Joined(u))
                 e == EndField(q)
                 comma == <<Comma>>
                 r == Read(parser, e, f)
      <4>1. AtLeast(q, u, C)
        BY <1>2, <3>4
      <4>2. Len(u) + 1 # 1
        BY <3>4, EmptySeq
      <4>3. WithComma(Len(u) + 1, f) = comma \o f
        BY <4>2 DEF WithComma
      <4>4. comma \in Seq(C) /\ f \in Seq(C)
        BY <1>0, <1>a
      <4> HIDE DEF q, p
      <4>5. /\ q \in Parsing(C) /\ q.mode # "quoted" /\ Len(q.row) \in Nat
            /\ Len(u) <= Len(q.row) + 1
            /\ Len(u) = Len(q.row) + 1 => Append(q.row, q.field) = u
        BY <4>1 DEF AtLeast, Parsing
      <4>6. /\ e \in Parsing(C) /\ e.mode = "start" /\ e.field = <<>>
            /\ e.row = Append(q.row, q.field) /\ Len(e.row) = Len(q.row) + 1
        BY <4>5 DEF EndField, Parsing, Modes
      <4> HIDE DEF e
      <4>7. Read(parser, q, comma) = e
        BY <1>0, <4>5, ReadOne, ParserEnds DEF e
      <4> HIDE DEF comma
      <4>8. Read(parser, q, comma \o f) = r
        BY <4>4, <4>7, ReadConcat
      <4>9. Further(e, r, f, C)
        BY <4>6, ReadUnquoted
      <4>10. e.field \o f = f
        BY <4>6, ConcatEmptySeq
      <4> HIDE DEF r
      <4>11. r \in Parsing(C) /\ r.mode \in {"start", "plain"} /\ Len(r.row) \in Nat
             /\ Len(q.row) + 1 <= Len(r.row)
        BY <4>6, <4>9 DEF Further, Parsing
      <4>12. Len(v) = Len(r.row) + 1 => Append(r.row, r.field) = v
        <5>1. SUFFICES ASSUME Len(v) = Len(r.row) + 1 PROVE Append(r.row, r.field) = v
          OBVIOUS
        <5>2. Len(u) = Len(q.row) + 1 /\ Len(e.row) = Len(r.row)
          <6> HIDE DEF v
          <6> QED BY <2>a, <4>5, <4>6, <4>11, <5>1
        <5>3. r.row = u /\ r.field = f
          BY <4>5, <4>6, <4>9, <4>10, <5>2 DEF Further
        <5> QED BY <5>3
      <4>13. AtLeast(r, v, C)
        <5> HIDE DEF v
        <5> QED BY <2>a, <4>5, <4>11, <4>12 DEF AtLeast
      <4> HIDE DEF v
      <4> QED BY <3>2, <4>3, <4>8, <4>13 DEF q
    <3> QED BY <3>3, <3>4
  <2> QED BY <2>1, <2>2
<1>3. Seq(Seq(Unquoted(C))) \subseteq S
  <2> HIDE DEF S
  <2> QED BY <1>1, <1>2, SeqSetInduction
<1> QED BY <1>3

(* A concatenation has no other elements than its parts.                    *)
LEMMA ConcatElements ==
    ASSUME NEW C, NEW E, NEW s \in Seq(C), NEW t \in Seq(C), s \o t \in Seq(E)
    PROVE  s \in Seq(E) /\ t \in Seq(E)
<1> DEFINE w == s \o t
<1>1. /\ Len(s) \in Nat /\ Len(t) \in Nat /\ Len(w) = Len(s) + Len(t)
      /\ \A i \in 1..Len(s) : w[i] = s[i]
      /\ \A i \in 1..Len(t) : w[Len(s) + i] = t[i]
  BY ConcatProperties
<1>2. \A i \in 1..Len(w) : w[i] \in E
  BY ElementOfSeq
<1> HIDE DEF w
<1>3. (\A i \in 1..Len(s) : s[i] \in E) /\ (\A i \in 1..Len(t) : t[i] \in E)
  <2>1. \A i \in 1..Len(s) : i \in 1..Len(w)
    BY <1>1
  <2>2. \A i \in 1..Len(t) : Len(s) + i \in 1..Len(w)
    BY <1>1
  <2> QED BY <1>1, <1>2, <2>1, <2>2
<1>4. s \in [1..Len(s) -> E] /\ t \in [1..Len(t) -> E]
  BY <1>3, LenProperties
<1> QED BY <1>1, <1>4

(* A joined text without quotes comes from fields without quotes.           *)
LEMMA JoinedElements ==
    ASSUME NEW C, Comma \in C, NEW E, NEW fields \in Seq(Seq(C)), Joined(fields) \in Seq(E)
    PROVE  fields \in Seq(Seq(E))
<1> DEFINE S == {u \in Seq(Seq(C)) : Joined(u) \in Seq(E) => u \in Seq(Seq(E))}
<1>1. <<>> \in S
  BY EmptySeq
<1>2. ASSUME NEW u \in Seq(Seq(C)), NEW f \in Seq(C), u \in S PROVE Append(u, f) \in S
  <2> DEFINE v == Append(u, f)
             n == Len(u) + 1
  <2>1. SUFFICES ASSUME Joined(v) \in Seq(E) PROVE v \in Seq(Seq(E))
    BY AppendProperties
  <2>2. /\ Joined(u) \in Seq(C) /\ WithComma(n, f) \in Seq(C)
        /\ Joined(v) = Joined(u) \o WithComma(n, f)
    BY JoinedAppend
  <2> HIDE DEF n, v
  <2>3. Joined(u) \in Seq(E) /\ WithComma(n, f) \in Seq(E)
    BY <2>1, <2>2, ConcatElements
  <2>4. f \in Seq(E)
    <3>1. CASE n = 1
      BY <2>3, <3>1, ConcatEmptySeq DEF WithComma
    <3>2. CASE n # 1
      <4> DEFINE comma == <<Comma>>
      <4>1. comma \in Seq(C) /\ WithComma(n, f) = comma \o f
        BY <3>2 DEF WithComma
      <4> HIDE DEF comma
      <4> QED BY <2>3, <4>1, ConcatElements
    <3> QED BY <3>1, <3>2
  <2>5. u \in Seq(Seq(E))
    BY <1>2, <2>3
  <2> QED BY <2>4, <2>5, AppendProperties DEF v
<1>3. Seq(Seq(C)) \subseteq S
  <2> HIDE DEF S
  <2> QED BY <1>1, <1>2, SeqSetInduction
<1> QED BY <1>3

LEMMA JoinedIsEnough ==
    ASSUME NEW C, Specials \subseteq C, NEW fields \in Seq(Seq(C)),
           NEW columns \in Seq(Seq(C \ Specials)),
           Len(fields) = Len(columns), Joined(fields) = Joined(columns)
    PROVE  fields = columns
<1>1. CASE columns = <<>>
  BY <1>1, EmptySeq
<1>2. CASE columns # <<>>
  <2> DEFINE q == Read("script", StartOfText, Joined(columns))
             none == <<>>
  <2>1. /\ C \ Specials \subseteq Unquoted(C) /\ C \ Specials \subseteq C
        /\ Comma \in C /\ Comma \in Unquoted(C)
    BY DEF Unquoted, Specials
  <2>2. columns \in Seq(Seq(Unquoted(C))) /\ columns \in Seq(Seq(C))
    <3>1. Seq(C \ Specials) \subseteq Seq(Unquoted(C)) /\ Seq(C \ Specials) \subseteq Seq(C)
      BY <2>1, SeqMonotonic
    <3> QED BY <3>1, SeqMonotonic
  <2>3. Joined(columns) \in Seq(Unquoted(C))
    <3>1. <<>> \in Seq(Unquoted(C))
      OBVIOUS
    <3> QED BY <2>1, <2>2, <3>1, JoinedAppend
  <2>4. fields \in Seq(Seq(Unquoted(C))) /\ fields # <<>>
    <3>1. fields \in Seq(Seq(Unquoted(C)))
      BY <2>1, <2>3, JoinedElements
    <3> QED BY <1>2, <3>1, EmptySeq
  <2>5. AtLeast(q, fields, C)
    BY <2>4, ReadJoined
  <2>6. InRow(q, none, columns, C)
    <3>1. StartOfText = AtLine(none) /\ none \in Seq(Seq(Seq(C)))
      BY DEF StartOfText, AtLine
    <3> HIDE DEF none
    <3>2. InRow(Read("script", AtLine(none), SerializeCsvRow(columns)), none, columns, C)
      BY <1>2, <2>2, <3>1, ReadRow
    <3> QED BY <3>1, <3>2, ColumnsAreRow
  <2> HIDE DEF q, none
  <2>7. Len(columns) = Len(q.row) + 1
    BY <2>6 DEF InRow, Parsing
  <2> QED BY <2>5, <2>6, <2>7 DEF AtLeast, InRow
<1> QED BY <1>1, <1>2

-----------------------------------------------------------------------------
(* Lines of at least one field: what serializeCsvChunk is given.            *)
Lines(C) == Seq(Seq(Seq(C)) \ {<<>>})

(* What is written is what is read, for both parsers and for every content of *)
(* every field: a file reads back as its header lines and rows, and the parser *)
(* ends at the start of a line.                                             *)
THEOREM WrittenIsRead ==
    ASSUME NEW parser, NEW C, Specials \subseteq C,
           NEW headers \in Lines(C \ Specials), NEW rows \in Lines(C)
    PROVE  /\ headers \o rows \in Lines(C)
           /\ Read(parser, StartOfText, CsvFile(headers, rows)) = AtLine(headers \o rows)
<1> DEFINE none == <<>>
           T == Seq(Seq(Seq(C)))
           head == SerializeCsvChunk(headers)
           body == SerializeCsvChunk(rows)
<1>1. headers \in Lines(C)
  <2>1. Seq(C \ Specials) \subseteq Seq(C)
    BY SeqMonotonic
  <2>2. Seq(Seq(C \ Specials)) \subseteq Seq(Seq(C))
    BY <2>1, SeqMonotonic
  <2>3. Seq(Seq(C \ Specials)) \ {<<>>} \subseteq Seq(Seq(C)) \ {<<>>}
    BY <2>2
  <2> QED BY <2>3, SeqMonotonic DEF Lines
<1>2. headers \in T /\ rows \in T /\ none \in T
  <2>1. Seq(Seq(C)) \ {<<>>} \subseteq Seq(Seq(C))
    OBVIOUS
  <2> QED BY <1>1, <2>1, SeqMonotonic DEF Lines
<1>3. headers \o rows \in Lines(C)
  BY <1>1, ConcatProperties DEF Lines
<1>4. FlattenSeq([i \in DOMAIN headers |-> CsvHeader(headers[i])]) = head
  <2>1. \A i \in DOMAIN headers : CsvHeader(headers[i]) = LineOf(headers[i])
    <3>1. SUFFICES ASSUME NEW i \in DOMAIN headers
                   PROVE  CsvHeader(headers[i]) = LineOf(headers[i])
      OBVIOUS
    <3>2. headers[i] \in Seq(Seq(C \ Specials))
      BY <3>1, LenProperties, ElementOfSeq DEF Lines
    <3> QED BY <3>2, HeaderIsLine
  <2> QED BY <2>1 DEF SerializeCsvChunk, LineOf
<1>5. head \in Seq(C) /\ body \in Seq(C)
  BY <1>2, ChunkType
<1>6. Read(parser, AtLine(none), head) = AtLine(headers)
  <2>1. none \o headers = headers
    BY <1>2, ConcatEmptySeq
  <2> HIDE DEF none, head
  <2> QED BY <1>1, <1>2, <2>1, ReadChunk DEF Lines, head
<1>7. Read(parser, AtLine(headers), body) = AtLine(headers \o rows)
  BY <1>2, ReadChunk DEF Lines
<1>8. Read(parser, AtLine(none), head \o body) = Read(parser, AtLine(headers), body)
  <2> HIDE DEF head, body, none
  <2> QED BY <1>5, <1>6, ReadConcat
<1>9. StartOfText = AtLine(none)
  BY DEF StartOfText, AtLine
<1> QED BY <1>3, <1>4, <1>7, <1>8, <1>9 DEF CsvFile

(* So both parsers return the rows that were written, and csv-parse refuses the *)
(* file only for rows of another width than the first.                      *)
COROLLARY WrittenIsParsed ==
    ASSUME NEW C, Specials \subseteq C,
           NEW headers \in Lines(C \ Specials), NEW rows \in Lines(C)
    PROVE  LET text == CsvFile(headers, rows)
               all  == headers \o rows
           IN  /\ ParseCsv(text) = all
               /\ CsvParse(text).rows = all
               /\ CsvParse(text).failed <=> \E i \in DOMAIN all : Len(all[i]) # Len(all[1])
<1> DEFINE text == CsvFile(headers, rows)
           all  == headers \o rows
<1>1. /\ Read("script", StartOfText, text) = AtLine(all)
      /\ Read("csv-parse", StartOfText, text) = AtLine(all)
  BY WrittenIsRead
<1> HIDE DEF all, text
<1>2. LastRecord(AtLine(all)) = AtLine(all) /\ AtLine(all).rows = all /\ AtLine(all).mode = "start"
  BY DEF LastRecord, AtLine
<1>3. ParseCsv(text) = all
  BY <1>1, <1>2 DEF ParseCsv
<1>4. CsvParse(text) = [rows |-> all, failed |-> \E i \in DOMAIN all : Len(all[i]) # Len(all[1])]
  BY <1>1, <1>2 DEF CsvParse
<1>5. /\ CsvParse(text).rows = all
      /\ CsvParse(text).failed <=> \E i \in DOMAIN all : Len(all[i]) # Len(all[1])
  BY <1>4
<1> QED BY <1>3, <1>5 DEF all, text
=============================================================================
