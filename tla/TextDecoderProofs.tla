-------------------------- MODULE TextDecoderProofs -------------------------
(* TextDecoder and TextEncoder for UTF-8 (src/src/encoding.js) against the *)
(* text of the standard in Utf8, for streams of any number of chunks,      *)
(* chunks of any length, and every choice of the constants. The decoder    *)
(* keeps five numbers between two calls; the invariant says which bytes of *)
(* the stream they stand for (Keeps), and that everything before these     *)
(* bytes has been returned, or is about to be (Follows).                   *)
(* For the other labels (src/src/encoding.rs), which the host decodes      *)
(* chunk by chunk, the second half has no state to speak of, but a history *)
(* of any length: the chunks' pieces against those of the whole (CutParts, *)
(* CleanParts), then one chunk more (StreamedAppend).                      *)
EXTENDS TextDecoder, SequenceTheorems, WellFoundedInduction, TLAPS

-----------------------------------------------------------------------------
(* Table 3-7 by the first byte: what IsCharacter and IsSubpart, which      *)
(* quantify over the rows of the table, say of a sequence of up to four    *)
(* bytes.                                                                  *)

Byte == 0..255

\* What the first byte of a sequence asks of the others: how many, and the
\* range of the second.
Need(byte) ==
    IF byte \in 194..223 THEN 1
    ELSE IF byte \in 224..239 THEN 2 ELSE IF byte \in 240..244 THEN 3 ELSE 0
Low(byte) == IF byte = 224 THEN 160 ELSE IF byte = 240 THEN 144 ELSE 128
High(byte) == IF byte = 237 THEN 159 ELSE IF byte = 244 THEN 143 ELSE 191

\* n bytes, the first four of which are a, b, c and d.
Are(w, n, a, b, c, d) ==
    /\ n = Len(w)
    /\ n >= 1 => a = w[1]
    /\ n >= 2 => b = w[2]
    /\ n >= 3 => c = w[3]
    /\ n >= 4 => d = w[4]

Sound(n, a, b, c, d) ==
    /\ n >= 1 => a \in 0..127 \cup 194..244
    /\ n >= 2 => b \in Low(a)..High(a)
    /\ n >= 3 => c \in 128..191
    /\ n >= 4 => d \in 128..191

\* The bytes begin a row of the table, or are one.
Row(w, A, B, C, D) ==
    /\ Len(w) >= 1 => w[1] \in A
    /\ Len(w) >= 2 => w[2] \in B
    /\ Len(w) >= 3 => w[3] \in C
    /\ Len(w) >= 4 => w[4] \in D

\* The first four bytes of a sequence, as numbers.
LEMMA FirstFour ==
    ASSUME NEW w \in Seq(Byte)
    PROVE  \E n, a, b, c, d \in Nat : Are(w, n, a, b, c, d)
<1> DEFINE Or0(i) == IF i \in 1..Len(w) THEN w[i] ELSE 0
<1>1. \A i \in Nat : Or0(i) \in Nat
  <2>1. Byte \subseteq Nat
    BY DEF Byte
  <2>2. \A i \in 1..Len(w) : w[i] \in Byte
    OBVIOUS
  <2>3. QED BY <2>1, <2>2
<1>2. Are(w, Len(w), Or0(1), Or0(2), Or0(3), Or0(4))
  BY DEF Are
<1> HIDE DEF Or0
<1>3. Len(w) \in Nat
  OBVIOUS
<1>4. QED BY <1>1, <1>2, <1>3

\* A row of the table of one byte.
LEMMA Along1 ==
    ASSUME NEW w \in Seq(Byte), NEW A, NEW B, NEW C, NEW D
    PROVE  Along(<<A>>, w) <=> Len(w) <= 1 /\ Row(w, A, B, C, D)
BY DEF Along, Row

\* A row of two bytes.
LEMMA Along2 ==
    ASSUME NEW w \in Seq(Byte), NEW A, NEW B, NEW C, NEW D
    PROVE  Along(<<A, B>>, w) <=> Len(w) <= 2 /\ Row(w, A, B, C, D)
BY DEF Along, Row

\* A row of three bytes.
LEMMA Along3 ==
    ASSUME NEW w \in Seq(Byte), NEW A, NEW B, NEW C, NEW D
    PROVE  Along(<<A, B, C>>, w) <=> Len(w) <= 3 /\ Row(w, A, B, C, D)
BY DEF Along, Row

\* A row of four bytes.
LEMMA Along4 ==
    ASSUME NEW w \in Seq(Byte), NEW A, NEW B, NEW C, NEW D
    PROVE  Along(<<A, B, C, D>>, w) <=> Len(w) <= 4 /\ Row(w, A, B, C, D)
BY DEF Along, Row

\* Table 3-7 by the first byte.
LEMMA Table ==
    ASSUME NEW w \in Seq(Byte), NEW n \in Nat, NEW a \in Nat, NEW b \in Nat, NEW c \in Nat,
             NEW d \in Nat,
           Are(w, n, a, b, c, d)
    PROVE  /\ IsCharacter(w) <=> n >= 1 /\ Sound(n, a, b, c, d) /\ n = 1 + Need(a)
           /\ IsSubpart(w) <=> n = 0 \/ (Sound(n, a, b, c, d) /\ n < 1 + Need(a))
<1> DEFINE P1 == Along(<<0..127>>, w)
           P2 == Along(<<194..223, Trailing>>, w)
           P3 == Along(<<{224}, 160..191, Trailing>>, w)
           P4 == Along(<<225..236, Trailing, Trailing>>, w)
           P5 == Along(<<{237}, 128..159, Trailing>>, w)
           P6 == Along(<<238..239, Trailing, Trailing>>, w)
           P7 == Along(<<{240}, 144..191, Trailing, Trailing>>, w)
           P8 == Along(<<241..243, Trailing, Trailing, Trailing>>, w)
           P9 == Along(<<{244}, 128..143, Trailing, Trailing>>, w)
<1>1. n = Len(w)
  BY DEF Are
<1>2. IsCharacter(w) <=>
        \/ P1 /\ n = 1
        \/ P2 /\ n = 2
        \/ P3 /\ n = 3
        \/ P4 /\ n = 3
        \/ P5 /\ n = 3
        \/ P6 /\ n = 3
        \/ P7 /\ n = 4
        \/ P8 /\ n = 4
        \/ P9 /\ n = 4
  <2> DEFINE P(row) == Along(row, w) /\ n = Len(row)
  <2>1. IsCharacter(w) <=> \E row \in WellFormedRows : P(row)
    BY <1>1 DEF IsCharacter
  <2> HIDE DEF P
  <2>2. IsCharacter(w) <=>
          \/ P(<<0..127>>)
          \/ P(<<194..223, Trailing>>)
          \/ P(<<{224}, 160..191, Trailing>>)
          \/ P(<<225..236, Trailing, Trailing>>)
          \/ P(<<{237}, 128..159, Trailing>>)
          \/ P(<<238..239, Trailing, Trailing>>)
          \/ P(<<{240}, 144..191, Trailing, Trailing>>)
          \/ P(<<241..243, Trailing, Trailing, Trailing>>)
          \/ P(<<{244}, 128..143, Trailing, Trailing>>)
    BY <2>1 DEF WellFormedRows
  <2>3. \A A, B, C, D : Len(<<A>>) = 1 /\ Len(<<A, B>>) = 2 /\ Len(<<A, B, C>>) = 3 /\
           Len(<<A, B, C, D>>) = 4
    OBVIOUS
  <2>4. QED BY <2>2, <2>3 DEF P
<1>3. IsSubpart(w) <=>
        \/ P1 /\ n < 1
        \/ P2 /\ n < 2
        \/ P3 /\ n < 3
        \/ P4 /\ n < 3
        \/ P5 /\ n < 3
        \/ P6 /\ n < 3
        \/ P7 /\ n < 4
        \/ P8 /\ n < 4
        \/ P9 /\ n < 4
  <2> DEFINE P(row) == Along(row, w) /\ n < Len(row)
  <2>1. IsSubpart(w) <=> \E row \in WellFormedRows : P(row)
    BY <1>1 DEF IsSubpart
  <2> HIDE DEF P
  <2>2. IsSubpart(w) <=>
          \/ P(<<0..127>>)
          \/ P(<<194..223, Trailing>>)
          \/ P(<<{224}, 160..191, Trailing>>)
          \/ P(<<225..236, Trailing, Trailing>>)
          \/ P(<<{237}, 128..159, Trailing>>)
          \/ P(<<238..239, Trailing, Trailing>>)
          \/ P(<<{240}, 144..191, Trailing, Trailing>>)
          \/ P(<<241..243, Trailing, Trailing, Trailing>>)
          \/ P(<<{244}, 128..143, Trailing, Trailing>>)
    BY <2>1 DEF WellFormedRows
  <2>3. \A A, B, C, D : Len(<<A>>) = 1 /\ Len(<<A, B>>) = 2 /\ Len(<<A, B, C>>) = 3 /\
           Len(<<A, B, C, D>>) = 4
    OBVIOUS
  <2>4. QED BY <2>2, <2>3 DEF P
<1>4. \A A, B, C, D : Row(w, A, B, C, D) <=>
             /\ n >= 1 => a \in A
             /\ n >= 2 => b \in B
             /\ n >= 3 => c \in C
             /\ n >= 4 => d \in D
  BY DEF Row, Are
<1>5. ASSUME NEW A
      PROVE  Along(<<A>>, w) <=> n <= 1 /\ (n >= 1 => a \in A)
  <2>1. Along(<<A>>, w) <=> n <= 1 /\ Row(w, A, A, A, A)
    BY <1>1, Along1
  <2>2. Row(w, A, A, A, A) <=> (n >= 1 => a \in A) /\ (n >= 2 => b \in A) /\ (n >= 3 => c \in A) /\
           (n >= 4 => d \in A)
    BY <1>4
  <2>3. QED BY <2>1, <2>2
<1>6. ASSUME NEW A, NEW B
      PROVE  Along(<<A, B>>, w) <=> n <= 2 /\ (n >= 1 => a \in A) /\ (n >= 2 => b \in B)
  <2>1. Along(<<A, B>>, w) <=> n <= 2 /\ Row(w, A, B, A, A)
    BY <1>1, Along2
  <2>2. Row(w, A, B, A, A) <=> (n >= 1 => a \in A) /\ (n >= 2 => b \in B) /\ (n >= 3 => c \in A) /\
           (n >= 4 => d \in A)
    BY <1>4
  <2>3. QED BY <2>1, <2>2
<1>7. ASSUME NEW A, NEW B, NEW C
      PROVE  Along(<<A, B, C>>, w) <=> n <= 3 /\ (n >= 1 => a \in A) /\ (n >= 2 => b \in B) /\
               (n >= 3 => c \in C)
  <2>1. Along(<<A, B, C>>, w) <=> n <= 3 /\ Row(w, A, B, C, A)
    BY <1>1, Along3
  <2>2. Row(w, A, B, C, A) <=> (n >= 1 => a \in A) /\ (n >= 2 => b \in B) /\ (n >= 3 => c \in C) /\
           (n >= 4 => d \in A)
    BY <1>4
  <2>3. QED BY <2>1, <2>2
<1>8. ASSUME NEW A, NEW B, NEW C, NEW D
      PROVE  Along(<<A, B, C, D>>, w) <=> n <= 4 /\ (n >= 1 => a \in A) /\ (n >= 2 => b \in B) /\
               (n >= 3 => c \in C) /\ (n >= 4 => d \in D)
  <2>1. Along(<<A, B, C, D>>, w) <=> n <= 4 /\ Row(w, A, B, C, D)
    BY <1>1, Along4
  <2>2. Row(w, A, B, C, D) <=> (n >= 1 => a \in A) /\ (n >= 2 => b \in B) /\ (n >= 3 => c \in C) /\
           (n >= 4 => d \in D)
    BY <1>4
  <2>3. QED BY <2>1, <2>2
<1>9. P1 <=>
         n <= 1 /\ (n >= 1 => a <= 127)
  <2>1. P1 <=> n <= 1 /\ (n >= 1 => a \in 0..127)
    BY <1>5
  <2>2. QED BY <2>1 DEF Trailing
<1>10. P2 <=>
         n <= 2 /\ (n >= 1 => 194 <= a /\ a <= 223) /\ (n >= 2 => 128 <= b /\ b <= 191)
  <2>1. P2 <=> n <= 2 /\ (n >= 1 => a \in 194..223) /\ (n >= 2 => b \in Trailing)
    BY <1>6
  <2>2. QED BY <2>1 DEF Trailing
<1>11. P3 <=>
         n <= 3 /\ (n >= 1 => a = 224) /\ (n >= 2 => 160 <= b /\ b <= 191) /\
                  (n >= 3 => 128 <= c /\ c <= 191)
  <2>1. P3 <=> n <= 3 /\ (n >= 1 => a \in {224}) /\ (n >= 2 => b \in 160..191) /\
           (n >= 3 => c \in Trailing)
    BY <1>7
  <2>2. QED BY <2>1 DEF Trailing
<1>12. P4 <=>
         n <= 3 /\ (n >= 1 => 225 <= a /\ a <= 236) /\ (n >= 2 => 128 <= b /\ b <= 191) /\
                  (n >= 3 => 128 <= c /\ c <= 191)
  <2>1. P4 <=> n <= 3 /\ (n >= 1 => a \in 225..236) /\ (n >= 2 => b \in Trailing) /\
           (n >= 3 => c \in Trailing)
    BY <1>7
  <2>2. QED BY <2>1 DEF Trailing
<1>13. P5 <=>
         n <= 3 /\ (n >= 1 => a = 237) /\ (n >= 2 => 128 <= b /\ b <= 159) /\
                  (n >= 3 => 128 <= c /\ c <= 191)
  <2>1. P5 <=> n <= 3 /\ (n >= 1 => a \in {237}) /\ (n >= 2 => b \in 128..159) /\
           (n >= 3 => c \in Trailing)
    BY <1>7
  <2>2. QED BY <2>1 DEF Trailing
<1>14. P6 <=>
         n <= 3 /\ (n >= 1 => 238 <= a /\ a <= 239) /\ (n >= 2 => 128 <= b /\ b <= 191) /\
                  (n >= 3 => 128 <= c /\ c <= 191)
  <2>1. P6 <=> n <= 3 /\ (n >= 1 => a \in 238..239) /\ (n >= 2 => b \in Trailing) /\
           (n >= 3 => c \in Trailing)
    BY <1>7
  <2>2. QED BY <2>1 DEF Trailing
<1>15. P7 <=>
         n <= 4 /\ (n >= 1 => a = 240) /\ (n >= 2 => 144 <= b /\ b <= 191) /\
                  (n >= 3 => 128 <= c /\ c <= 191) /\ (n >= 4 => 128 <= d /\ d <= 191)
  <2>1. P7 <=> n <= 4 /\ (n >= 1 => a \in {240}) /\ (n >= 2 => b \in 144..191) /\
           (n >= 3 => c \in Trailing) /\ (n >= 4 => d \in Trailing)
    BY <1>8
  <2>2. QED BY <2>1 DEF Trailing
<1>16. P8 <=>
         n <= 4 /\ (n >= 1 => 241 <= a /\ a <= 243) /\ (n >= 2 => 128 <= b /\ b <= 191) /\
                  (n >= 3 => 128 <= c /\ c <= 191) /\ (n >= 4 => 128 <= d /\ d <= 191)
  <2>1. P8 <=> n <= 4 /\ (n >= 1 => a \in 241..243) /\ (n >= 2 => b \in Trailing) /\
           (n >= 3 => c \in Trailing) /\ (n >= 4 => d \in Trailing)
    BY <1>8
  <2>2. QED BY <2>1 DEF Trailing
<1>17. P9 <=>
         n <= 4 /\ (n >= 1 => a = 244) /\ (n >= 2 => 128 <= b /\ b <= 143) /\
                  (n >= 3 => 128 <= c /\ c <= 191) /\ (n >= 4 => 128 <= d /\ d <= 191)
  <2>1. P9 <=> n <= 4 /\ (n >= 1 => a \in {244}) /\ (n >= 2 => b \in 128..143) /\
           (n >= 3 => c \in Trailing) /\ (n >= 4 => d \in Trailing)
    BY <1>8
  <2>2. QED BY <2>1 DEF Trailing
<1> HIDE DEF P1, P2, P3, P4, P5, P6, P7, P8, P9
<1>18. PICK k \in Nat : k = Need(a)
  BY DEF Need
<1>19. PICK l \in Nat : l = Low(a)
  BY DEF Low
<1>20. PICK h \in Nat : h = High(a)
  BY DEF High
<1>21. /\ a < 194 \/ a > 244 => k = 0
       /\ 194 <= a /\ a <= 223 => k = 1
       /\ 224 <= a /\ a <= 239 => k = 2
       /\ 240 <= a /\ a <= 244 => k = 3
  BY <1>18 DEF Need
<1>22. (a = 224 => l = 160) /\ (a = 240 => l = 144) /\ (a # 224 /\ a # 240 => l = 128)
  BY <1>19 DEF Low
<1>23. (a = 237 => h = 159) /\ (a = 244 => h = 143) /\ (a # 237 /\ a # 244 => h = 191)
  BY <1>20 DEF High
<1>24. Sound(n, a, b, c, d) <=>
          /\ n >= 1 => a <= 127 \/ (194 <= a /\ a <= 244)
          /\ n >= 2 => l <= b /\ b <= h
          /\ n >= 3 => 128 <= c /\ c <= 191
          /\ n >= 4 => 128 <= d /\ d <= 191
  <2>1. Sound(n, a, b, c, d) <=>
          /\ n >= 1 => a \in 0..127 \cup 194..244
          /\ n >= 2 => b \in l..h
          /\ n >= 3 => c \in 128..191
          /\ n >= 4 => d \in 128..191
    BY <1>19, <1>20 DEF Sound
  <2>2. QED BY <2>1
<1>25. n >= 1 => (IsCharacter(w) <=> Sound(n, a, b, c, d) /\ n = 1 + k)
  BY <1>2, <1>9, <1>10, <1>11, <1>12, <1>13, <1>14, <1>15, <1>16, <1>17, <1>17, <1>21, <1>22,
           <1>23, <1>24
<1>26. n >= 1 => (IsSubpart(w) <=> Sound(n, a, b, c, d) /\ n < 1 + k)
  BY <1>3, <1>9, <1>10, <1>11, <1>12, <1>13, <1>14, <1>15, <1>16, <1>17, <1>17, <1>21, <1>22,
           <1>23, <1>24
<1>27. n = 0 => ~IsCharacter(w) /\ IsSubpart(w)
  BY <1>2, <1>3, <1>9
<1>28. QED BY <1>18, <1>25, <1>26, <1>27

-----------------------------------------------------------------------------
(* Pieces: a text is cut where decode() decides, at the longest prefix     *)
(* that is a character or the beginning of one, or at one byte.            *)

Text == Seq(Byte)
Fits(w) == IsCharacter(w) \/ IsSubpart(w)

\* Bytes are numbers.
LEMMA ByteNat == Byte \subseteq Nat
BY DEF Byte

\* A prefix has the same first four bytes, as many of them as it has.
LEMMA PrefixesAre ==
    ASSUME NEW w \in Text, NEW m \in 0..Len(w),
           NEW n \in Nat, NEW a \in Nat, NEW b \in Nat, NEW c \in Nat, NEW d \in Nat,
                    Are(w, n, a, b, c, d)
    PROVE  SubSeq(w, 1, m) \in Text /\ Are(SubSeq(w, 1, m), m, a, b, c, d)
<1>1. SubSeq(w, 1, m) \in Text /\ Len(SubSeq(w, 1, m)) = m
  BY DEF Text
<1>2. \A i \in 1..m : SubSeq(w, 1, m)[i] = w[i]
  BY DEF Text
<1>3. m \in Nat /\ m <= n
  BY DEF Are, Text
<1>4. QED BY <1>1, <1>2, <1>3 DEF Are

\* What begins a character but the whole of it is an unfinished one.
LEMMA PrefixFits ==
    ASSUME NEW w \in Text, Fits(w), NEW m \in 0..Len(w), m # Len(w)
    PROVE  IsSubpart(SubSeq(w, 1, m))
<1>1. PICK n \in Nat, a \in Nat, b \in Nat, c \in Nat, d \in Nat : Are(w, n, a, b, c, d)
  BY FirstFour DEF Text
<1>2. /\ IsCharacter(w) <=> n >= 1 /\ Sound(n, a, b, c, d) /\ n = 1 + Need(a)
      /\ IsSubpart(w) <=> n = 0 \/ (Sound(n, a, b, c, d) /\ n < 1 + Need(a))
  BY <1>1, Table DEF Text
<1>3. m \in Nat /\ m < n
  <2>1. n = Len(w)
    BY <1>1 DEF Are
  <2>2. QED BY <2>1
<1>4. IsSubpart(SubSeq(w, 1, m)) <=> m = 0 \/ (Sound(m, a, b, c, d) /\ m < 1 + Need(a))
  <2>1. SubSeq(w, 1, m) \in Text /\ Are(SubSeq(w, 1, m), m, a, b, c, d)
    BY <1>1, PrefixesAre
  <2>2. QED BY <1>3, <2>1, Table DEF Text
<1>5. Need(a) \in Nat
  BY DEF Need
<1>6. QED BY <1>2, <1>3, <1>4, <1>5 DEF Fits, Sound

\* A character has up to four bytes and no beginning of a character is one.
LEMMA Lengths ==
    ASSUME NEW w \in Text
    PROVE  /\ IsCharacter(w) => Len(w) \in 1..4 /\ ~IsSubpart(w)
           /\ IsSubpart(w) => Len(w) \in 0..3
           /\ Len(w) = 0 => IsSubpart(w)
<1>1. PICK n \in Nat, a \in Nat, b \in Nat, c \in Nat, d \in Nat : Are(w, n, a, b, c, d)
  BY FirstFour DEF Text
<1>2. /\ IsCharacter(w) <=> n >= 1 /\ Sound(n, a, b, c, d) /\ n = 1 + Need(a)
      /\ IsSubpart(w) <=> n = 0 \/ (Sound(n, a, b, c, d) /\ n < 1 + Need(a))
  BY <1>1, Table DEF Text
<1>3. Need(a) \in 0..3
  BY DEF Need
<1>4. n = Len(w)
  BY <1>1 DEF Are
<1>5. IsCharacter(w) => n \in 1..4 /\ ~IsSubpart(w)
  <2>1. n >= 1 /\ n = 1 + Need(a) => n \in 1..4 /\ n # 0 /\ ~(n < 1 + Need(a))
    BY <1>3
  <2>2. QED BY <1>2, <2>1
<1>6. IsSubpart(w) => n \in 0..3
  <2>1. n = 0 \/ n < 1 + Need(a) => n \in 0..3
    BY <1>3
  <2>2. QED BY <1>2, <2>1
<1>7. QED BY <1>2, <1>4, <1>5, <1>6

\* A set of lengths has a largest.
LEMMA LargestOfFour ==
    ASSUME NEW S \in SUBSET (1..4), 1 \in S
    PROVE  \E n \in S : \A m \in S : m <= n
<1>1. CASE 4 \in S
  BY <1>1
<1>2. CASE 4 \notin S /\ 3 \in S
  <2>1. \A m \in S : m <= 3
    BY <1>2
  <2>2. QED BY <1>2, <2>1
<1>3. CASE 4 \notin S /\ 3 \notin S /\ 2 \in S
  <2>1. \A m \in S : m <= 2
    BY <1>3
  <2>2. QED BY <1>3, <2>1
<1>4. CASE 4 \notin S /\ 3 \notin S /\ 2 \notin S
  <2>1. \A m \in S : m <= 1
    BY <1>4
  <2>2. QED BY <2>1
<1>5. QED BY <1>1, <1>2, <1>3, <1>4

\* The first piece is the longest prefix that is a character or begins one,
\* else a byte.
LongestFit(s, n) ==
    /\ n = 1 \/ Fits(SubSeq(s, 1, n))
    /\ \A m \in 1..Len(s) : Fits(SubSeq(s, 1, m)) => m <= n

\* The first piece of a text is the longest prefix that fits, and at least
\* one byte.
LEMMA FirstPiece ==
    ASSUME NEW s \in Text, s # <<>>
    PROVE  PieceLength(s) \in 1..Len(s) /\ LongestFit(s, PieceLength(s))
<1> DEFINE cuts == 1..(IF Len(s) < 4 THEN Len(s) ELSE 4)
           good == {n \in cuts : IsCharacter(SubSeq(s, 1, n))}
           start == {n \in cuts : IsSubpart(SubSeq(s, 1, n))} \cup {1}
<1>1. PieceLength(s) = IF good # {} THEN CHOOSE n \in good : TRUE
                     ELSE CHOOSE n \in start : \A m \in start : m <= n
  BY DEF PieceLength
<1>2. Len(s) \in Nat \ {0}
  BY DEF Text
<1>3. cuts \subseteq 1..Len(s) /\ cuts \subseteq 1..4 /\ 1 \in cuts /\ \A n \in 1..Len(s) :
         n <= 4 => n \in cuts
  BY <1>2
<1>4. \A n \in 1..Len(s) : SubSeq(s, 1, n) \in Text /\ Len(SubSeq(s, 1, n)) = n
  BY DEF Text
<1> HIDE DEF cuts
<1>5. ASSUME NEW m \in 1..Len(s), Fits(SubSeq(s, 1, m))
      PROVE  m \in cuts
  <2>1. PICK v \in Text : v = SubSeq(s, 1, m) /\ Len(v) = m
    BY <1>4
  <2>2. Len(v) \in 1..4 \/ Len(v) \in 0..3
    BY <1>5, <2>1, Lengths DEF Fits
  <2>3. m <= 4
    BY <2>1, <2>2
  <2>4. QED BY <1>3, <2>3
<1>6. ASSUME NEW m \in 1..Len(s), NEW n \in 1..Len(s), Fits(SubSeq(s, 1, m)), n < m
      PROVE  IsSubpart(SubSeq(s, 1, n))
  <2>1. SubSeq(SubSeq(s, 1, m), 1, n) = SubSeq(s, 1, n)
    BY <1>6 DEF Text
  <2>2. n \in 0..Len(SubSeq(s, 1, m)) /\ n # Len(SubSeq(s, 1, m))
    <3>1. n \in 0..m /\ n # m
      BY <1>2, <1>6
    <3>2. QED BY <1>4, <3>1
  <2>3. QED BY <1>4, <1>6, <2>1, <2>2, PrefixFits
<1>7. CASE good # {}
  <2>1. PieceLength(s) \in good
    BY <1>1, <1>7
  <2>2. PICK n \in 1..Len(s) : n = PieceLength(s) /\ IsCharacter(SubSeq(s, 1, n))
    BY <1>3, <2>1
  <2>3. ASSUME NEW m \in 1..Len(s), Fits(SubSeq(s, 1, m)), n < m PROVE FALSE
    BY <1>4, <1>6, <2>2, <2>3, Lengths
  <2>4. \A m \in 1..Len(s) : Fits(SubSeq(s, 1, m)) => m <= n
    BY <2>3
  <2>5. QED BY <2>2, <2>4 DEF LongestFit, Fits
<1>8. CASE good = {}
  <2>1. \E n \in start : \A m \in start : m <= n
    <3>1. start \in SUBSET (1..4) /\ 1 \in start
      <4>1. {n \in cuts : IsSubpart(SubSeq(s, 1, n))} \subseteq cuts
        OBVIOUS
      <4>2. QED BY <1>3, <4>1
    <3>2. QED BY <3>1, LargestOfFour
  <2>2. PICK n \in start : n = PieceLength(s) /\ \A m \in start : m <= n
    BY <1>1, <1>8, <2>1
  <2>3. n \in 1..Len(s) /\ (n = 1 \/ Fits(SubSeq(s, 1, n)))
    BY <1>3, <2>2 DEF Fits
  <2>4. ASSUME NEW m \in 1..Len(s), Fits(SubSeq(s, 1, m)) PROVE m <= n
    BY <1>5, <1>8, <2>2, <2>4 DEF Fits
  <2>5. QED BY <2>2, <2>3, <2>4 DEF LongestFit
<1>9. QED BY <1>7, <1>8

\* There is one such length.
LEMMA PieceIs ==
    ASSUME NEW s \in Text, NEW n \in 1..Len(s), LongestFit(s, n)
    PROVE  PieceLength(s) = n
<1>1. s # <<>>
  BY DEF Text
<1>2. PICK p \in 1..Len(s) : p = PieceLength(s) /\ LongestFit(s, p)
  BY <1>1, FirstPiece
<1>3. 1 \in 1..Len(s) /\ Len(s) \in Nat
  BY DEF Text
<1>4. n <= p /\ p <= n
  <2>1. p = 1 \/ p <= n
    BY <1>2 DEF LongestFit
  <2>2. n = 1 \/ n <= p
    BY <1>2 DEF LongestFit
  <2>3. QED BY <1>2, <1>3, <2>1, <2>2
<1>5. QED BY <1>2, <1>4

\* A set of numbers has a smallest: Nat is well founded.
LEMMA SmallestOf ==
    ASSUME NEW T \in SUBSET Nat, T # {}
    PROVE  \E m \in T : \A k \in T : m <= k
<1> DEFINE R == OpToRel(<, Nat)
<1>1. IsWellFoundedOn(R, Nat)
  BY NatLessThanWellFounded
<1>2. \A x, y \in Nat : y < x => <<y, x>> \in R
  BY DEF OpToRel
<1> HIDE DEF R
<1>3. PICK m \in T : \A y \in T : ~(<<y, m>> \in R)
  BY <1>1, WFMin
<1>4. ASSUME NEW y \in T
      PROVE  m <= y
  <2>1. y \in Nat /\ m \in Nat
    OBVIOUS
  <2>2. ~(y < m)
    BY <1>2, <1>3, <2>1
  <2>3. QED BY <2>1, <2>2
<1>5. QED BY <1>4

\* Induction, over a set.
LEMMA Induction ==
    ASSUME NEW S, 0 \in S, \A n \in Nat : n \in S => n + 1 \in S
    PROVE  Nat \subseteq S
<1> SUFFICES ASSUME NEW x \in Nat, x \notin S PROVE FALSE
  OBVIOUS
<1>1. PICK m \in Nat \ S : \A k \in Nat \ S : m <= k
  BY SmallestOf
<1>2. m # 0 /\ m - 1 \in Nat
  BY <1>1
<1>3. m - 1 \in S
  BY <1>1, <1>2
<1>4. QED BY <1>1, <1>2, <1>3

Cut(w, i) == PieceLength(SubSeq(w, i, Len(w)))

\* A piece begins and ends within the text.
LEMMA CutWithin ==
    ASSUME NEW w \in Text, NEW i \in 1..Len(w)
    PROVE  /\ SubSeq(w, i, Len(w)) \in Text
           /\ Len(SubSeq(w, i, Len(w))) = Len(w) - i + 1
           /\ Cut(w, i) \in 1..Len(w) - i + 1
           /\ LongestFit(SubSeq(w, i, Len(w)), Cut(w, i))
<1>1. PICK s : s = SubSeq(w, i, Len(w))
  OBVIOUS
<1>2. s \in Text /\ Len(s) = Len(w) - i + 1
  BY <1>1 DEF Text
<1>3. s # <<>>
  BY <1>2 DEF Text
<1>4. PieceLength(s) \in 1..Len(s) /\ LongestFit(s, PieceLength(s))
  BY <1>2, <1>3, FirstPiece
<1>5. QED BY <1>1, <1>2, <1>4 DEF Cut

\* The function that Pieces is defined by.
IsFrom(w, k, f) ==
    f = [i \in Len(w) + 1 - k..Len(w) + 1 |->
            IF i > Len(w) THEN <<>>
            ELSE <<SubSeq(w, i, i + Cut(w, i) - 1)>> \o f[i + Cut(w, i)]]

\* The function Pieces is computed from exists: for each number of remaining
\* positions, by induction.
LEMMA FromExists ==
    ASSUME NEW w \in Text, NEW k \in 0..Len(w)
    PROVE  \E f : IsFrom(w, k, f)
<1> DEFINE S == {j \in Nat : j <= Len(w) => \E f : IsFrom(w, j, f)}
<1>1. Len(w) \in Nat
  BY DEF Text
<1>2. 0 \in S
  <2>1. IsFrom(w, 0, [i \in Len(w) + 1 - 0..Len(w) + 1 |-> <<>>])
    BY <1>1 DEF IsFrom
  <2>2. QED BY <2>1
<1>3. ASSUME NEW j \in Nat, j \in S
      PROVE  j + 1 \in S
  <2> SUFFICES ASSUME j + 1 <= Len(w) PROVE \E f : IsFrom(w, j + 1, f)
    OBVIOUS
  <2>1. PICK f : IsFrom(w, j, f)
    BY <1>1, <1>3
  <2> DEFINE at == Len(w) - j
             g == [i \in Len(w) + 1 - (j + 1)..Len(w) + 1 |->
                     IF i = at THEN <<SubSeq(w, i, i + Cut(w, i) - 1)>> \o f[i + Cut(w, i)] ELSE f[i]]
  <2>2. at \in 1..Len(w) /\ Len(w) + 1 - (j + 1) = at /\ Len(w) + 1 - j = at + 1
    BY <1>1
  <2>3. \A i \in at..Len(w) : i + Cut(w, i) \in at + 1..Len(w) + 1
    <3> TAKE i \in at..Len(w)
    <3>1. i \in 1..Len(w)
      BY <1>1, <2>2
    <3>2. Cut(w, i) \in 1..Len(w) - i + 1
      BY <3>1, CutWithin
    <3>3. QED BY <1>1, <2>2, <3>1, <3>2
  <2>4. \A i \in at + 1..Len(w) + 1 : g[i] = f[i]
    BY <1>1, <2>2
  <2>5. \A i \in at..Len(w) + 1 :
            g[i] = IF i > Len(w) THEN <<>>
                   ELSE <<SubSeq(w, i, i + Cut(w, i) - 1)>> \o g[i + Cut(w, i)]
    <3> TAKE i \in at..Len(w) + 1
    <3>1. CASE i = at
      BY <1>1, <2>2, <2>3, <2>4, <3>1
    <3>2. CASE i # at
      <4>1. i \in at + 1..Len(w) + 1
        BY <1>1, <2>2, <3>2
      <4>2. f[i] = IF i > Len(w) THEN <<>>
                   ELSE <<SubSeq(w, i, i + Cut(w, i) - 1)>> \o f[i + Cut(w, i)]
        BY <2>1, <2>2, <4>1 DEF IsFrom
      <4>3. QED BY <1>1, <2>2, <2>3, <2>4, <4>1, <4>2
    <3>3. QED BY <3>1, <3>2
  <2>6. g = [i \in Len(w) + 1 - (j + 1)..Len(w) + 1 |-> g[i]]
    OBVIOUS
  <2> HIDE DEF g
  <2>7. IsFrom(w, j + 1, g)
    BY <2>2, <2>5, <2>6 DEF IsFrom
  <2>8. QED BY <2>7
<1> HIDE DEF S
<1>4. k \in S
  BY <1>1, <1>2, <1>3, Induction
<1>5. QED BY <1>1, <1>4 DEF S

\* The pieces of a text are the first value of such a function.
LEMMA PiecesFrom ==
    ASSUME NEW w \in Text
    PROVE  \E f : IsFrom(w, Len(w), f) /\ Pieces(w) = f[1]
<1>1. \E f : IsFrom(w, Len(w), f)
  BY FromExists DEF Text
<1>2. Len(w) + 1 - Len(w) = 1
  BY DEF Text
<1>3. Pieces(w) = (CHOOSE f : IsFrom(w, Len(w), f))[1]
  BY <1>2 DEF Pieces, IsFrom, Cut
<1>4. QED BY <1>1, <1>3

-----------------------------------------------------------------------------
(* One more byte: how the pieces of a text change when a byte is appended  *)
(* to it. It is the last piece that grows, or a new one begins.            *)

\* One more byte: it goes on with the last piece, or begins one.
Extend(pieces, byte) ==
    IF pieces # <<>> /\ Fits(Append(pieces[Len(pieces)], byte))
    THEN [pieces EXCEPT ![Len(pieces)] = Append(pieces[Len(pieces)], byte)]
    ELSE Append(pieces, <<byte>>)

\* A byte more changes only the cut of the last piece, which takes the byte
\* when it still fits with it.
LEMMA CutExtends ==
    ASSUME NEW w \in Text, NEW byte \in Byte, NEW i \in 1..Len(w)
    PROVE  LET s == SubSeq(w, i, Len(w)) IN
           /\ SubSeq(Append(w, byte), i, Len(w) + 1) = Append(s, byte)
           /\ Cut(w, i) # Len(w) - i + 1 => Cut(Append(w, byte), i) = Cut(w, i)
           /\ Cut(w, i) = Len(w) - i + 1 =>
                 Cut(Append(w, byte), i) = IF Fits(Append(s, byte)) THEN Cut(w, i) + 1 ELSE Cut(w, i)
<1> DEFINE s == SubSeq(w, i, Len(w))
           x == Append(s, byte)
           n == Cut(w, i)
           k == Len(w) - i + 1
<1>1. Len(w) \in Nat /\ k \in Nat \ {0}
  BY DEF Text
<1>2. s \in Text /\ Len(s) = k /\ n \in 1..k /\ LongestFit(s, n)
  BY CutWithin
<1>3. SubSeq(Append(w, byte), i, Len(w) + 1) = x
  BY <1>1, <1>2 DEF Text
<1>4. Append(w, byte) \in Text /\ Len(Append(w, byte)) = Len(w) + 1
  BY DEF Text
<1>5. Cut(Append(w, byte), i) = PieceLength(x)
  BY <1>3, <1>4 DEF Cut
<1> HIDE DEF s, k, n
<1>6. x \in Text /\ Len(x) = k + 1
  BY <1>2 DEF Text
<1>7. \A m \in 1..k : SubSeq(x, 1, m) = SubSeq(s, 1, m)
  BY <1>1, <1>2 DEF Text
<1>8. SubSeq(x, 1, k + 1) = x /\ SubSeq(x, 1, k) = s /\ SubSeq(s, 1, k) = s
  BY <1>1, <1>2, <1>6 DEF Text
<1> HIDE DEF x
<1>9. Fits(x) => Fits(s)
  <2>1. k \in 0..Len(x) /\ k # Len(x)
    BY <1>1, <1>6
  <2>2. Fits(x) => IsSubpart(SubSeq(x, 1, k))
    BY <1>6, <2>1, PrefixFits
  <2>3. QED BY <1>8, <2>2 DEF Fits
<1>10. \A m \in 1..k : Fits(SubSeq(x, 1, m)) => m <= n
  BY <1>2, <1>7 DEF LongestFit
<1>11. n = 1 \/ Fits(SubSeq(x, 1, n))
  BY <1>2, <1>7 DEF LongestFit
<1>12. n \in 1..Len(x) /\ k + 1 \in 1..Len(x) /\ \A m \in 1..Len(x) : m \in 1..k \/ m = k + 1
  BY <1>1, <1>2, <1>6
<1>13. CASE n # k \/ ~Fits(x)
  <2>1. ~Fits(x)
    <3>1. k \in 1..k
      BY <1>1
    <3>2. Fits(s) => k <= n
      BY <1>2, <1>8, <3>1 DEF LongestFit
    <3>3. QED BY <1>1, <1>2, <1>9, <1>13, <3>2
  <2>2. LongestFit(x, n)
    BY <1>8, <1>10, <1>11, <1>12, <2>1 DEF LongestFit
  <2>3. PieceLength(x) = n
    BY <1>6, <1>12, <2>2, PieceIs
  <2>4. QED BY <1>3, <1>5, <2>1, <2>3 DEF s, x, n, k
<1>14. CASE n = k /\ Fits(x)
  <2>1. \A m \in 1..Len(x) : m <= k + 1
    BY <1>1, <1>6
  <2>2. LongestFit(x, k + 1)
    BY <1>8, <1>14, <2>1 DEF LongestFit
  <2>3. PieceLength(x) = k + 1
    BY <1>6, <1>12, <2>2, PieceIs
  <2>4. QED BY <1>3, <1>5, <1>14, <2>3 DEF s, x, n, k
<1>15. QED BY <1>13, <1>14

\* A sequence with an element put before it.
LEMMA Consed ==
    ASSUME NEW S, NEW t \in Seq(S), NEW p \in S
    PROVE  /\ <<p>> \o t \in Seq(S)
           /\ Len(<<p>> \o t) = Len(t) + 1
           /\ (<<p>> \o t)[1] = p
           /\ \A i \in 1..Len(t) : (<<p>> \o t)[i + 1] = t[i]
<1>1. <<p>> \in Seq(S) /\ Len(<<p>>) = 1
  OBVIOUS
<1>2. QED BY <1>1

\* Extend looks at the last piece alone.
LEMMA ExtendTail ==
    ASSUME NEW t \in Seq(Text), t # <<>>, NEW p \in Text, NEW byte \in Byte
    PROVE  Extend(<<p>> \o t, byte) = <<p>> \o Extend(t, byte)
<1>1. PICK k \in Nat : k = Len(t) /\ k # 0
  OBVIOUS
<1>2. PICK q \in Seq(Text) : q = <<p>> \o t
  BY Consed
<1>3. /\ Len(q) = k + 1 /\ q # <<>> /\ q[1] = p
      /\ \A i \in 1..k : q[i + 1] = t[i]
  BY <1>1, <1>2, Consed
<1>4. q[k + 1] = t[k] /\ t[k] \in Text
  BY <1>1, <1>3
<1>5. PICK y \in Text : y = Append(t[k], byte)
  <2>1. t[k] \in Seq(Byte)
    BY <1>4 DEF Text
  <2>2. Append(t[k], byte) \in Seq(Byte)
    BY <2>1
  <2>3. QED BY <2>2 DEF Text
<1>6. CASE Fits(y)
  <2> DEFINE u == [t EXCEPT ![k] = y]
             v == [q EXCEPT ![k + 1] = y]
  <2>1. u \in Seq(Text) /\ Len(u) = k /\ v \in Seq(Text) /\ Len(v) = k + 1
    BY <1>1, <1>3
  <2>2. u[k] = y /\ v[k + 1] = y /\ \A i \in 1..k : i # k => u[i] = t[i]
    BY <1>1, <1>3
  <2>3. v[1] = p /\ \A i \in 1..k : i # k => v[i + 1] = t[i]
    BY <1>1, <1>3
  <2> HIDE DEF u, v
  <2>4. <<p>> \o u \in Seq(Text) /\ Len(<<p>> \o u) = k + 1
    BY <2>1
  <2>5. ASSUME NEW i \in 1..k + 1 PROVE (<<p>> \o u)[i] = v[i]
    <3>1. CASE i = 1
      BY <2>1, <2>3, <3>1
    <3>2. CASE i # 1
      <4>1. PICK j \in 1..k : i = j + 1
        BY <1>1, <3>2
      <4>2. (<<p>> \o u)[j + 1] = u[j]
        BY <1>1, <2>1, <4>1
      <4>3. v[j + 1] = u[j]
        BY <1>1, <2>2, <2>3
      <4>4. QED BY <4>1, <4>2, <4>3
    <3>3. QED BY <3>1, <3>2
  <2>6. <<p>> \o u = v
    BY <2>1, <2>4, <2>5, SeqEqual
  <2>7. Extend(t, byte) = u
    BY <1>1, <1>5, <1>6 DEF Extend, u
  <2>8. Extend(q, byte) = v
    BY <1>3, <1>4, <1>5, <1>6 DEF Extend, v
  <2>9. QED BY <1>2, <2>6, <2>7, <2>8
<1>7. CASE ~Fits(y)
  <2>1. Append(q, <<byte>>) = <<p>> \o Append(t, <<byte>>)
    BY <1>1, <1>2
  <2>2. Extend(t, byte) = Append(t, <<byte>>)
    BY <1>1, <1>5, <1>7 DEF Extend
  <2>3. Extend(q, byte) = Append(q, <<byte>>)
    BY <1>3, <1>4, <1>5, <1>7 DEF Extend
  <2>4. QED BY <1>2, <2>1, <2>2, <2>3
<1>8. QED BY <1>6, <1>7

\* The last byte of a text as a sequence of its own.
LEMMA OneByte ==
    ASSUME NEW w \in Text, NEW j \in 1..Len(w)
    PROVE  SubSeq(w, j, j) = <<w[j]>>
<1>1. w \in Seq(Byte) /\ j \in Int /\ w[j] \in Byte
  BY DEF Text
<1>2. \A i \in j..j : w[i] \in Byte
  BY <1>1
<1>3. /\ SubSeq(w, j, j) \in Seq(Byte)
      /\ Len(SubSeq(w, j, j)) = IF j <= j THEN j - j + 1 ELSE 0
      /\ \A i \in 1..j - j + 1 : SubSeq(w, j, j)[i] = w[j + i - 1]
  BY <1>1, <1>2, SubSeqProperties
<1>4. j <= j /\ j - j + 1 = 1 /\ j + 1 - 1 = j /\ 1 \in 1..1
  BY <1>1
<1>5. Len(SubSeq(w, j, j)) = 1 /\ SubSeq(w, j, j)[1] = w[j]
  BY <1>3, <1>4
<1>6. <<w[j]>> \in Seq(Byte) /\ Len(<<w[j]>>) = 1 /\ <<w[j]>>[1] = w[j]
  BY <1>1
<1>7. \A i \in 1..1 : i = 1
  OBVIOUS
<1>8. QED BY <1>3, <1>5, <1>6, <1>7, SeqEqual

\* One more byte extends the pieces of the bytes before it.
LEMMA FromExtends ==
    ASSUME NEW w \in Text, NEW byte \in Byte, NEW f, NEW g,
           IsFrom(w, Len(w), f), IsFrom(Append(w, byte), Len(w) + 1, g)
    PROVE  /\ f[1] \in Seq(Text)
           /\ g[1] = Extend(f[1], byte)
<1>1. PICK k \in Nat : k = Len(w)
  BY DEF Text
<1> DEFINE x == Append(w, byte)
<1>2. x \in Text /\ Len(x) = k + 1
  BY <1>1 DEF Text
<1>3. \A i \in 1..k + 1 : f[i] = IF i > k THEN <<>>
                                 ELSE <<SubSeq(w, i, i + Cut(w, i) - 1)>> \o f[i + Cut(w, i)]
  <2>1. k + 1 - k = 1
    BY <1>1
  <2>2. QED BY <1>1, <2>1 DEF IsFrom
<1>4. \A i \in 1..k + 2 : g[i] = IF i > k + 1 THEN <<>>
                                 ELSE <<SubSeq(x, i, i + Cut(x, i) - 1)>> \o g[i + Cut(x, i)]
  <2>1. k + 1 + 1 - (k + 1) = 1 /\ k + 1 + 1 = k + 2
    BY <1>1
  <2>2. IsFrom(x, k + 1, g)
    BY <1>1
  <2> HIDE DEF x
  <2>3. QED BY <1>2, <2>1, <2>2 DEF IsFrom
<1>5. f[k + 1] = <<>> /\ g[k + 2] = <<>>
  <2>1. k + 1 \in 1..k + 1 /\ k + 1 > k /\ k + 2 \in 1..k + 2 /\ k + 2 > k + 1
    BY <1>1
  <2>2. QED BY <1>3, <1>4, <2>1
<1>6. g[k + 1] = <<<<byte>>>>
  <2>1. /\ k + 1 \in 1..Len(x)
        /\ k + 1 \in 1..k + 2 /\ ~(k + 1 > k + 1)
        /\ Len(x) - (k + 1) + 1 = 1
    BY <1>1, <1>2
  <2>2. x[k + 1] = byte
    BY <1>1 DEF Text
  <2> HIDE DEF x
  <2>3. Cut(x, k + 1) = 1
    <3>1. Cut(x, k + 1) \in 1..Len(x) - (k + 1) + 1
      BY <1>2, <2>1, CutWithin
    <3>2. QED BY <2>1, <3>1
  <2>4. SubSeq(x, k + 1, k + 1 + 1 - 1) = <<byte>>
    <3>1. k + 1 + 1 - 1 = k + 1
      BY <1>1
    <3>2. SubSeq(x, k + 1, k + 1) = <<x[k + 1]>>
      <4>1. PICK j \in 1..Len(x) : j = k + 1
        BY <2>1
      <4>2. SubSeq(x, j, j) = <<x[j]>>
        BY <1>2, OneByte
      <4>3. QED BY <4>1, <4>2
    <3>3. QED BY <2>2, <3>1, <3>2
  <2>5. k + 1 + 1 = k + 2
    BY <1>1
  <2>6. g[k + 1] = <<SubSeq(x, k + 1, k + 1 + Cut(x, k + 1) - 1)>> \o g[k + 1 + Cut(x, k + 1)]
    BY <1>4, <2>1
  <2>7. g[k + 1] = <<<<byte>>>> \o <<>>
    BY <1>5, <2>3, <2>4, <2>5, <2>6
  <2>8. QED BY <2>7
<1> DEFINE Good(i) == f[i] \in Seq(Text) /\ g[i] = Extend(f[i], byte) /\ (i <= k => f[i] # <<>>)
           S == {m \in Nat : m <= k => \A i \in k + 1 - m..k + 1 : Good(i)}
<1>7. 0 \in S
  <2>1. Extend(<<>>, byte) = <<<<byte>>>>
    BY DEF Extend
  <2>2. Good(k + 1)
    BY <1>1, <1>5, <1>6, <2>1
  <2>3. \A i \in k + 1 - 0..k + 1 : i = k + 1
    BY <1>1
  <2> HIDE DEF Good
  <2>4. QED BY <2>2, <2>3
<1>8. ASSUME NEW m \in Nat, m \in S
      PROVE  m + 1 \in S
  <2> SUFFICES ASSUME m + 1 <= k PROVE \A i \in k + 1 - (m + 1)..k + 1 : Good(i)
    OBVIOUS
  <2>1. PICK i \in 1..k : i = k - m
    BY <1>1
  <2>2. \A j \in i + 1..k + 1 : Good(j)
    BY <1>1, <1>8, <2>1
  <2>3. PICK n \in 1..k - i + 1 : n = Cut(w, i)
    BY <1>1, CutWithin
  <2>4. PICK s \in Text : s = SubSeq(w, i, k) /\ Len(s) = k - i + 1
    BY <1>1, CutWithin
  <2>5. /\ SubSeq(x, i, k + 1) = Append(s, byte)
        /\ n # k - i + 1 => Cut(x, i) = n
        /\ n = k - i + 1 => Cut(x, i) = IF Fits(Append(s, byte)) THEN n + 1 ELSE n
    BY <1>1, <2>3, <2>4, CutExtends
  <2>6. f[i] = <<SubSeq(w, i, i + n - 1)>> \o f[i + n]
    <3>1. i \in 1..k + 1 /\ ~(i > k)
      BY <1>1
    <3>2. f[i] = <<SubSeq(w, i, i + Cut(w, i) - 1)>> \o f[i + Cut(w, i)]
      BY <1>3, <3>1
    <3>3. QED BY <2>3, <3>2
  <2>7. g[i] = <<SubSeq(x, i, i + Cut(x, i) - 1)>> \o g[i + Cut(x, i)]
    <3>1. i \in 1..k + 2 /\ ~(i > k + 1)
      BY <1>1
    <3> HIDE DEF x
    <3>2. QED BY <1>4, <3>1
  <2>8. SubSeq(x, i, i + n - 1) = SubSeq(w, i, i + n - 1) /\ SubSeq(w, i, i + n - 1) \in Text
    <3>1. i + n - 1 \in i..k
      BY <1>1
    <3>2. \A j \in i..i + n - 1 : x[j] = w[j] /\ w[j] \in Byte
      BY <1>1, <3>1 DEF Text
    <3>3. PICK h \in i..k : h = i + n - 1
      BY <3>1
    <3>4. QED BY <1>1, <1>2, <3>2, <3>3 DEF Text
  <2>9. Good(i)
    <3>1. CASE n # k - i + 1
      <4>1. i + n \in i + 1..k + 1 /\ i + n <= k
        BY <1>1, <3>1
      <4>2. PICK t \in Seq(Text) : t = f[i + n] /\ g[i + n] = Extend(t, byte) /\ t # <<>>
        BY <2>2, <4>1
      <4>3. PICK p \in Text : p = SubSeq(w, i, i + n - 1)
        BY <2>8
      <4>4. f[i] = <<p>> \o t /\ g[i] = <<p>> \o Extend(t, byte)
        BY <2>5, <2>6, <2>7, <2>8, <3>1, <4>2, <4>3
      <4>5. g[i] = Extend(<<p>> \o t, byte)
        BY <4>2, <4>4, ExtendTail
      <4>6. <<p>> \o t \in Seq(Text) /\ <<p>> \o t # <<>>
        <5>1. <<p>> \o t \in Seq(Text) /\ Len(<<p>> \o t) = Len(t) + 1 /\ Len(t) \in Nat
          BY Consed
        <5>2. Len(<<p>> \o t) # 0
          BY <5>1
        <5>3. QED BY <5>1, <5>2
      <4>7. QED BY <4>4, <4>5, <4>6
    <3>2. CASE n = k - i + 1
      <4>1. i + n = k + 1 /\ i + n - 1 = k /\ i + (n + 1) = k + 2 /\ i + (n + 1) - 1 = k + 1
        BY <1>1, <3>2
      <4>2. f[i] = <<s>>
        <5>1. f[i] = <<s>> \o <<>>
          BY <1>5, <2>4, <2>6, <4>1
        <5>2. QED BY <5>1
      <4>3. <<s>> \in Seq(Text) /\ <<s>> # <<>> /\ Len(<<s>>) = 1 /\ <<s>>[1] = s
        OBVIOUS
      <4>4. CASE Fits(Append(s, byte))
        <5>1. Cut(x, i) = n + 1
          BY <2>5, <3>2, <4>4
        <5>2. g[i] = <<Append(s, byte)>> \o <<>>
          BY <1>5, <2>5, <2>7, <4>1, <5>1
        <5>3. Extend(<<s>>, byte) = <<Append(s, byte)>>
          BY <4>3, <4>4 DEF Extend
        <5>4. QED BY <4>2, <4>3, <5>2, <5>3
      <4>5. CASE ~Fits(Append(s, byte))
        <5>1. Cut(x, i) = n
          BY <2>5, <3>2, <4>5
        <5>2. g[i] = <<s>> \o <<<<byte>>>>
          BY <1>6, <2>4, <2>7, <2>8, <4>1, <5>1
        <5>3. Extend(<<s>>, byte) = Append(<<s>>, <<byte>>)
          BY <4>3, <4>5 DEF Extend
        <5>4. QED BY <4>2, <4>3, <5>2, <5>3
      <4>6. QED BY <4>4, <4>5
    <3>3. QED BY <3>1, <3>2
  <2>10. \A j \in k + 1 - (m + 1)..k + 1 : j = i \/ j \in i + 1..k + 1
    BY <1>1, <2>1
  <2> HIDE DEF Good
  <2>11. QED BY <2>2, <2>9, <2>10
<1> HIDE DEF Good
<1>9. k \in S
  <2> HIDE DEF S
  <2>1. QED BY <1>1, <1>7, <1>8, Induction
<1>10. Good(1)
  BY <1>1, <1>9
<1>11. QED BY <1>10 DEF Good

\* The pieces of a text and one byte more: the last piece takes the byte, or
\* the byte is a piece.
LEMMA PiecesExtend ==
    ASSUME NEW w \in Text, NEW byte \in Byte
    PROVE  Pieces(Append(w, byte)) = Extend(Pieces(w), byte) /\ Pieces(w) \in Seq(Text)
<1>1. PICK f : IsFrom(w, Len(w), f) /\ Pieces(w) = f[1]
  BY PiecesFrom
<1>2. Append(w, byte) \in Text /\ Len(Append(w, byte)) = Len(w) + 1
  BY DEF Text
<1>3. PICK g : IsFrom(Append(w, byte), Len(w) + 1, g) /\ Pieces(Append(w, byte)) = g[1]
  BY <1>2, PiecesFrom
<1>4. QED BY <1>1, <1>3, FromExtends

\* The empty text has no pieces.
LEMMA NoPieces == Pieces(<<>>) = <<>>
<1>1. <<>> \in Text /\ Len(<<>>) = 0
  BY DEF Text
<1>2. PICK f : IsFrom(<<>>, 0, f) /\ Pieces(<<>>) = f[1]
  BY <1>1, PiecesFrom
<1>3. 1 \in 1..0 + 1 /\ 0 + 1 - 0 = 1 /\ 1 > 0
  OBVIOUS
<1>4. f[1] = <<>>
  BY <1>1, <1>2, <1>3 DEF IsFrom
<1>5. QED BY <1>2, <1>4

-----------------------------------------------------------------------------
(* The loop of decode(): the fold over the bytes of a chunk as a sequence  *)
(* of turns.                                                               *)

\* The function FoldLeft is computed with.
IsFold(d, bytes, k, it) ==
    it = [s \in SUBSET (1..k) |->
            IF s = {} THEN d
            ELSE Consume(it[s \ {Max(s)}], bytes[Max(s)])]

\* FoldLeft over a chunk as the function the community module chooses.
LEMMA FoldIs ==
    ASSUME NEW d, NEW bytes \in Text
    PROVE  FoldLeft(Consume, d, bytes) = (CHOOSE it : IsFold(d, bytes, Len(bytes), it))[1..Len(bytes)]
<1>1. DOMAIN bytes = 1..Len(bytes)
  BY DEF Text
<1>2. QED BY <1>1 DEF FoldLeft, MapThenFoldSet, IsFold

\* The largest index of a chunk, as the fold finds it.
LEMMA MaxOf ==
    ASSUME NEW k \in Nat, NEW s \in SUBSET (1..k + 1), k + 1 \in s
    PROVE  Max(s) = k + 1
<1>1. \A y \in s : k + 1 >= y
  OBVIOUS
<1>2. \A x \in s : (\A y \in s : x >= y) => x = k + 1
  OBVIOUS
<1>3. \E x \in s : \A y \in s : x >= y
  BY <1>1
<1>4. PICK m \in s : m = Max(s) /\ \A y \in s : m >= y
  BY <1>3 DEF Max
<1>5. QED BY <1>2, <1>4

\* That function exists, by induction on the number of turns.
LEMMA FoldExists ==
    ASSUME NEW d, NEW bytes, NEW k \in Nat
    PROVE  \E it : IsFold(d, bytes, k, it)
<1> DEFINE S == {j \in Nat : \E it : IsFold(d, bytes, j, it)}
<1>1. 0 \in S
  <2>1. \A s \in SUBSET (1..0) : s = {}
    OBVIOUS
  <2>2. IsFold(d, bytes, 0, [s \in SUBSET (1..0) |-> d])
    BY <2>1 DEF IsFold
  <2>3. QED BY <2>2
<1>2. ASSUME NEW j \in Nat, j \in S
      PROVE  j + 1 \in S
  <2>1. PICK it : IsFold(d, bytes, j, it)
    BY <1>2
  <2> DEFINE more == [s \in SUBSET (1..j + 1) |->
                        IF j + 1 \in s THEN Consume(it[s \ {j + 1}], bytes[j + 1]) ELSE it[s]]
  <2>2. \A s \in SUBSET (1..j + 1) :
            more[s] = IF s = {} THEN d ELSE Consume(more[s \ {Max(s)}], bytes[Max(s)])
    <3> TAKE s \in SUBSET (1..j + 1)
    <3>1. \A t \in SUBSET (1..j) : j + 1 \notin t /\ t \in SUBSET (1..j + 1)
      OBVIOUS
    <3>2. \A t \in SUBSET (1..j) : more[t] = it[t]
      BY <3>1
    <3>3. CASE j + 1 \in s
      <4>1. Max(s) = j + 1
        BY <3>3, MaxOf
      <4>2. s \ {j + 1} \in SUBSET (1..j)
        OBVIOUS
      <4>3. more[s] = Consume(it[s \ {j + 1}], bytes[j + 1])
        BY <3>3
      <4> HIDE DEF more
      <4>4. QED BY <3>2, <3>3, <4>1, <4>2, <4>3
    <3>4. CASE j + 1 \notin s
      <4>1. s \in SUBSET (1..j)
        BY <3>4
      <4>2. s \ {Max(s)} \in SUBSET (1..j)
        BY <4>1
      <4>3. it[s] = IF s = {} THEN d ELSE Consume(it[s \ {Max(s)}], bytes[Max(s)])
        BY <2>1, <4>1 DEF IsFold
      <4> HIDE DEF more
      <4>4. QED BY <3>2, <4>1, <4>2, <4>3
    <3>5. QED BY <3>3, <3>4
  <2>3. more = [s \in SUBSET (1..j + 1) |-> more[s]]
    OBVIOUS
  <2> HIDE DEF more
  <2>4. IsFold(d, bytes, j + 1, more)
    BY <2>2, <2>3 DEF IsFold
  <2>5. QED BY <2>4
<1> HIDE DEF S
<1>3. k \in S
  BY <1>1, <1>2, Induction
<1>4. QED BY <1>3 DEF S

\* The loop of decode(), turn by turn.
LEMMA Turns ==
    ASSUME NEW d, NEW bytes \in Text
    PROVE  \E turn : /\ turn[0] = d
                     /\ \A i \in 1..Len(bytes) : turn[i] = Consume(turn[i - 1], bytes[i])
                     /\ FoldLeft(Consume, d, bytes) = turn[Len(bytes)]
<1>1. PICK k \in Nat : k = Len(bytes)
  BY DEF Text
<1>2. \E it : IsFold(d, bytes, k, it)
  BY FoldExists
<1>3. PICK it : IsFold(d, bytes, k, it) /\ FoldLeft(Consume, d, bytes) = it[1..k]
  BY <1>1, <1>2, FoldIs
<1> DEFINE turn == [i \in 0..k |-> it[1..i]]
<1>4. turn[0] = d
  <2>1. 1..0 = {} /\ {} \in SUBSET (1..k)
    OBVIOUS
  <2>2. QED BY <1>3, <2>1 DEF IsFold
<1>5. ASSUME NEW i \in 1..k
      PROVE  turn[i] = Consume(turn[i - 1], bytes[i])
  <2>1. PICK j \in Nat : i = j + 1
    BY <1>1
  <2>2. Max(1..i) = i
    BY <2>1, MaxOf
  <2>3. (1..i) \ {i} = 1..j /\ 1..i # {} /\ 1..i \in SUBSET (1..k)
    BY <2>1
  <2>4. it[1..i] = Consume(it[1..j], bytes[i])
    BY <1>3, <2>2, <2>3 DEF IsFold
  <2>5. i - 1 = j /\ j \in 0..k /\ i \in 0..k
    BY <2>1
  <2>6. QED BY <2>4, <2>5
<1>6. turn[k] = it[1..k]
  OBVIOUS
<1> HIDE DEF turn
<1>7. QED BY <1>1, <1>3, <1>4, <1>5, <1>6

-----------------------------------------------------------------------------
(* What one turn does to the fields of the decoder and to the points of    *)
(* the call, branch by branch of the loop's body.                          *)

\* What a call of decode() works on, between two turns.
Code == 0..LargestPoint
FieldSet == [needed : Nat, seen : Nat, codePoint : Nat, lower : Nat, upper : Nat]
Calling == [fields : FieldSet, points : Seq(Code), threw : BOOLEAN]

\* The code points are the numbers up to the largest.
LEMMA CodeIs ==
    /\ LargestPoint \in Nat
    /\ \A a \in Nat : a \in Code <=> a <= LargestPoint
<1>1. LargestPoint \in Nat
  BY SMT DEF LargestPoint
<1>2. QED BY <1>1 DEF Code

\* The payload of the first n bytes of a sequence, a, b and c.
Top(a) == IF Need(a) = 1 THEN a - 192 ELSE IF Need(a) = 2 THEN a - 224 ELSE a - 240

Bits(n, a, b, c) ==
    IF n = 1 THEN Top(a)
    ELSE IF n = 2 THEN Top(a) * 64 + (b - 128) ELSE (Top(a) * 64 + (b - 128)) * 64 + (c - 128)

\* The fields of a decoder that has n bytes of a sequence, a, b and c.
Has(f, n, a, b, c) ==
    /\ f \in FieldSet
    /\ n = 0 => f = Rest
    /\ n > 0 => /\ f.needed = Need(a) /\ f.seen = n - 1 /\ f.codePoint = Bits(n, a, b, c)
                /\ f.lower = IF n = 1 THEN Low(a) ELSE 128
                /\ f.upper = IF n = 1 THEN High(a) ELSE 191

\* The fields of a decoder at rest.
LEMMA RestIs == Rest \in FieldSet /\ Rest.needed = 0 /\ Rest.lower = 128 /\ Rest.upper = 191
BY DEF Rest, FieldSet

\* push() adds a point and leaves the fields.
LEMMA PushIs ==
    ASSUME NEW d \in Calling, NEW x \in Code
    PROVE  /\ Push(d, x) \in Calling
           /\ Push(d, x).fields = d.fields
           /\ Push(d, x).points = Append(d.points, x)
           /\ Push(d, x).threw = d.threw
BY DEF Calling, Push

\* #reset() puts the fields at rest and leaves the points.
LEMMA ResetIs ==
    ASSUME NEW d \in Calling
    PROVE  /\ Reset(d) \in Calling
           /\ Reset(d).fields = Rest
           /\ Reset(d).points = d.points
           /\ Reset(d).threw = d.threw
<1>1. Rest \in FieldSet
  BY RestIs
<1>2. QED BY <1>1 DEF Calling, Reset

\* #malformed() throws when fatal, or adds U+FFFD.
LEMMA MalformedIs ==
    ASSUME NEW d \in Calling
    PROVE  /\ Malformed(d) \in Calling
           /\ Malformed(d).fields = d.fields
           /\ fatal => Malformed(d).points = d.points /\ Malformed(d).threw = TRUE
           /\ ~fatal => Malformed(d).points = Append(d.points, REPLACEMENT) /\ Malformed(d).threw =
                    d.threw
<1>1. REPLACEMENT \in Code
  <2>1. REPLACEMENT \in Nat /\ REPLACEMENT <= LargestPoint
    BY SMT DEF REPLACEMENT, LargestPoint
  <2>2. QED BY <2>1, CodeIs
<1>2. CASE fatal
  BY <1>2 DEF Calling, Malformed
<1>3. CASE ~fatal
  <2>1. Malformed(d) = Push(d, REPLACEMENT)
    BY <1>3 DEF Malformed
  <2>2. QED BY <1>1, <1>3, <2>1, PushIs
<1>4. QED BY <1>2, <1>3

\* A call that goes on with these fields and nothing else changed.
GoesOn(e, d, needed, seen, codePoint, lower, upper) ==
    /\ e \in Calling
    /\ e.points = d.points
    /\ e.threw = d.threw
    /\ e.fields.needed = needed
    /\ e.fields.seen = seen
    /\ e.fields.codePoint = codePoint
    /\ e.fields.lower = lower
    /\ e.fields.upper = upper

\* The assignments at the first byte of a sequence.
LEMMA StartIs ==
    ASSUME NEW d \in Calling, NEW n \in Nat, NEW m \in Nat
    PROVE  GoesOn(Start(d, n, m), d, n, 0, m, d.fields.lower, d.fields.upper)
BY DEF GoesOn, Calling, FieldSet, Start

\* The range of the second byte.
LEMMA WithinIs ==
    ASSUME NEW d \in Calling, NEW l \in Nat, NEW u \in Nat
    PROVE  GoesOn(Within(d, l, u), d, d.fields.needed, d.fields.seen, d.fields.codePoint, l, u)
BY DEF GoesOn, Calling, FieldSet, Within

\* Both, for a first byte with a narrower range.
LEMMA BegunIs ==
    ASSUME NEW d \in Calling, NEW n \in Nat, NEW m \in Nat, NEW l \in Nat, NEW u \in Nat
    PROVE  GoesOn(Within(Start(d, n, m), l, u), d, n, 0, m, l, u)
<1>1. PICK s : s = Start(d, n, m)
  OBVIOUS
<1>2. GoesOn(s, d, n, 0, m, d.fields.lower, d.fields.upper)
  BY <1>1, StartIs
<1>3. s \in Calling
  BY <1>2 DEF GoesOn
<1>4. GoesOn(Within(s, l, u), s, s.fields.needed, s.fields.seen, s.fields.codePoint, l, u)
  BY <1>3, WithinIs
<1>5. QED BY <1>1, <1>2, <1>4 DEF GoesOn

\* The turn of a decoder at rest, by the byte: a point, the beginning of a
\* character, or malformed.
LEMMA LeadIs ==
    ASSUME NEW d \in Calling, d.fields = Rest, ~d.threw, NEW a \in Nat, NEW b, NEW c
    PROVE  /\ Lead(d, a) \in Calling
           /\ a <= 127 => /\ Lead(d, a).fields = Rest /\ ~Lead(d, a).threw
                          /\ Lead(d, a).points = Append(d.points, a)
           /\ a \in 194..244 => /\ Has(Lead(d, a).fields, 1, a, b, c) /\ ~Lead(d, a).threw
                                /\ Lead(d, a).points = d.points
           /\ ~(a <= 127) /\ a \notin 194..244 =>
                /\ Lead(d, a).fields = Rest
                /\ Lead(d, a).threw <=> fatal
                /\ ~fatal => Lead(d, a).points = Append(d.points, REPLACEMENT)
<1>1. CASE a <= 127
  <2>1. Lead(d, a) = Push(d, a) /\ a \notin 194..244
    BY <1>1 DEF Lead
  <2>2. a \in Code
    <3>1. a <= LargestPoint
      BY <1>1, SMT DEF LargestPoint
    <3>2. QED BY <3>1, CodeIs
  <2>3. QED BY <1>1, <2>1, <2>2, PushIs
<1>2. CASE a \in 194..223
  <2>1. PICK m \in Nat : m = a % 32 /\ m = a - 192
    BY <1>2
  <2>2. Need(a) = 1 /\ Low(a) = 128 /\ High(a) = 191
    BY <1>2 DEF Need, Low, High
  <2>3. Lead(d, a) = Start(d, 1, m)
    BY <1>2, <2>1 DEF Lead
  <2>4. PICK e : e = Lead(d, a) /\ GoesOn(e, d, 1, 0, m, 128, 191)
    <3>1. 1 \in Nat
      OBVIOUS
    <3>2. GoesOn(Start(d, 1, m), d, 1, 0, m, d.fields.lower, d.fields.upper)
      BY <3>1, StartIs
    <3>3. QED BY <2>3, <3>2, RestIs
  <2>5. e \in Calling /\ e.fields \in FieldSet
    BY <2>4 DEF Calling, GoesOn
  <2>6. Has(e.fields, 1, a, b, c)
    BY <2>1, <2>2, <2>4, <2>5 DEF Has, Bits, Top, GoesOn
  <2>7. ~(a <= 127)
    BY <1>2
  <2>8. QED BY <2>4, <2>5, <2>6, <2>7, <1>2 DEF GoesOn
<1>3. CASE a \in 224..239
  <2>1. PICK m \in Nat : m = a % 16 /\ m = a - 224
    BY <1>3
  <2>2. Need(a) = 2
    BY <1>3 DEF Need
  <2>3. PICK l \in Nat : l = Low(a) /\ l = IF a = 224 THEN 160 ELSE 128
    BY <1>3 DEF Low
  <2>4. PICK u \in Nat : u = High(a) /\ u = IF a = 237 THEN 159 ELSE 191
    BY <1>3 DEF High
  <2>5. Lead(d, a) = Within(Start(d, 2, m), l, u)
    BY <1>3, <2>1, <2>3, <2>4 DEF Lead
  <2>6. PICK e : e = Lead(d, a) /\ GoesOn(e, d, 2, 0, m, l, u)
    <3>1. 2 \in Nat
      OBVIOUS
    <3>2. GoesOn(Within(Start(d, 2, m), l, u), d, 2, 0, m, l, u)
      BY <3>1, BegunIs
    <3>3. QED BY <2>5, <3>2
  <2>7. Has(e.fields, 1, a, b, c)
    <3>1. e.fields \in FieldSet
      BY <2>6 DEF Calling, GoesOn
    <3>2. QED BY <2>1, <2>2, <2>3, <2>4, <2>6, <3>1 DEF Has, Bits, Top, GoesOn
  <2>8. ~(a <= 127) /\ a \in 194..244
    BY <1>3
  <2>9. QED BY <2>6, <2>7, <2>8 DEF GoesOn
<1>4. CASE a \in 240..244
  <2>1. PICK m \in Nat : m = a % 8 /\ m = a - 240
    BY <1>4
  <2>2. Need(a) = 3
    BY <1>4 DEF Need
  <2>3. PICK l \in Nat : l = Low(a) /\ l = IF a = 240 THEN 144 ELSE 128
    BY <1>4 DEF Low
  <2>4. PICK u \in Nat : u = High(a) /\ u = IF a = 244 THEN 143 ELSE 191
    BY <1>4 DEF High
  <2>5. Lead(d, a) = Within(Start(d, 3, m), l, u)
    BY <1>4, <2>1, <2>3, <2>4 DEF Lead
  <2>6. PICK e : e = Lead(d, a) /\ GoesOn(e, d, 3, 0, m, l, u)
    <3>1. 3 \in Nat
      OBVIOUS
    <3>2. GoesOn(Within(Start(d, 3, m), l, u), d, 3, 0, m, l, u)
      BY <3>1, BegunIs
    <3>3. QED BY <2>5, <3>2
  <2>7. Has(e.fields, 1, a, b, c)
    <3>1. e.fields \in FieldSet
      BY <2>6 DEF Calling, GoesOn
    <3>2. QED BY <2>1, <2>2, <2>3, <2>4, <2>6, <3>1 DEF Has, Bits, Top, GoesOn
  <2>8. ~(a <= 127) /\ a \in 194..244
    BY <1>4
  <2>9. QED BY <2>6, <2>7, <2>8 DEF GoesOn
<1>5. CASE a \notin 194..244 /\ ~(a <= 127)
  <2>1. Lead(d, a) = Malformed(d)
    BY <1>5 DEF Lead
  <2>2. QED BY <1>5, <2>1, MalformedIs
<1>6. QED BY <1>1, <1>2, <1>3, <1>4, <1>5

FieldsAre(g, needed, seen, codePoint, lower, upper) ==
    /\ g \in FieldSet
    /\ g.needed = needed /\ g.seen = seen /\ g.codePoint = codePoint
    /\ g.lower = lower /\ g.upper = upper

\* A record with four of its fields replaced.
LEMMA SetFour ==
    ASSUME NEW f \in FieldSet, NEW n \in Nat, NEW m \in Nat
    PROVE  FieldsAre([f EXCEPT !.lower = 128, !.upper = 191, !.codePoint = m, !.seen = n],
                     f.needed, n, m, 128, 191)
<1>1. PICK g : g = [f EXCEPT !.lower = 128, !.upper = 191, !.codePoint = m, !.seen = n]
  OBVIOUS
<1>2. PICK l \in Nat : l = 128
  OBVIOUS
<1>3. PICK u \in Nat : u = 191
  OBVIOUS
<1>4. g = [f EXCEPT !.lower = l, !.upper = u, !.codePoint = m, !.seen = n]
  BY <1>1, <1>2, <1>3
<1>5. g.needed = f.needed /\ g.seen = n /\ g.codePoint = m /\ g.lower = l /\ g.upper = u
  BY <1>4 DEF FieldSet
<1>6. g \in FieldSet
  BY <1>4 DEF FieldSet
<1>7. QED BY <1>1, <1>2, <1>3, <1>5, <1>6 DEF FieldsAre

\* The same in the record of a call.
LEMMA AdvancedIs ==
    ASSUME NEW d \in Calling, NEW n \in Nat, NEW m \in Nat
    PROVE  GoesOn([d EXCEPT !.fields = [d.fields EXCEPT !.lower = 128, !.upper = 191, !.codePoint =
             m, !.seen = n]],
                  d, d.fields.needed, n, m, 128, 191)
<1>1. PICK f \in FieldSet : f = d.fields
  BY DEF Calling
<1>2. PICK g : g = [f EXCEPT !.lower = 128, !.upper = 191, !.codePoint = m, !.seen = n]
  OBVIOUS
<1>3. g \in FieldSet /\ g.needed = f.needed /\ g.seen = n /\ g.codePoint = m /\ g.lower = 128 /\
         g.upper = 191
  <2>1. FieldsAre([f EXCEPT !.lower = 128, !.upper = 191, !.codePoint = m, !.seen = n],
                  f.needed, n, m, 128, 191)
    BY SetFour
  <2>2. QED BY <1>2, <2>1 DEF FieldsAre
<1>4. PICK e : e = [d EXCEPT !.fields = g]
  OBVIOUS
<1>5. e \in Calling /\ e.points = d.points /\ e.threw = d.threw /\ e.fields = g
  BY <1>3, <1>4 DEF Calling
<1>6. e = [d EXCEPT !.fields = [d.fields EXCEPT !.lower = 128, !.upper = 191, !.codePoint = m,
         !.seen = n]]
  BY <1>1, <1>2, <1>4
<1>7. QED BY <1>1, <1>3, <1>5, <1>6 DEF GoesOn

\* One more byte of a sequence: its last, or one after which more are to come.
WentOn(e, r, n, a, b, c, x) ==
    /\ e \in Calling /\ ~e.threw
    /\ n = Need(a) => /\ e.fields = Rest
                      /\ Bits(n, a, b, c) * 64 + (x - 128) \in Code
                      /\ e.points = Append(r.points, Bits(n, a, b, c) * 64 + (x - 128))
    /\ n # Need(a) => /\ e.points = r.points
                      /\ n = 1 => Has(e.fields, 2, a, x, c)
                      /\ n = 2 => Has(e.fields, 3, a, b, x)
                      /\ n # 3

\* The turn of a byte within its range: the character is complete, or its
\* fields stand for one byte more.
LEMMA ContinueIs ==
    ASSUME NEW d \in Calling, ~d.threw, NEW n \in 1..3,
           NEW a \in Nat, NEW b \in Nat, NEW c \in Nat, NEW x \in Nat,
           Sound(n, a, b, c, 0), n < 1 + Need(a), Has(d.fields, n, a, b, c), x \in 128..191
    PROVE  WentOn(Continue(d, x), d, n, a, b, c, x)
<1>1. PICK f \in FieldSet : f = d.fields
  BY DEF Calling
<1>2. PICK p \in Nat : p = Bits(n, a, b, c) /\ f.codePoint = p
  <2>1. f.codePoint \in Nat
    BY DEF FieldSet
  <2>2. QED BY <1>1, <2>1 DEF Has
<1>3. f.needed = Need(a) /\ f.seen = n - 1 /\ Need(a) \in 0..3
  BY <1>1 DEF Has, Need
<1>4. PICK q \in Nat : q = p * 64 + (x - 128) /\ q = p * 64 + (x % 64)
  <2>1. x % 64 = x - 128
    OBVIOUS
  <2>2. QED BY <2>1
<1> DEFINE e == [d EXCEPT !.fields =
                    [d.fields EXCEPT !.lower = 128, !.upper = 191,
                              !.codePoint = @ * 64 + (x % 64), !.seen = @ + 1]]
<1>5. GoesOn(e, d, Need(a), n, q, 128, 191)
  <2>1. d.fields.codePoint * 64 + (x % 64) = q /\ d.fields.seen + 1 = n
    BY <1>1, <1>2, <1>3, <1>4
  <2>2. e = [d EXCEPT !.fields = [d.fields EXCEPT !.lower = 128, !.upper = 191, !.codePoint = q,
           !.seen = n]]
    BY <2>1
  <2>3. GoesOn([d EXCEPT !.fields = [d.fields EXCEPT !.lower = 128, !.upper = 191, !.codePoint = q,
           !.seen = n]],
               d, d.fields.needed, n, q, 128, 191)
    <3>1. n \in Nat
      OBVIOUS
    <3>2. QED BY <3>1, AdvancedIs
  <2> HIDE DEF e
  <2>4. QED BY <1>1, <1>3, <2>2, <2>3
<1>6. Continue(d, x) = IF e.fields.seen = e.fields.needed THEN Reset(Push(e, e.fields.codePoint)) ELSE e
  BY DEF Continue
<1> HIDE DEF e
<1>7. /\ e \in Calling /\ e.points = d.points /\ ~e.threw /\ e.fields \in FieldSet
      /\ e.fields.lower = 128 /\ e.fields.upper = 191
      /\ e.fields.codePoint = q /\ e.fields.seen = n /\ e.fields.needed = Need(a)
  BY <1>5 DEF GoesOn, Calling
<1>8. CASE n = Need(a)
  <2>1. Continue(d, x) = Reset(Push(e, q))
    BY <1>7, <1>6, <1>8
  <2>2. q \in Code
    <3>1. CASE n = 1
      <4>1. q <= LargestPoint
        BY <1>2, <1>4, <1>8, <3>1, SMT DEF Bits, Top, Sound, Need, LargestPoint
      <4>2. QED BY <4>1, CodeIs
    <3>2. CASE n = 2
      <4>1. q <= LargestPoint
        BY <1>2, <1>4, <1>8, <3>2, SMT DEF Bits, Top, Sound, Need, Low, High, LargestPoint
      <4>2. QED BY <4>1, CodeIs
    <3>3. CASE n = 3
      <4>1. q <= LargestPoint
        BY <1>2, <1>4, <1>8, <3>3, SMT DEF Bits, Top, Sound, Need, Low, High, LargestPoint
      <4>2. QED BY <4>1, CodeIs
    <3>4. QED BY <3>1, <3>2, <3>3
  <2>3. PICK h \in Calling : h = Push(e, q) /\ h.points = Append(d.points, q) /\ ~h.threw
    <3>1. Push(e, q) \in Calling /\ Push(e, q).points = Append(e.points, q) /\ Push(e, q).threw =
             e.threw
      BY <1>7, <2>2, PushIs
    <3>2. QED BY <1>7, <3>1
  <2>4. Continue(d, x) = Reset(h)
    BY <2>1, <2>3
  <2>5. QED BY <1>2, <1>4, <1>8, <2>2, <2>3, <2>4, ResetIs DEF WentOn
<1>9. CASE n # Need(a)
  <2>1. Continue(d, x) = e
    BY <1>7, <1>6, <1>9
  <2>2. n # 3
    BY <1>3, <1>9
  <2>3. ASSUME n = 1 PROVE Has(e.fields, 2, a, x, c)
    <3>1. Bits(2, a, x, c) = q
      BY <1>2, <1>4, <2>3 DEF Bits
    <3>2. QED BY <1>7, <2>3, <3>1 DEF Has
  <2>4. ASSUME n = 2 PROVE Has(e.fields, 3, a, b, x)
    <3>1. Bits(3, a, b, x) = q
      BY <1>2, <1>4, <2>4 DEF Bits
    <3>2. QED BY <1>7, <2>4, <3>1 DEF Has
  <2>5. QED BY <1>7, <1>9, <2>1, <2>2, <2>3, <2>4 DEF WentOn
<1>10. QED BY <1>8, <1>9

\* The fields of a decoder in the middle of these bytes.
Keeps(f, p) ==
    /\ IsSubpart(p)
    /\ \E n, a, b, c, d \in Nat : Are(p, n, a, b, c, d) /\ Has(f, n, a, b, c)

\* What a turn of the loop makes of a piece.
Reads(e, points, q) ==
    /\ e \in Calling
    /\ IsCharacter(q) => /\ ~e.threw /\ e.fields = Rest
                         /\ PointOf(q) \in Code /\ e.points = Append(points, PointOf(q))
    /\ IsSubpart(q) => ~e.threw /\ Keeps(e.fields, q) /\ e.points = points
    /\ ~Fits(q) => /\ e.threw <=> fatal
                   /\ e.fields = Rest
                   /\ ~fatal => e.points = Append(points, REPLACEMENT)

\* The fields are at rest just when they stand for no bytes.
LEMMA KeepsNothing ==
    /\ Keeps(Rest, <<>>)
    /\ \A f : Keeps(f, <<>>) => f = Rest
<1>1. <<>> \in Text /\ Len(<<>>) = 0
  BY DEF Text
<1>2. IsSubpart(<<>>)
  BY <1>1, Lengths
<1>3. 0 \in Nat /\ Are(<<>>, 0, 0, 0, 0, 0) /\ Has(Rest, 0, 0, 0, 0)
  BY <1>1, RestIs DEF Are, Has
<1>4. ASSUME NEW f, Keeps(f, <<>>)
      PROVE  f = Rest
  <2>1. PICK n \in Nat, a \in Nat, b \in Nat, c \in Nat, d \in Nat : Are(<<>>, n, a, b, c, d) /\
           Has(f, n, a, b, c)
    BY <1>4 DEF Keeps
  <2>2. n = 0
    BY <1>1, <2>1 DEF Are
  <2>3. QED BY <2>1, <2>2 DEF Has
<1>5. Keeps(Rest, <<>>)
  BY <1>2, <1>3 DEF Keeps
<1>6. QED BY <1>4, <1>5

\* The turn at rest reads the byte as a piece of its own.
LEMMA FirstIs ==
    ASSUME NEW r \in Calling, r.fields = Rest, ~r.threw, NEW x \in Byte
    PROVE  Reads(Lead(r, x), r.points, <<x>>)
<1>1. PICK a \in Nat : a = x
  BY ByteNat
<1>2. <<x>> \in Text /\ Are(<<x>>, 1, a, 0, 0, 0)
  BY <1>1 DEF Text, Are
<1>3. /\ IsCharacter(<<x>>) <=> Sound(1, a, 0, 0, 0) /\ 1 = 1 + Need(a)
      /\ IsSubpart(<<x>>) <=> Sound(1, a, 0, 0, 0) /\ 1 < 1 + Need(a)
  <2>1. 1 \in Nat /\ 0 \in Nat /\ 1 >= 1 /\ 1 # 0
    OBVIOUS
  <2>2. /\ IsCharacter(<<x>>) <=> 1 >= 1 /\ Sound(1, a, 0, 0, 0) /\ 1 = 1 + Need(a)
        /\ IsSubpart(<<x>>) <=> 1 = 0 \/ (Sound(1, a, 0, 0, 0) /\ 1 < 1 + Need(a))
    BY <1>2, <2>1, Table DEF Text
  <2>3. QED BY <2>1, <2>2
<1>4. /\ IsCharacter(<<x>>) <=> a <= 127
      /\ IsSubpart(<<x>>) <=> a \in 194..244
  BY <1>3 DEF Sound, Need
<1>5. PICK e : e = Lead(r, a)
  OBVIOUS
<1>6. /\ e \in Calling
      /\ a <= 127 => e.fields = Rest /\ ~e.threw /\ e.points = Append(r.points, a)
      /\ a \in 194..244 => Has(e.fields, 1, a, 0, 0) /\ ~e.threw /\ e.points = r.points
      /\ ~(a <= 127) /\ a \notin 194..244 =>
           /\ e.fields = Rest
           /\ e.threw <=> fatal
           /\ ~fatal => e.points = Append(r.points, REPLACEMENT)
  BY <1>5, LeadIs
<1>7. IsCharacter(<<x>>) => /\ ~e.threw /\ e.fields = Rest
                            /\ PointOf(<<x>>) \in Code /\ e.points = Append(r.points, PointOf(<<x>>))
  <2>1. PointOf(<<x>>) = a
    BY <1>1 DEF PointOf
  <2>2. a <= 127 => a \in Code
    <3>1. a <= 127 => a <= LargestPoint
      BY SMT DEF LargestPoint
    <3>2. QED BY <3>1, CodeIs
  <2>3. QED BY <1>4, <1>6, <2>1, <2>2
<1>8. IsSubpart(<<x>>) => ~e.threw /\ Keeps(e.fields, <<x>>) /\ e.points = r.points
  <2>1. 1 \in Nat /\ 0 \in Nat
    OBVIOUS
  <2>2. IsSubpart(<<x>>) => Keeps(e.fields, <<x>>)
    BY <1>2, <1>4, <1>6, <2>1 DEF Keeps
  <2>3. QED BY <1>4, <1>6, <2>2
<1>9. ~Fits(<<x>>) => /\ e.threw <=> fatal
                      /\ e.fields = Rest
                      /\ ~fatal => e.points = Append(r.points, REPLACEMENT)
  BY <1>4, <1>6 DEF Fits
<1>10. QED BY <1>1, <1>5, <1>6, <1>7, <1>8, <1>9 DEF Reads

\* The first four bytes of a sequence with one more byte.
LEMMA NextByte ==
    ASSUME NEW p \in Text, NEW x \in Byte, NEW y \in Nat, y = x,
           NEW n \in 1..3, NEW a \in Nat, NEW b \in Nat, NEW c \in Nat, NEW d \in Nat,
                    Are(p, n, a, b, c, d)
    PROVE  /\ Append(p, x) \in Text
           /\ n = 1 => Are(Append(p, x), 2, a, y, c, d)
           /\ n = 2 => Are(Append(p, x), 3, a, b, y, d)
           /\ n = 3 => Are(Append(p, x), 4, a, b, c, y)
<1>1. /\ Append(p, x) \in Text /\ Len(Append(p, x)) = n + 1 /\ Append(p, x)[n + 1] = y
      /\ \A i \in 1..n : Append(p, x)[i] = p[i]
  BY DEF Text, Are
<1>2. PICK q : q = Append(p, x)
  OBVIOUS
<1>3. CASE n = 1
  <2>1. Len(q) = 2 /\ q[2] = y /\ q[1] = p[1]
    BY <1>1, <1>2, <1>3
  <2>2. QED BY <1>1, <1>2, <1>3, <2>1 DEF Are
<1>4. CASE n = 2
  <2>1. Len(q) = 3 /\ q[3] = y /\ q[1] = p[1] /\ q[2] = p[2]
    BY <1>1, <1>2, <1>4
  <2>2. QED BY <1>1, <1>2, <1>4, <2>1 DEF Are
<1>5. CASE n = 3
  <2>1. Len(q) = 4 /\ q[4] = y /\ q[1] = p[1] /\ q[2] = p[2] /\ q[3] = p[3]
    BY <1>1, <1>2, <1>5
  <2>2. QED BY <1>1, <1>2, <1>5, <2>1 DEF Are
<1>6. QED BY <1>3, <1>4, <1>5

\* Going on with a sequence.
LEMMA GoOnIs ==
    ASSUME NEW r \in Calling, ~r.threw, NEW p \in Text, p # <<>>, Keeps(r.fields, p), NEW x \in Byte
    PROVE  /\ r.fields.needed # 0
           /\ Fits(Append(p, x)) <=> x \in r.fields.lower..r.fields.upper
           /\ Fits(Append(p, x)) => Reads(Continue(r, x), r.points, Append(p, x))
<1>1. PICK y \in Nat : y = x
  BY ByteNat
<1>2. PICK n \in Nat, a \in Nat, b \in Nat, c \in Nat, d \in Nat : Are(p, n, a, b, c, d) /\
         Has(r.fields, n, a, b, c)
  BY DEF Keeps
<1>3. n # 0 /\ Sound(n, a, b, c, d) /\ n < 1 + Need(a)
  <2>1. n = Len(p) /\ Len(p) # 0
    BY <1>2 DEF Are, Text
  <2>2. IsSubpart(p) <=> n = 0 \/ (Sound(n, a, b, c, d) /\ n < 1 + Need(a))
    BY <1>2, Table DEF Text
  <2>3. QED BY <2>1, <2>2 DEF Keeps
<1>4. Need(a) \in 0..3 /\ n \in 1..3 /\ Sound(n, a, b, c, 0)
  <2>1. Need(a) \in 0..3
    BY DEF Need
  <2>2. QED BY <1>3, <2>1 DEF Sound
<1>5. /\ r.fields.needed = Need(a)
      /\ r.fields.lower = IF n = 1 THEN Low(a) ELSE 128
      /\ r.fields.upper = IF n = 1 THEN High(a) ELSE 191
  BY <1>2, <1>4 DEF Has
<1>6. PICK q \in Text : q = Append(p, x)
  <2>1. Append(p, x) \in Text
    BY DEF Text
  <2>2. QED BY <2>1
<1>7. /\ n = 1 => Are(q, 2, a, y, c, d)
      /\ n = 2 => Are(q, 3, a, b, y, d)
      /\ n = 3 => Are(q, 4, a, b, c, y)
  BY <1>1, <1>2, <1>4, <1>6, NextByte
<1>8. /\ n = 1 => (IsCharacter(q) <=> Sound(2, a, y, c, d) /\ 2 = 1 + Need(a))
                  /\ (IsSubpart(q) <=> Sound(2, a, y, c, d) /\ 2 < 1 + Need(a))
      /\ n = 2 => (IsCharacter(q) <=> Sound(3, a, b, y, d) /\ 3 = 1 + Need(a))
                  /\ (IsSubpart(q) <=> Sound(3, a, b, y, d) /\ 3 < 1 + Need(a))
      /\ n = 3 => (IsCharacter(q) <=> Sound(4, a, b, c, y) /\ 4 = 1 + Need(a))
                  /\ (IsSubpart(q) <=> Sound(4, a, b, c, y) /\ 4 < 1 + Need(a))
  <2>1. 2 \in Nat /\ 3 \in Nat /\ 4 \in Nat /\ 2 >= 1 /\ 3 >= 1 /\ 4 >= 1 /\ 2 # 0 /\ 3 # 0 /\ 4 # 0
    OBVIOUS
  <2>2. CASE n = 1
    <3>1. /\ IsCharacter(q) <=> 2 >= 1 /\ Sound(2, a, y, c, d) /\ 2 = 1 + Need(a)
          /\ IsSubpart(q) <=> 2 = 0 \/ (Sound(2, a, y, c, d) /\ 2 < 1 + Need(a))
      BY <1>7, <2>1, <2>2, Table DEF Text
    <3>2. QED BY <2>1, <2>2, <3>1
  <2>3. CASE n = 2
    <3>1. /\ IsCharacter(q) <=> 3 >= 1 /\ Sound(3, a, b, y, d) /\ 3 = 1 + Need(a)
          /\ IsSubpart(q) <=> 3 = 0 \/ (Sound(3, a, b, y, d) /\ 3 < 1 + Need(a))
      BY <1>7, <2>1, <2>3, Table DEF Text
    <3>2. QED BY <2>1, <2>3, <3>1
  <2>4. CASE n = 3
    <3>1. /\ IsCharacter(q) <=> 4 >= 1 /\ Sound(4, a, b, c, y) /\ 4 = 1 + Need(a)
          /\ IsSubpart(q) <=> 4 = 0 \/ (Sound(4, a, b, c, y) /\ 4 < 1 + Need(a))
      BY <1>7, <2>1, <2>4, Table DEF Text
    <3>2. QED BY <2>1, <2>4, <3>1
  <2>5. QED BY <1>4, <2>2, <2>3, <2>4
<1>9. PICK l \in Nat : l = IF n = 1 THEN Low(a) ELSE 128
  <2>1. Low(a) \in Nat
    BY DEF Low
  <2>2. QED BY <2>1
<1>10. PICK u \in Nat : u = IF n = 1 THEN High(a) ELSE 191
  <2>1. High(a) \in Nat
    BY DEF High
  <2>2. QED BY <2>1
<1>11. /\ IsCharacter(q) <=> y \in l..u /\ n = Need(a)
       /\ IsSubpart(q) <=> y \in l..u /\ n # Need(a)
  <2>1. CASE n = 1
    BY <1>3, <1>4, <1>8, <1>9, <1>10, <2>1 DEF Sound
  <2>2. CASE n = 2
    BY <1>3, <1>4, <1>8, <1>9, <1>10, <2>2 DEF Sound
  <2>3. CASE n = 3
    BY <1>3, <1>4, <1>8, <1>9, <1>10, <2>3 DEF Sound
  <2>4. QED BY <1>4, <2>1, <2>2, <2>3
<1>12. l >= 128 /\ u <= 191
  BY <1>9, <1>10 DEF Low, High
<1>13. ASSUME Fits(q)
       PROVE  Reads(Continue(r, x), r.points, q)
  <2>1. y \in 128..191
    BY <1>11, <1>12, <1>13 DEF Fits
  <2>2. PICK e : e = Continue(r, y)
    OBVIOUS
  <2>3. /\ e \in Calling /\ ~e.threw
        /\ n = Need(a) => /\ e.fields = Rest
                          /\ Bits(n, a, b, c) * 64 + (y - 128) \in Code
                          /\ e.points = Append(r.points, Bits(n, a, b, c) * 64 + (y - 128))
        /\ n # Need(a) => /\ e.points = r.points
                          /\ n = 1 => Has(e.fields, 2, a, y, c)
                          /\ n = 2 => Has(e.fields, 3, a, b, y)
                          /\ n # 3
    <3>1. WentOn(Continue(r, y), r, n, a, b, c, y)
      BY <1>2, <1>3, <1>4, <2>1, ContinueIs
    <3>2. QED BY <2>2, <3>1 DEF WentOn
  <2>4. CASE n = Need(a)
    <3>1. IsCharacter(q) /\ ~IsSubpart(q)
      BY <1>11, <1>13, <2>4 DEF Fits
    <3>2. PointOf(q) = Bits(n, a, b, c) * 64 + (y - 128)
      <4>1. CASE n = 1
        <5>1. Len(q) = 2 /\ q[1] = a /\ q[2] = y
          BY <1>7, <4>1 DEF Are
        <5>2. PointOf(q) = (a - 192) * 64 + y - 128
          BY <5>1 DEF PointOf
        <5>3. Bits(n, a, b, c) = a - 192
          BY <2>4, <4>1 DEF Bits, Top
        <5>4. QED BY <5>2, <5>3
      <4>2. CASE n = 2
        <5>1. Len(q) = 3 /\ q[1] = a /\ q[2] = b /\ q[3] = y
          BY <1>7, <4>2 DEF Are
        <5>2. PointOf(q) = (a - 224) * 4096 + (b - 128) * 64 + y - 128
          BY <5>1 DEF PointOf
        <5>3. Bits(n, a, b, c) = (a - 224) * 64 + (b - 128)
          BY <2>4, <4>2 DEF Bits, Top
        <5>4. QED BY <5>2, <5>3
      <4>3. CASE n = 3
        <5>1. Len(q) = 4 /\ q[1] = a /\ q[2] = b /\ q[3] = c /\ q[4] = y
          BY <1>7, <4>3 DEF Are
        <5>2. PointOf(q) = (a - 240) * 262144 + (b - 128) * 4096 + (c - 128) * 64 + y - 128
          BY <5>1 DEF PointOf
        <5>3. Bits(n, a, b, c) = ((a - 240) * 64 + (b - 128)) * 64 + (c - 128)
          BY <2>4, <4>3 DEF Bits, Top
        <5>4. QED BY <5>2, <5>3
      <4>4. QED BY <1>4, <4>1, <4>2, <4>3
    <3>3. QED BY <1>1, <2>2, <2>3, <2>4, <3>1, <3>2 DEF Reads, Fits
  <2>5. CASE n # Need(a)
    <3>1. IsSubpart(q) /\ ~IsCharacter(q)
      BY <1>11, <1>13, <2>5 DEF Fits
    <3>2. Keeps(e.fields, q)
      <4>1. 2 \in Nat /\ 3 \in Nat
        OBVIOUS
      <4>2. CASE n = 1
        BY <1>7, <2>3, <2>5, <3>1, <4>1, <4>2 DEF Keeps
      <4>3. CASE n = 2
        BY <1>7, <2>3, <2>5, <3>1, <4>1, <4>3 DEF Keeps
      <4>4. QED BY <1>4, <2>3, <2>5, <4>2, <4>3
    <3>3. QED BY <1>1, <2>2, <2>3, <2>5, <3>1, <3>2 DEF Reads, Fits
  <2>6. QED BY <2>4, <2>5
<1>14. QED BY <1>1, <1>3, <1>4, <1>5, <1>6, <1>9, <1>10, <1>11, <1>13 DEF Fits

\* One turn of the loop: the byte goes on with the kept bytes when they fit
\* together; otherwise the kept bytes are malformed and the byte is looked at
\* again (`reconsume`).
LEMMA TurnIs ==
    ASSUME NEW r \in Calling, ~r.threw, NEW p \in Text, Keeps(r.fields, p), NEW x \in Byte
    PROVE  /\ p = <<>> \/ Fits(Append(p, x)) => Reads(Consume(r, x), r.points, Append(p, x))
           /\ p # <<>> /\ ~Fits(Append(p, x)) =>
                /\ fatal => /\ Consume(r, x) \in Calling
                            /\ Consume(r, x).threw /\ Consume(r, x).fields = Rest
                /\ ~fatal => Reads(Consume(r, x), Append(r.points, REPLACEMENT), <<x>>)
<1>1. CASE p = <<>>
  <2>1. r.fields = Rest
    BY <1>1, KeepsNothing
  <2>2. Consume(r, x) = Lead(r, x)
    BY <2>1, RestIs DEF Consume
  <2>3. Append(p, x) = <<x>>
    BY <1>1
  <2>4. QED BY <1>1, <2>1, <2>2, <2>3, FirstIs
<1>2. CASE p # <<>>
  <2>1. /\ r.fields.needed # 0
        /\ Fits(Append(p, x)) <=> x \in r.fields.lower..r.fields.upper
        /\ Fits(Append(p, x)) => Reads(Continue(r, x), r.points, Append(p, x))
    BY <1>2, GoOnIs
  <2>2. CASE Fits(Append(p, x))
    <3>1. Consume(r, x) = Continue(r, x)
      BY <2>1, <2>2 DEF Consume
    <3>2. QED BY <1>2, <2>1, <2>2, <3>1
  <2>3. CASE ~Fits(Append(p, x))
    <3>1. PICK s : s = Reset(r)
      OBVIOUS
    <3>2. s \in Calling /\ s.fields = Rest /\ s.points = r.points /\ s.threw = r.threw
      BY <3>1, ResetIs
    <3>3. PICK e : e = Malformed(s)
      OBVIOUS
    <3>4. /\ e \in Calling /\ e.fields = Rest
          /\ fatal => e.threw
          /\ ~fatal => e.points = Append(r.points, REPLACEMENT) /\ ~e.threw
      BY <3>2, <3>3, MalformedIs
    <3>5. Consume(r, x) = IF e.threw THEN e ELSE Lead(e, x)
      BY <2>1, <2>3, <3>1, <3>3 DEF Consume
    <3>6. CASE fatal
      BY <1>2, <2>3, <3>4, <3>5, <3>6
    <3>7. CASE ~fatal
      <4>1. Reads(Lead(e, x), e.points, <<x>>)
        BY <3>4, <3>7, FirstIs
      <4>2. QED BY <1>2, <2>3, <3>4, <3>5, <3>7, <4>1
    <3>8. QED BY <3>6, <3>7
  <2>4. QED BY <2>2, <2>3
<1>3. QED BY <1>1, <1>2

-----------------------------------------------------------------------------
(* Pieces and points: what the decided pieces of a text are decoded to,    *)
(* and how one more byte changes it.                                       *)

\* The piece that is not finished yet.
Pending(pieces) ==
    IF pieces # <<>> /\ IsSubpart(pieces[Len(pieces)]) THEN pieces[Len(pieces)] ELSE <<>>

\* None of the decided pieces is malformed.
Clean(pieces) == \A i \in DOMAIN Decided(pieces) : IsCharacter(Decided(pieces)[i])

\* A sequence of pieces.
CutUp(pieces) == pieces \in Seq(Text) /\ \A i \in 1..Len(pieces) : pieces[i] # <<>>

Value(q) == IF IsCharacter(q) THEN PointOf(q) ELSE REPLACEMENT

\* A character is decoded to a code point.
LEMMA PieceIn ==
    ASSUME NEW q \in Text
    PROVE  IsCharacter(q) => PointOf(q) \in Code
<1> SUFFICES ASSUME IsCharacter(q) PROVE PointOf(q) \in Code
  OBVIOUS
<1>1. PICK n \in Nat, a \in Nat, b \in Nat, c \in Nat, d \in Nat : Are(q, n, a, b, c, d)
  BY FirstFour DEF Text
<1>2. n >= 1 /\ Sound(n, a, b, c, d) /\ n = 1 + Need(a)
  BY <1>1, Table DEF Text
<1>3. n \in 1..4 /\ n = Len(q)
  BY <1>1, <1>2 DEF Need, Are
<1>4. CASE n = 1
  <2>1. PointOf(q) = a
    BY <1>1, <1>3, <1>4 DEF PointOf, Are
  <2>2. a <= LargestPoint
    BY <1>2, <1>4, SMT DEF Sound, LargestPoint
  <2>3. QED BY <2>1, <2>2, CodeIs
<1>5. CASE n = 2
  <2>1. PointOf(q) = (a - 192) * 64 + b - 128
    BY <1>1, <1>3, <1>5 DEF PointOf, Are
  <2>2. a \in 192..223 /\ b \in 128..191
    BY <1>2, <1>5 DEF Sound, Need, Low, High
  <2>3. PICK v \in Nat : v = (a - 192) * 64 + b - 128
    BY <2>2
  <2>4. v <= LargestPoint
    BY <2>2, <2>3, SMT DEF LargestPoint
  <2>5. QED BY <2>1, <2>3, <2>4, CodeIs
<1>6. CASE n = 3
  <2>1. PointOf(q) = (a - 224) * 4096 + (b - 128) * 64 + c - 128
    BY <1>1, <1>3, <1>6 DEF PointOf, Are
  <2>2. a \in 224..239 /\ b \in 128..191 /\ c \in 128..191
    BY <1>2, <1>6 DEF Sound, Need, Low, High
  <2>3. PICK v \in Nat : v = (a - 224) * 4096 + (b - 128) * 64 + c - 128
    BY <2>2
  <2>4. v <= LargestPoint
    BY <2>2, <2>3, SMT DEF LargestPoint
  <2>5. QED BY <2>1, <2>3, <2>4, CodeIs
<1>7. CASE n = 4
  <2>1. PointOf(q) = (a - 240) * 262144 + (b - 128) * 4096 + (c - 128) * 64 + d - 128
    BY <1>1, <1>3, <1>7 DEF PointOf, Are
  <2>2. a \in 240..244 /\ b \in 128..191 /\ c \in 128..191 /\ d \in 128..191 /\ (a = 244 => b <= 143)
    BY <1>2, <1>7 DEF Sound, Need, Low, High
  <2>3. PICK v \in Nat : v = (a - 240) * 262144 + (b - 128) * 4096 + (c - 128) * 64 + d - 128
    BY <2>2
  <2>4. v <= LargestPoint
    BY <2>2, <2>3, SMT DEF LargestPoint
  <2>5. QED BY <2>1, <2>3, <2>4, CodeIs
<1>8. QED BY <1>3, <1>4, <1>5, <1>6, <1>7

\* A piece is decoded to a code point.
LEMMA ValueIn ==
    ASSUME NEW q \in Text
    PROVE  Value(q) \in Code
<1>1. REPLACEMENT \in Code
  <2>1. REPLACEMENT \in Nat /\ REPLACEMENT <= LargestPoint
    BY SMT DEF REPLACEMENT, LargestPoint
  <2>2. QED BY <2>1, CodeIs
<1>2. QED BY <1>1, PieceIn DEF Value

\* PointsOf, piece by piece.
LEMMA PointsAre ==
    ASSUME NEW pieces \in Seq(Text)
    PROVE  /\ PointsOf(pieces) \in Seq(Code)
           /\ Len(PointsOf(pieces)) = Len(pieces)
           /\ \A i \in 1..Len(pieces) : PointsOf(pieces)[i] = Value(pieces[i])
<1>1. DOMAIN pieces = 1..Len(pieces) /\ Len(pieces) \in Nat
  OBVIOUS
<1>2. PointsOf(pieces) = [i \in 1..Len(pieces) |-> Value(pieces[i])]
  BY <1>1 DEF PointsOf, Value
<1>3. \A i \in 1..Len(pieces) : Value(pieces[i]) \in Code
  BY ValueIn
<1>4. QED BY <1>1, <1>2, <1>3

\* PointsOf of one piece more.
LEMMA PointsAppend ==
    ASSUME NEW body \in Seq(Text), NEW q \in Text
    PROVE  PointsOf(Append(body, q)) = Append(PointsOf(body), Value(q))
<1>1. PICK n \in Nat : n = Len(body)
  OBVIOUS
<1>2. PICK next \in Seq(Text) : next = Append(body, q) /\ Len(next) = n + 1 /\ next[n + 1] = q
                                /\ \A i \in 1..n : next[i] = body[i]
  <2>1. /\ Append(body, q) \in Seq(Text) /\ Len(Append(body, q)) = Len(body) + 1
        /\ Append(body, q)[Len(body) + 1] = q
        /\ \A i \in 1..Len(body) : Append(body, q)[i] = body[i]
    BY AppendProperties
  <2>2. QED BY <1>1, <2>1
<1>3. /\ PointsOf(body) \in Seq(Code) /\ Len(PointsOf(body)) = n
      /\ \A i \in 1..n : PointsOf(body)[i] = Value(body[i])
  BY <1>1, PointsAre
<1>4. /\ PointsOf(next) \in Seq(Code) /\ Len(PointsOf(next)) = n + 1
      /\ \A i \in 1..n + 1 : PointsOf(next)[i] = Value(next[i])
  BY <1>2, PointsAre
<1>5. Value(q) \in Code
  BY ValueIn
<1>6. PICK s : s = PointsOf(body)
  OBVIOUS
<1>7. /\ Append(s, Value(q)) \in Seq(Code) /\ Len(Append(s, Value(q))) = n + 1
      /\ Append(s, Value(q))[n + 1] = Value(q)
      /\ \A i \in 1..n : Append(s, Value(q))[i] = s[i]
  BY <1>3, <1>5, <1>6, AppendProperties
<1>8. \A i \in 1..n + 1 : PointsOf(next)[i] = Append(s, Value(q))[i]
  <2> TAKE i \in 1..n + 1
  <2>1. CASE i = n + 1
    BY <1>2, <1>4, <1>7, <2>1
  <2>2. CASE i # n + 1
    <3>1. i \in 1..n
      BY <2>2
    <3>2. QED BY <1>2, <1>3, <1>4, <1>6, <1>7, <3>1
  <2>3. QED BY <2>1, <2>2
<1>9. PICK t \in Seq(Code) : t = PointsOf(next) /\ Len(t) = n + 1
  BY <1>4
<1>10. t = Append(s, Value(q))
  BY <1>7, <1>8, <1>9, SeqEqual
<1>11. QED BY <1>2, <1>6, <1>9, <1>10

\* The pieces, once q has come after those with these points.
Adds(next, points, q) ==
    /\ CutUp(next)
    /\ IsCharacter(q) => Pending(next) = <<>> /\ PointsOf(Decided(next)) = Append(points, PointOf(q))
    /\ IsSubpart(q) => Pending(next) = q /\ PointsOf(Decided(next)) = points
    /\ ~Fits(q) => Pending(next) = <<>> /\ PointsOf(Decided(next)) = Append(points, REPLACEMENT)

AllCharacters(pieces) == \A i \in 1..Len(pieces) : IsCharacter(pieces[i])

\* One more piece after pieces of which none is pending.
LEMMA AppendPiece ==
    ASSUME NEW body, CutUp(body), NEW q \in Text, q # <<>>
    PROVE  /\ Adds(Append(body, q), PointsOf(body), q)
           /\ Clean(Append(body, q)) <=> AllCharacters(body) /\ Fits(q)
           /\ Front(Append(body, q)) = body
<1>1. PICK n \in Nat : n = Len(body)
  BY DEF CutUp
<1>2. body \in Seq(Text)
  BY DEF CutUp
<1>3. PICK next \in Seq(Text) : next = Append(body, q) /\ Len(next) = n + 1 /\ next[n + 1] = q
                                /\ \A i \in 1..n : next[i] = body[i]
  <2>1. /\ Append(body, q) \in Seq(Text) /\ Len(Append(body, q)) = Len(body) + 1
        /\ Append(body, q)[Len(body) + 1] = q
        /\ \A i \in 1..Len(body) : Append(body, q)[i] = body[i]
    BY <1>2, AppendProperties
  <2>2. QED BY <1>1, <2>1
<1>4. next # <<>> /\ DOMAIN next = 1..n + 1 /\ DOMAIN body = 1..n /\ \A i \in 1..n + 1 :
         i \in 1..n \/ i = n + 1
  BY <1>1, <1>2, <1>3
<1>5. CutUp(next)
  BY <1>1, <1>3, <1>4 DEF CutUp
<1>6. Front(next) = body
  <2>1. n + 1 - 1 = n /\ n \in Int /\ 1 \in Int /\ n - 1 + 1 = n
    OBVIOUS
  <2>2. \A i \in 1..n : next[i] \in Text
    BY <1>3, <1>4
  <2>3. /\ SubSeq(next, 1, n) \in Seq(Text)
        /\ Len(SubSeq(next, 1, n)) = IF 1 <= n THEN n - 1 + 1 ELSE 0
        /\ \A i \in 1..n - 1 + 1 : SubSeq(next, 1, n)[i] = next[1 + i - 1]
    BY <2>1, <2>2, SubSeqProperties
  <2>4. Len(SubSeq(next, 1, n)) = n
    BY <2>3
  <2>5. \A i \in 1..n : SubSeq(next, 1, n)[i] = body[i]
    BY <1>3, <2>1, <2>3
  <2>6. SubSeq(next, 1, n) = body
    BY <1>1, <1>2, <2>3, <2>4, <2>5, SeqEqual
  <2>7. QED BY <1>3, <2>1, <2>6 DEF Front
<1>7. Decided(next) = (IF IsSubpart(q) THEN body ELSE next) /\ Pending(next) =
         (IF IsSubpart(q) THEN q ELSE <<>>)
  BY <1>3, <1>4, <1>6 DEF Decided, Pending
<1>8. PointsOf(next) = Append(PointsOf(body), Value(q))
  BY <1>2, <1>3, PointsAppend
<1>9. Clean(next) <=> AllCharacters(body) /\ Fits(q)
  <2>1. CASE IsSubpart(q)
    BY <1>1, <1>4, <1>7, <2>1 DEF Clean, AllCharacters, Fits
  <2>2. CASE ~IsSubpart(q)
    <3>1. Clean(next) <=> \A i \in 1..n + 1 : IsCharacter(next[i])
      BY <1>4, <1>7, <2>2 DEF Clean
    <3>2. Clean(next) <=> AllCharacters(body) /\ IsCharacter(q)
      BY <1>1, <1>3, <1>4, <3>1 DEF AllCharacters
    <3>3. QED BY <2>2, <3>2 DEF Fits
  <2>3. QED BY <2>1, <2>2
<1>10. IsCharacter(q) => ~IsSubpart(q)
  BY Lengths
<1>11. Adds(next, PointsOf(body), q)
  BY <1>5, <1>7, <1>8, <1>10 DEF Adds, Value, Fits
<1>12. QED BY <1>3, <1>6, <1>9, <1>11

\* A piece with one more byte.
LEMMA Grown ==
    ASSUME NEW q \in Text, NEW x \in Byte
    PROVE  /\ Append(q, x) \in Text
           /\ Append(q, x) # <<>>
           /\ Len(q) \in 0..Len(Append(q, x)) /\ Len(q) # Len(Append(q, x))
           /\ SubSeq(Append(q, x), 1, Len(q)) = q
<1>1. Append(q, x) \in Text /\ Len(Append(q, x)) = Len(q) + 1 /\ Len(q) \in Nat
  BY DEF Text
<1>2. Append(q, x) # <<>>
  BY AppendProperties DEF Text
<1>3. SubSeq(Append(q, x), 1, Len(q)) = q
  BY DEF Text
<1>4. Len(q) \in 0..Len(Append(q, x)) /\ Len(q) # Len(Append(q, x))
  <2>1. PICK n \in Nat : n = Len(q) /\ Len(Append(q, x)) = n + 1
    BY <1>1
  <2>2. n \in 0..n + 1 /\ n # n + 1
    OBVIOUS
  <2>3. QED BY <2>1, <2>2
<1>5. QED BY <1>1, <1>2, <1>3, <1>4

\* Pieces are those that are decided, and one that may not be.
LEMMA DecidedAndPending ==
    ASSUME NEW pieces, CutUp(pieces)
    PROVE  /\ Pending(pieces) \in Text
           /\ Pending(pieces) # <<>> => IsSubpart(Pending(pieces))
           /\ CutUp(Decided(pieces))
           /\ Clean(pieces) <=> AllCharacters(Decided(pieces))
           /\ Pending(pieces) = <<>> => Decided(pieces) = pieces
           /\ Pending(pieces) # <<>> => pieces = Append(Decided(pieces), Pending(pieces))
<1>1. PICK n \in Nat : n = Len(pieces)
  BY DEF CutUp
<1>2. pieces \in Seq(Text) /\ <<>> \in Text
  BY DEF CutUp, Text
<1>3. CASE n = 0 \/ ~IsSubpart(pieces[n])
  <2>1. Decided(pieces) = pieces /\ Pending(pieces) = <<>>
    BY <1>1, <1>2, <1>3 DEF Decided, Pending
  <2>2. DOMAIN pieces = 1..Len(pieces)
    BY <1>2
  <2>3. QED BY <1>2, <2>1, <2>2 DEF Clean, AllCharacters
<1>4. CASE n # 0 /\ IsSubpart(pieces[n])
  <2>1. PICK m \in Nat : n = m + 1
    BY <1>4
  <2>2. n \in 1..n /\ pieces # <<>>
    BY <1>1, <1>2, <1>4
  <2>3. pieces[n] \in Text /\ pieces[n] # <<>>
    BY <1>1, <1>2, <2>2 DEF CutUp
  <2>4. Decided(pieces) = Front(pieces) /\ Pending(pieces) = pieces[n]
    BY <1>1, <1>4, <2>2 DEF Decided, Pending
  <2>5. PICK body : body = SubSeq(pieces, 1, m)
    OBVIOUS
  <2>6. Front(pieces) = body
    <3>1. m + 1 - 1 = m
      OBVIOUS
    <3>2. QED BY <1>1, <2>1, <2>5, <3>1 DEF Front
  <2>7. /\ body \in Seq(Text) /\ Len(body) = m
        /\ \A i \in 1..m : body[i] = pieces[i]
    <3>1. m \in Int /\ 1 \in Int /\ m - 1 + 1 = m
      OBVIOUS
    <3>2. \A i \in 1..m : pieces[i] \in Text
      <4>1. \A i \in 1..m : i \in 1..n
        BY <2>1
      <4>2. QED BY <1>1, <1>2, <4>1, ElementOfSeq
    <3>3. /\ SubSeq(pieces, 1, m) \in Seq(Text)
          /\ Len(SubSeq(pieces, 1, m)) = IF 1 <= m THEN m - 1 + 1 ELSE 0
          /\ \A i \in 1..m - 1 + 1 : SubSeq(pieces, 1, m)[i] = pieces[1 + i - 1]
      BY <3>1, <3>2, SubSeqProperties
    <3>4. \A i \in 1..m : 1 + i - 1 = i
      OBVIOUS
    <3>5. QED BY <2>5, <3>1, <3>3, <3>4
  <2>8. CutUp(body)
    BY <1>1, <2>1, <2>7 DEF CutUp
  <2>9. pieces = Append(body, pieces[n])
    <3>1. /\ Append(body, pieces[n]) \in Seq(Text) /\ Len(Append(body, pieces[n])) = n
          /\ Append(body, pieces[n])[n] = pieces[n]
          /\ \A i \in 1..m : Append(body, pieces[n])[i] = body[i]
      <4>1. PICK q \in Text : q = pieces[n]
        BY <2>3
      <4>2. /\ Append(body, q) \in Seq(Text) /\ Len(Append(body, q)) = Len(body) + 1
            /\ Append(body, q)[Len(body) + 1] = q
            /\ \A i \in 1..Len(body) : Append(body, q)[i] = body[i]
        BY <2>7, AppendProperties
      <4>3. QED BY <2>1, <2>7, <4>1, <4>2
    <3>2. PICK t \in Seq(Text) : t = Append(body, pieces[n]) /\ Len(t) = n
      BY <3>1
    <3>3. \A i \in 1..n : t[i] = pieces[i]
      <4> TAKE i \in 1..n
      <4>1. i = n \/ i \in 1..m
        BY <2>1
      <4>2. QED BY <2>7, <3>1, <3>2, <4>1
    <3>4. t = pieces
      BY <1>1, <1>2, <3>2, <3>3, SeqEqual
    <3>5. QED BY <3>2, <3>4
  <2>10. DOMAIN body = 1..Len(body)
    BY <2>7
  <2>11. QED BY <1>4, <2>3, <2>4, <2>6, <2>8, <2>9, <2>10 DEF Clean, AllCharacters
<1>5. QED BY <1>3, <1>4

\* One more byte: it goes on with the piece that is pending or begins one;
\* when it does not go on with one, that one is malformed.
LEMMA ExtendIs ==
    ASSUME NEW pieces, CutUp(pieces), NEW x \in Byte
    PROVE  LET p == Pending(pieces)
               points == PointsOf(Decided(pieces))
               next == Extend(pieces, x)
           IN  /\ p = <<>> \/ Fits(Append(p, x)) =>
                     /\ Adds(next, points, Append(p, x))
                     /\ Clean(next) <=> Clean(pieces) /\ Fits(Append(p, x))
               /\ p # <<>> /\ ~Fits(Append(p, x)) =>
                     /\ Adds(next, Append(points, REPLACEMENT), <<x>>)
                     /\ ~Clean(next)
<1> DEFINE p == Pending(pieces)
           body == Decided(pieces)
<1>1. /\ p \in Text
      /\ p # <<>> => IsSubpart(p)
      /\ CutUp(body) /\ (Clean(pieces) <=> AllCharacters(body))
      /\ p = <<>> => body = pieces
      /\ p # <<>> => pieces = Append(body, p)
  BY DecidedAndPending
<1>2. <<x>> \in Text /\ <<x>> # <<>> /\ Append(<<>>, x) = <<x>>
  BY DEF Text
<1> HIDE DEF p, body
<1>3. pieces \in Seq(Text) /\ DOMAIN pieces = 1..Len(pieces)
  BY DEF CutUp
<1>4. CASE p = <<>>
  <2>1. Extend(pieces, x) = Append(pieces, <<x>>)
    <3>1. CASE pieces = <<>>
      BY <3>1 DEF Extend
    <3>2. CASE pieces # <<>>
      <4>1. PICK n \in Nat : n = Len(pieces) /\ n # 0
        <5>1. Len(pieces) # 0 /\ Len(pieces) \in Nat
          BY <1>3, <3>2
        <5>2. QED BY <5>1
      <4>2. n \in 1..n
        BY <4>1
      <4>3. pieces[n] \in Text /\ pieces[n] # <<>>
        BY <1>3, <4>1, <4>2 DEF CutUp
      <4>4. ~IsSubpart(pieces[n])
        BY <1>4, <3>2, <4>1, <4>3 DEF Pending, p
      <4>5. ~Fits(Append(pieces[n], x))
        <5>1. PICK q \in Text : q = pieces[n]
          BY <4>3
        <5>2. Fits(Append(q, x)) => IsSubpart(q)
          BY Grown, PrefixFits
        <5>3. QED BY <4>4, <5>1, <5>2
      <4>6. QED BY <3>2, <4>1, <4>5 DEF Extend
    <3>3. QED BY <3>1, <3>2
  <2>2. Adds(Append(body, <<x>>), PointsOf(body), <<x>>) /\
           (Clean(Append(body, <<x>>)) <=> AllCharacters(body) /\ Fits(<<x>>))
    BY <1>1, <1>2, AppendPiece
  <2>3. QED BY <1>1, <1>2, <1>4, <2>1, <2>2 DEF body, p
<1>5. CASE p # <<>>
  <2>1. PICK n \in Nat : n = Len(pieces) /\ n # 0 /\ pieces[n] = p /\ pieces # <<>>
    <3>1. pieces # <<>> /\ pieces[Len(pieces)] = p
      BY <1>5 DEF Pending, p
    <3>2. Len(pieces) # 0 /\ Len(pieces) \in Nat
      BY <1>3, <3>1
    <3>3. QED BY <3>1, <3>2
  <2>2. CASE Fits(Append(p, x))
    <3>1. PICK q : q = Append(p, x)
      OBVIOUS
    <3>2. q \in Text /\ q # <<>>
      BY <1>1, <3>1, Grown
    <3>3. Extend(pieces, x) = [pieces EXCEPT ![n] = q]
      BY <2>1, <2>2, <3>1 DEF Extend
    <3>4. [pieces EXCEPT ![n] = q] = Append(body, q)
      <4>1. PICK m \in Nat : n = m + 1
        BY <2>1
      <4>2. body \in Seq(Text) /\ Len(body) = m /\ \A i \in 1..m : pieces[i] = body[i]
        <5>1. PICK s \in Seq(Text) : s = body
          BY <1>1 DEF CutUp
        <5>2. /\ Len(Append(s, p)) = Len(s) + 1
              /\ \A i \in 1..Len(s) : Append(s, p)[i] = s[i]
          BY <1>1, AppendProperties
        <5>3. Len(s) = m
          <6>1. PICK z \in Nat : z = Len(s)
            OBVIOUS
          <6>2. m + 1 = z + 1
            BY <1>1, <1>5, <2>1, <4>1, <5>1, <5>2, <6>1
          <6>3. QED BY <6>1, <6>2
        <5>4. QED BY <1>1, <1>5, <5>1, <5>2, <5>3
      <4>3. PICK s \in Seq(Text) : s = body
        BY <4>2
      <4>4. /\ Append(s, q) \in Seq(Text) /\ Len(Append(s, q)) = Len(s) + 1
            /\ \A i \in 1..Len(s) : Append(s, q)[i] = s[i]
            /\ Append(s, q)[Len(s) + 1] = q
        BY <3>2, AppendProperties
      <4>5. n \in 1..Len(pieces)
        BY <2>1
      <4>6. /\ [pieces EXCEPT ![n] = q] \in Seq(Text)
            /\ Len([pieces EXCEPT ![n] = q]) = Len(pieces)
            /\ \A j \in 1 .. Len(pieces) : [pieces EXCEPT ![n] = q][j] = IF j=n THEN q ELSE pieces[j]
        BY <1>3, <3>2, <4>5, ExceptSeq
      <4>7. PICK t \in Seq(Text) : t = [pieces EXCEPT ![n] = q] /\ Len(t) = n
        BY <2>1, <4>6
      <4>8. \A j \in 1..n : t[j] = Append(s, q)[j]
        <5> TAKE j \in 1..n
        <5>1. j = n \/ j \in 1..m
          BY <4>1
        <5>2. CASE j = n
          BY <2>1, <4>1, <4>2, <4>3, <4>4, <4>6, <4>7, <5>2
        <5>3. CASE j # n /\ j \in 1..m
          BY <2>1, <4>2, <4>3, <4>4, <4>6, <4>7, <5>3
        <5>4. QED BY <5>1, <5>2, <5>3
      <4>9. t = Append(s, q)
        BY <4>1, <4>2, <4>3, <4>4, <4>7, <4>8, SeqEqual
      <4>10. QED BY <4>3, <4>7, <4>9
    <3>5. Adds(Append(body, q), PointsOf(body), q) /\
             (Clean(Append(body, q)) <=> AllCharacters(body) /\ Fits(q))
      BY <1>1, <3>2, AppendPiece
    <3>6. QED BY <1>1, <2>2, <3>1, <3>3, <3>4, <3>5 DEF body, p
  <2>3. CASE ~Fits(Append(p, x))
    <3>1. Extend(pieces, x) = Append(pieces, <<x>>)
      BY <2>1, <2>3 DEF Extend
    <3>2. Adds(Append(pieces, <<x>>), PointsOf(pieces), <<x>>) /\
             (Clean(Append(pieces, <<x>>)) <=> AllCharacters(pieces) /\ Fits(<<x>>))
      BY <1>2, AppendPiece
    <3>3. IsSubpart(p) /\ ~IsCharacter(p)
      BY <1>1, <1>5, Lengths
    <3>4. ~AllCharacters(pieces)
      <4>1. n \in 1..Len(pieces)
        BY <2>1
      <4>2. QED BY <2>1, <3>3, <4>1 DEF AllCharacters
    <3>5. PointsOf(pieces) = Append(PointsOf(body), REPLACEMENT)
      <4>1. body \in Seq(Text)
        BY <1>1 DEF CutUp
      <4>2. PointsOf(Append(body, p)) = Append(PointsOf(body), Value(p))
        BY <1>1, <4>1, PointsAppend
      <4>3. QED BY <1>1, <1>5, <3>3, <4>2 DEF Value
    <3>6. QED BY <1>5, <2>3, <3>1, <3>2, <3>4, <3>5 DEF body, p
  <2>4. QED BY <2>2, <2>3
<1>6. QED BY <1>4, <1>5

\* The loop of decode() and the pieces of the stream: the points before the
\* call are `base`.
Follows(r, pieces, base) ==
    /\ CutUp(pieces)
    /\ r \in Calling
    /\ r.threw => fatal /\ ~Clean(pieces) /\ r.fields = Rest
    /\ ~r.threw => /\ Keeps(r.fields, Pending(pieces))
                   /\ PointsOf(Decided(pieces)) = base \o r.points
                   /\ fatal => Clean(pieces)

\* Append and concatenation.
LEMMA ConcatAppend ==
    ASSUME NEW base \in Seq(Code), NEW s \in Seq(Code), NEW v \in Code
    PROVE  base \o Append(s, v) = Append(base \o s, v)
OBVIOUS

\* One turn of the loop follows one byte more of the text.
LEMMA TurnFollows ==
    ASSUME NEW r, NEW pieces, NEW base \in Seq(Code), Follows(r, pieces, base), NEW x \in Byte
    PROVE  Follows(Consume(r, x), Extend(pieces, x), base)
<1> DEFINE p == Pending(pieces)
           points == PointsOf(Decided(pieces))
           next == Extend(pieces, x)
           e == Consume(r, x)
<1>1. /\ p = <<>> \/ Fits(Append(p, x)) =>
           Adds(next, points, Append(p, x)) /\ (Clean(next) <=> Clean(pieces) /\ Fits(Append(p, x)))
      /\ p # <<>> /\ ~Fits(Append(p, x)) => Adds(next, Append(points, REPLACEMENT), <<x>>) /\
               ~Clean(next)
  BY ExtendIs DEF Follows
<1>2. p \in Text
  BY DecidedAndPending DEF Follows
<1>3. r \in Calling /\ r.points \in Seq(Code) /\ REPLACEMENT \in Code
  <2>1. REPLACEMENT \in Nat /\ REPLACEMENT <= LargestPoint
    BY SMT DEF REPLACEMENT, LargestPoint
  <2>2. QED BY <2>1, CodeIs DEF Follows, Calling
<1> HIDE DEF p, points, next, e
\* What one piece does to both.
<1>4. ASSUME NEW q, NEW before \in Seq(Code), q \in Text,
             Adds(next, base \o before, q), Reads(e, before, q),
             fatal /\ Fits(q) => Clean(next), ~Fits(q) => ~Clean(next)
      PROVE  Follows(e, next, base)
  <2>1. CASE IsCharacter(q)
    <3>1. /\ ~e.threw /\ e.fields = Rest /\ PointOf(q) \in Code /\ e.points = Append(before, PointOf(q))
          /\ Pending(next) = <<>>
          /\ PointsOf(Decided(next)) = Append(base \o before, PointOf(q))
          /\ e \in Calling /\ CutUp(next)
      BY <1>4, <2>1 DEF Adds, Reads
    <3>2. base \o e.points = Append(base \o before, PointOf(q))
      BY <3>1, ConcatAppend
    <3>3. QED BY <1>4, <2>1, <3>1, <3>2, KeepsNothing DEF Follows, Fits
  <2>2. CASE IsSubpart(q)
    BY <1>4, <2>2 DEF Adds, Reads, Follows, Fits
  <2>3. CASE ~Fits(q)
    <3>1. /\ e.threw <=> fatal
          /\ e.fields = Rest
          /\ ~fatal => e.points = Append(before, REPLACEMENT)
          /\ Pending(next) = <<>>
          /\ PointsOf(Decided(next)) = Append(base \o before, REPLACEMENT)
          /\ e \in Calling /\ CutUp(next)
      BY <1>4, <2>3 DEF Adds, Reads
    <3>2. ~fatal => base \o e.points = Append(base \o before, REPLACEMENT)
      BY <1>3, <3>1, ConcatAppend
    <3>3. QED BY <1>4, <2>3, <3>1, <3>2, KeepsNothing DEF Follows
  <2>4. QED BY <2>1, <2>2, <2>3 DEF Fits
<1>5. CASE r.threw
  <2>1. e = r
    BY <1>5 DEF Consume, e
  <2>2. fatal /\ ~Clean(pieces) /\ r.fields = Rest
    BY <1>5 DEF Follows
  <2>3. CutUp(next) /\ ~Clean(next)
    <3>1. CASE p = <<>> \/ Fits(Append(p, x))
      BY <1>1, <2>2, <3>1 DEF Adds
    <3>2. CASE p # <<>> /\ ~Fits(Append(p, x))
      BY <1>1, <3>2 DEF Adds
    <3>3. QED BY <3>1, <3>2
  <2>4. Follows(e, next, base)
    BY <1>3, <1>5, <2>1, <2>2, <2>3 DEF Follows
  <2>5. QED BY <2>4 DEF e, next
<1>6. CASE ~r.threw
  <2>1. Keeps(r.fields, p) /\ points = base \o r.points /\ (fatal => Clean(pieces))
    BY <1>6 DEF Follows, p, points
  <2>2. /\ p = <<>> \/ Fits(Append(p, x)) => Reads(e, r.points, Append(p, x))
        /\ p # <<>> /\ ~Fits(Append(p, x)) =>
             /\ fatal => e \in Calling /\ e.threw /\ e.fields = Rest
             /\ ~fatal => Reads(e, Append(r.points, REPLACEMENT), <<x>>)
    BY <1>2, <1>3, <1>6, <2>1, TurnIs DEF e
  <2>3. CASE p = <<>> \/ Fits(Append(p, x))
    <3>1. Append(p, x) \in Text
      BY <1>2, Grown
    <3>2. Adds(next, base \o r.points, Append(p, x)) /\ Reads(e, r.points, Append(p, x))
      BY <1>1, <2>1, <2>2, <2>3
    <3>3. Clean(next) <=> Clean(pieces) /\ Fits(Append(p, x))
      BY <1>1, <2>3
    <3>4. QED BY <1>3, <1>4, <2>1, <3>1, <3>2, <3>3 DEF e, next
  <2>4. CASE p # <<>> /\ ~Fits(Append(p, x))
    <3>1. <<x>> \in Text
      BY DEF Text
    <3>2. Append(r.points, REPLACEMENT) \in Seq(Code)
          /\ base \o Append(r.points, REPLACEMENT) = Append(base \o r.points, REPLACEMENT)
      BY <1>3, ConcatAppend
    <3>3. Adds(next, base \o Append(r.points, REPLACEMENT), <<x>>) /\ ~Clean(next)
      BY <1>1, <2>1, <2>4, <3>2
    <3>4. CASE fatal
      <4>1. CutUp(next) /\ ~Clean(next)
        BY <3>3 DEF Adds
      <4>2. Follows(e, next, base)
        BY <2>2, <2>4, <3>4, <4>1 DEF Follows
      <4>3. QED BY <4>2 DEF e, next
    <3>5. CASE ~fatal
      <4>1. Reads(e, Append(r.points, REPLACEMENT), <<x>>)
        BY <2>2, <2>4, <3>5
      <4>2. QED BY <1>4, <3>1, <3>2, <3>3, <3>5, <4>1 DEF e, next
    <3>6. QED BY <3>4, <3>5
  <2>5. QED BY <2>3, <2>4
<1>7. QED BY <1>5, <1>6

-----------------------------------------------------------------------------
(* A chunk: the turns of one call follow the pieces of all bytes so far.   *)

\* The bytes before a call and the first i of its chunk.
UpTo(w, chunk, i) == w \o SubSeq(chunk, 1, i)

\* Bytes or code points, one at a time.
GrowsBy(S, w, chunk) ==
    /\ UpTo(w, chunk, 0) = w
    /\ UpTo(w, chunk, Len(chunk)) = w \o chunk
    /\ \A i \in Nat : i + 1 <= Len(chunk) =>
          /\ i + 1 \in 1..Len(chunk)
          /\ chunk[i + 1] \in S
          /\ UpTo(w, chunk, i) \in Seq(S)
          /\ UpTo(w, chunk, i + 1) = Append(UpTo(w, chunk, i), chunk[i + 1])

\* How a concatenation grows with the second sequence, element by element.
LEMMA Grows ==
    ASSUME NEW S, NEW w \in Seq(S), NEW chunk \in Seq(S)
    PROVE  GrowsBy(S, w, chunk)
<1>1. PICK k \in Nat : k = Len(chunk)
  OBVIOUS
<1>2. UpTo(w, chunk, 0) = w
  BY DEF UpTo
<1>3. UpTo(w, chunk, k) = w \o chunk
  BY <1>1 DEF UpTo
<1>4. ASSUME NEW i \in Nat, i + 1 <= k
      PROVE  /\ i + 1 \in 1..k
             /\ chunk[i + 1] \in S
             /\ UpTo(w, chunk, i) \in Seq(S)
             /\ UpTo(w, chunk, i + 1) = Append(UpTo(w, chunk, i), chunk[i + 1])
  <2>1. i + 1 \in 1..k /\ i \in 0..k /\ 1 \in 1..k /\ i + 1 - 1 = i
    BY <1>4
  <2>2. chunk[i + 1] \in S
    BY <1>1, <2>1, ElementOfSeq
  <2>3. PICK s \in Seq(S) : s = SubSeq(chunk, 1, i) /\ Len(s) = i
    <3>1. \A j \in 1..i : chunk[j] \in S
      BY <1>1, <1>4, ElementOfSeq
    <3>2. SubSeq(chunk, 1, i) \in Seq(S) /\ Len(SubSeq(chunk, 1, i)) = i
      BY <1>1, <2>1
    <3>3. QED BY <3>2
  <2>4. SubSeq(chunk, 1, i + 1) = Append(s, chunk[i + 1])
    <3>1. SubSeq(chunk, 1, i + 1) = SubSeq(chunk, 1, i + 1 - 1) \o <<chunk[i + 1]>>
      BY <1>1, <1>4, <2>1, SubSeqRecursiveSecond
    <3>2. s \o <<chunk[i + 1]>> = Append(s, chunk[i + 1])
      BY <2>2
    <3>3. QED BY <2>1, <2>3, <3>1, <3>2
  <2>5. w \o Append(s, chunk[i + 1]) = Append(w \o s, chunk[i + 1]) /\ w \o s \in Seq(S)
    BY <2>2
  <2>6. QED BY <2>1, <2>2, <2>3, <2>4, <2>5 DEF UpTo
<1>5. QED BY <1>1, <1>2, <1>3, <1>4 DEF GrowsBy

\* The bytes so far after each turn of a chunk.
LEMMA UpToIs ==
    ASSUME NEW w \in Text, NEW chunk \in Text
    PROVE  /\ UpTo(w, chunk, 0) = w
           /\ UpTo(w, chunk, Len(chunk)) = w \o chunk
           /\ \A i \in Nat : i + 1 <= Len(chunk) =>
                 /\ i + 1 \in 1..Len(chunk)
                 /\ chunk[i + 1] \in Byte
                 /\ UpTo(w, chunk, i) \in Text
                 /\ UpTo(w, chunk, i + 1) = Append(UpTo(w, chunk, i), chunk[i + 1])
<1>1. w \in Seq(Byte) /\ chunk \in Seq(Byte)
  BY DEF Text
<1>2. GrowsBy(Byte, w, chunk)
  BY <1>1, Grows
<1>3. QED BY <1>2 DEF GrowsBy, Text

\* The pieces of a text are texts, and none is empty.
LEMMA PiecesCut ==
    ASSUME NEW w \in Text
    PROVE  CutUp(Pieces(w))
<1> DEFINE S == {i \in Nat : i <= Len(w) => CutUp(Pieces(UpTo(<<>>, w, i)))}
<1>1. <<>> \in Text /\ Len(w) \in Nat /\ <<>> \o w = w
  BY DEF Text
<1>2. /\ UpTo(<<>>, w, 0) = <<>>
      /\ UpTo(<<>>, w, Len(w)) = w
      /\ \A i \in Nat : i + 1 <= Len(w) =>
                 /\ w[i + 1] \in Byte
                 /\ UpTo(<<>>, w, i) \in Text
                 /\ UpTo(<<>>, w, i + 1) = Append(UpTo(<<>>, w, i), w[i + 1])
  BY <1>1, UpToIs
<1>3. 0 \in S
  <2>1. CutUp(<<>>)
    BY DEF CutUp
  <2>2. CutUp(Pieces(UpTo(<<>>, w, 0)))
    BY <1>2, <2>1, NoPieces
  <2>3. QED BY <2>2
<1>4. ASSUME NEW i \in Nat, i \in S
      PROVE  i + 1 \in S
  <2> SUFFICES ASSUME i + 1 <= Len(w) PROVE CutUp(Pieces(UpTo(<<>>, w, i + 1)))
    OBVIOUS
  <2>1. PICK v \in Text : v = UpTo(<<>>, w, i)
    BY <1>2
  <2>2. PICK x \in Byte : x = w[i + 1]
    BY <1>2
  <2>3. CutUp(Pieces(v))
    BY <1>1, <1>4, <2>1
  <2>4. Pieces(Append(v, x)) = Extend(Pieces(v), x)
    BY PiecesExtend
  <2>5. CutUp(Extend(Pieces(v), x))
    BY <2>3, ExtendIs DEF Adds
  <2>6. QED BY <1>2, <2>1, <2>2, <2>4, <2>5
<1> HIDE DEF S
<1>5. Len(w) \in S
  BY <1>1, <1>3, <1>4, Induction
<1>6. QED BY <1>2, <1>5 DEF S

\* The loop over a chunk follows the text with the chunk.
LEMMA LoopFollows ==
    ASSUME NEW w \in Text, NEW chunk \in Text, NEW r, NEW base \in Seq(Code),
             Follows(r, Pieces(w), base)
    PROVE  Follows(FoldLeft(Consume, r, chunk), Pieces(w \o chunk), base)
<1>1. PICK turn : /\ turn[0] = r
                  /\ \A i \in 1..Len(chunk) : turn[i] = Consume(turn[i - 1], chunk[i])
                  /\ FoldLeft(Consume, r, chunk) = turn[Len(chunk)]
  BY Turns
<1> DEFINE S == {i \in Nat : i <= Len(chunk) => Follows(turn[i], Pieces(UpTo(w, chunk, i)), base)}
<1>2. Len(chunk) \in Nat
  BY DEF Text
<1>3. 0 \in S
  BY <1>1, UpToIs
<1>4. ASSUME NEW i \in Nat, i \in S
      PROVE  i + 1 \in S
  <2> SUFFICES ASSUME i + 1 <= Len(chunk) PROVE Follows(turn[i + 1], Pieces(UpTo(w, chunk, i + 1)),
           base)
    OBVIOUS
  <2>1. PICK v \in Text : v = UpTo(w, chunk, i)
    BY UpToIs
  <2>2. PICK x \in Byte : x = chunk[i + 1]
    BY UpToIs
  <2>3. Follows(turn[i], Pieces(v), base)
    BY <1>2, <1>4, <2>1
  <2>4. Pieces(Append(v, x)) = Extend(Pieces(v), x)
    BY PiecesExtend
  <2>5. i + 1 \in 1..Len(chunk) /\ i + 1 - 1 = i
    BY <1>2
  <2>6. turn[i + 1] = Consume(turn[i], x)
    BY <1>1, <2>2, <2>5
  <2>7. Follows(Consume(turn[i], x), Extend(Pieces(v), x), base)
    BY <2>3, TurnFollows
  <2>8. UpTo(w, chunk, i + 1) = Append(v, x)
    BY <2>1, <2>2, UpToIs
  <2>9. QED BY <2>4, <2>6, <2>7, <2>8
<1> HIDE DEF S
<1>5. Len(chunk) \in S
  BY <1>2, <1>3, <1>4, Induction
<1>6. Follows(turn[Len(chunk)], Pieces(UpTo(w, chunk, Len(chunk))), base)
  BY <1>2, <1>5 DEF S
<1>7. UpTo(w, chunk, Len(chunk)) = w \o chunk
  BY UpToIs
<1>8. QED BY <1>1, <1>6, <1>7

\* Once a stream has something malformed, it has.
LEMMA RuinStays ==
    ASSUME NEW w \in Text, NEW chunk \in Text, ~Clean(Pieces(w))
    PROVE  ~Clean(Pieces(w \o chunk))
<1> DEFINE S == {i \in Nat : i <= Len(chunk) => ~Clean(Pieces(UpTo(w, chunk, i)))}
<1>1. Len(chunk) \in Nat
  BY DEF Text
<1>2. 0 \in S
  BY UpToIs
<1>3. ASSUME NEW i \in Nat, i \in S
      PROVE  i + 1 \in S
  <2> SUFFICES ASSUME i + 1 <= Len(chunk) PROVE ~Clean(Pieces(UpTo(w, chunk, i + 1)))
    OBVIOUS
  <2>1. PICK v \in Text : v = UpTo(w, chunk, i)
    BY UpToIs
  <2>2. PICK x \in Byte : x = chunk[i + 1]
    BY UpToIs
  <2>3. ~Clean(Pieces(v)) /\ CutUp(Pieces(v))
    BY <1>1, <1>3, <2>1, PiecesCut
  <2>4. Pieces(Append(v, x)) = Extend(Pieces(v), x)
    BY PiecesExtend
  <2>5. ~Clean(Extend(Pieces(v), x))
    BY <2>3, ExtendIs
  <2>6. UpTo(w, chunk, i + 1) = Append(v, x)
    BY <2>1, <2>2, UpToIs
  <2>7. QED BY <2>4, <2>5, <2>6
<1> HIDE DEF S
<1>4. Len(chunk) \in S
  BY <1>1, <1>2, <1>3, Induction
<1>5. ~Clean(Pieces(UpTo(w, chunk, Len(chunk))))
  BY <1>1, <1>4 DEF S
<1>6. UpTo(w, chunk, Len(chunk)) = w \o chunk
  BY UpToIs
<1>7. QED BY <1>5, <1>6

\* A decoder has fields that some bytes explain, even when it has thrown.
Kept(r) ==
    /\ r \in Calling
    /\ \E p \in Text : Keeps(r.fields, p)
    /\ r.threw => fatal /\ r.fields = Rest

\* A turn keeps the fields sound in any stream, also one that threw.
LEMMA TurnKeeps ==
    ASSUME NEW r, Kept(r), NEW x \in Byte
    PROVE  Kept(Consume(r, x))
<1>1. CASE r.threw
  BY <1>1 DEF Consume, Kept
<1>2. CASE ~r.threw
  <2>1. PICK p \in Text : Keeps(r.fields, p)
    BY DEF Kept
  <2>2. ASSUME NEW e, NEW points, NEW q \in Text, Reads(e, points, q)
        PROVE  Kept(e)
    <3>1. <<>> \in Text
      BY DEF Text
    <3>2. QED BY <2>2, <3>1, KeepsNothing DEF Reads, Kept, Fits
  <2>3. Append(p, x) \in Text /\ <<x>> \in Text /\ <<>> \in Text
    BY Grown DEF Text
  <2>4. /\ p = <<>> \/ Fits(Append(p, x)) => Reads(Consume(r, x), r.points, Append(p, x))
        /\ p # <<>> /\ ~Fits(Append(p, x)) =>
             /\ fatal => Consume(r, x) \in Calling /\ Consume(r, x).threw /\ Consume(r, x).fields = Rest
             /\ ~fatal => Reads(Consume(r, x), Append(r.points, REPLACEMENT), <<x>>)
    BY <1>2, <2>1, TurnIs DEF Kept
  <2>5. CASE p = <<>> \/ Fits(Append(p, x))
    BY <2>2, <2>3, <2>4, <2>5
  <2>6. CASE p # <<>> /\ ~Fits(Append(p, x)) /\ ~fatal
    BY <2>2, <2>3, <2>4, <2>6
  <2>7. CASE p # <<>> /\ ~Fits(Append(p, x)) /\ fatal
    BY <2>3, <2>4, <2>7, KeepsNothing DEF Kept
  <2>8. QED BY <2>5, <2>6, <2>7
<1>3. QED BY <1>1, <1>2

\* The loop does so.
LEMMA LoopKeeps ==
    ASSUME NEW chunk \in Text, NEW r, Kept(r)
    PROVE  Kept(FoldLeft(Consume, r, chunk))
<1>1. PICK turn : /\ turn[0] = r
                  /\ \A i \in 1..Len(chunk) : turn[i] = Consume(turn[i - 1], chunk[i])
                  /\ FoldLeft(Consume, r, chunk) = turn[Len(chunk)]
  BY Turns
<1> DEFINE S == {i \in Nat : i <= Len(chunk) => Kept(turn[i])}
<1>2. Len(chunk) \in Nat
  BY DEF Text
<1>3. 0 \in S
  BY <1>1
<1>4. ASSUME NEW i \in Nat, i \in S
      PROVE  i + 1 \in S
  <2> SUFFICES ASSUME i + 1 <= Len(chunk) PROVE Kept(turn[i + 1])
    OBVIOUS
  <2>1. PICK x \in Byte : x = chunk[i + 1]
    BY UpToIs DEF Text
  <2>2. i + 1 \in 1..Len(chunk) /\ i + 1 - 1 = i /\ i <= Len(chunk)
    BY <1>2
  <2>3. turn[i + 1] = Consume(turn[i], x)
    BY <1>1, <2>1, <2>2
  <2>4. QED BY <1>4, <2>2, <2>3, TurnKeeps
<1> HIDE DEF S
<1>5. Len(chunk) \in S
  BY <1>2, <1>3, <1>4, Induction
<1>6. QED BY <1>1, <1>2, <1>5 DEF S

-----------------------------------------------------------------------------
(* The end of a call: the flush that ends a stream, and the mark.          *)

\* All that is left of a sequence is nothing, unless one is in progress.
LEMMA AtRest ==
    ASSUME NEW f, NEW p \in Text, Keeps(f, p)
    PROVE  /\ f \in FieldSet
           /\ f.needed = 0 <=> p = <<>>
           /\ f.needed = 0 => f = Rest
<1>1. f \in FieldSet
  BY DEF Keeps, Has
<1>2. CASE p = <<>>
  BY <1>1, <1>2, KeepsNothing, RestIs
<1>3. CASE p # <<>>
  <2>1. PICK r : r = [fields |-> f, points |-> <<>>, threw |-> FALSE]
    OBVIOUS
  <2>2. r \in Calling /\ ~r.threw /\ r.fields = f
    BY <1>1, <2>1 DEF Calling
  <2>3. 0 \in Byte
    BY DEF Byte
  <2>4. f.needed # 0
    BY <1>3, <2>2, <2>3, GoOnIs
  <2>5. QED BY <1>1, <1>3, <2>4
<1>4. QED BY <1>2, <1>3

\* Pieces that are all characters are clean.
LEMMA AllClean ==
    ASSUME NEW pieces, CutUp(pieces), AllCharacters(pieces)
    PROVE  Clean(pieces)
<1>1. CASE Pending(pieces) = <<>>
  BY <1>1, DecidedAndPending
<1>2. CASE Pending(pieces) # <<>>
  <2>1. pieces # <<>> /\ Pending(pieces) = pieces[Len(pieces)] /\ IsSubpart(pieces[Len(pieces)])
    BY <1>2 DEF Pending
  <2>2. pieces \in Seq(Text)
    BY DEF CutUp
  <2>3. Len(pieces) \in 1..Len(pieces) /\ pieces[Len(pieces)] \in Text
    <3>1. Len(pieces) \in Nat /\ Len(pieces) # 0
      BY <2>1, <2>2
    <3>2. Len(pieces) \in 1..Len(pieces)
      BY <3>1
    <3>3. QED BY <2>2, <3>2
  <2>4. QED BY <2>1, <2>3, Lengths DEF AllCharacters
<1>3. QED BY <1>1, <1>2

\* What the end of a call without `stream` makes of the loop's record.
EndsCall(e, pieces, base) ==
    /\ e \in Calling
    /\ e.fields = Rest
    /\ e.threw => fatal /\ ~AllCharacters(pieces)
    /\ ~e.threw => PointsOf(pieces) = base \o e.points /\ (fatal => AllCharacters(pieces))

\* A call with `stream` leaves the pending bytes; one without decides on
\* them.
LEMMA FlushFollows ==
    ASSUME NEW r, NEW pieces, NEW base \in Seq(Code), Follows(r, pieces, base)
    PROVE  /\ Flush(r, TRUE) = r
           /\ EndsCall(Flush(r, FALSE), pieces, base)
<1>1. r \in Calling /\ CutUp(pieces)
  BY DEF Follows
<1>2. CASE r.threw
  <2>1. Flush(r, TRUE) = r /\ Flush(r, FALSE) = r
    BY <1>2 DEF Flush
  <2>2. fatal /\ r.fields = Rest /\ ~Clean(pieces)
    BY <1>2 DEF Follows
  <2>3. ~AllCharacters(pieces)
    BY <1>1, <2>2, AllClean
  <2>4. QED BY <1>1, <1>2, <2>1, <2>2, <2>3 DEF EndsCall
<1>3. CASE ~r.threw
  <2>1. PICK p : p = Pending(pieces)
    OBVIOUS
  <2>2. PICK body : body = Decided(pieces)
    OBVIOUS
  <2>3. /\ p \in Text
        /\ p # <<>> => IsSubpart(p)
        /\ CutUp(body)
        /\ Clean(pieces) <=> AllCharacters(body)
        /\ p = <<>> => body = pieces
        /\ p # <<>> => pieces = Append(body, p)
    BY <1>1, <2>1, <2>2, DecidedAndPending
  <2>4. /\ Keeps(r.fields, p)
        /\ PointsOf(body) = base \o r.points
        /\ fatal => Clean(pieces)
    BY <1>3, <2>1, <2>2 DEF Follows
  <2>5. /\ r.fields.needed = 0 <=> p = <<>>
        /\ r.fields.needed = 0 => r.fields = Rest
    BY <2>3, <2>4, AtRest
  <2>6. CASE p = <<>>
    <3>1. Flush(r, TRUE) = r /\ Flush(r, FALSE) = r
      BY <2>5, <2>6 DEF Flush
    <3>2. QED BY <1>1, <1>3, <2>3, <2>4, <2>5, <2>6, <3>1 DEF EndsCall
  <2>7. CASE p # <<>>
    <3>1. Flush(r, TRUE) = r /\ Flush(r, FALSE) = Malformed(Reset(r))
      BY <1>3, <2>5, <2>7 DEF Flush
    <3>2. PICK z : z = Reset(r)
      OBVIOUS
    <3>3. z \in Calling /\ z.fields = Rest /\ z.points = r.points /\ z.threw = r.threw
      BY <1>1, <3>2, ResetIs
    <3>4. PICK e : e = Malformed(z)
      OBVIOUS
    <3>5. /\ e \in Calling
          /\ e.fields = Rest
          /\ fatal => e.threw = TRUE
          /\ ~fatal => e.points = Append(r.points, REPLACEMENT) /\ e.threw = r.threw
      BY <3>3, <3>4, MalformedIs
    <3>6. ~IsCharacter(p)
      BY <2>3, <2>7, Lengths
    <3>7. ~AllCharacters(pieces)
      <4>1. body \in Seq(Text)
        BY <2>3 DEF CutUp
      <4>2. Len(Append(body, p)) = Len(body) + 1 /\ Append(body, p)[Len(body) + 1] = p
        BY <2>3, <4>1, AppendProperties
      <4>3. Len(body) + 1 \in 1..Len(body) + 1
        BY <4>1
      <4>4. QED BY <2>3, <2>7, <3>6, <4>2, <4>3 DEF AllCharacters
    <3>8. PointsOf(pieces) = Append(PointsOf(body), REPLACEMENT)
      <4>1. body \in Seq(Text)
        BY <2>3 DEF CutUp
      <4>2. PointsOf(Append(body, p)) = Append(PointsOf(body), Value(p))
        BY <2>3, <4>1, PointsAppend
      <4>3. QED BY <2>3, <2>7, <3>6, <4>2 DEF Value
    <3>9. ~fatal => PointsOf(pieces) = base \o e.points
      <4>1. r.points \in Seq(Code) /\ REPLACEMENT \in Code
        <5>1. REPLACEMENT \in Nat /\ REPLACEMENT <= LargestPoint
          BY SMT DEF REPLACEMENT, LargestPoint
        <5>2. QED BY <1>1, <5>1, CodeIs DEF Calling
      <4>2. base \o Append(r.points, REPLACEMENT) = Append(base \o r.points, REPLACEMENT)
        BY <4>1, ConcatAppend
      <4>3. QED BY <2>4, <3>5, <3>8, <4>2
    <3>10. EndsCall(e, pieces, base)
      BY <1>3, <3>5, <3>7, <3>9 DEF EndsCall
    <3>11. QED BY <3>1, <3>2, <3>4, <3>10
  <2>8. QED BY <2>6, <2>7
<1>4. QED BY <1>2, <1>3

\* A call that ends a stream leaves the fields at rest.
LEMMA FlushKeeps ==
    ASSUME NEW r, Kept(r)
    PROVE  /\ Kept(Flush(r, TRUE))
           /\ Kept(Flush(r, FALSE))
           /\ Flush(r, FALSE).fields = Rest
<1>1. Flush(r, TRUE) = r
  BY DEF Flush
<1>2. CASE r.threw
  <2>1. Flush(r, FALSE) = r
    BY <1>2 DEF Flush
  <2>2. QED BY <1>1, <1>2, <2>1 DEF Kept
<1>3. CASE ~r.threw
  <2>1. PICK p \in Text : Keeps(r.fields, p)
    BY DEF Kept
  <2>2. CASE r.fields.needed = 0
    <3>1. Flush(r, FALSE) = r
      BY <2>2 DEF Flush
    <3>2. r.fields = Rest
      BY <2>1, <2>2, AtRest
    <3>3. QED BY <1>1, <3>1, <3>2 DEF Kept
  <2>3. CASE r.fields.needed # 0
    <3>1. Flush(r, FALSE) = Malformed(Reset(r))
      BY <1>3, <2>3 DEF Flush
    <3>2. PICK z : z = Reset(r)
      OBVIOUS
    <3>3. z \in Calling /\ z.fields = Rest /\ z.threw = r.threw
      BY <3>2, ResetIs DEF Kept
    <3>4. PICK e : e = Malformed(z)
      OBVIOUS
    <3>5. /\ e \in Calling
          /\ e.fields = Rest
          /\ ~fatal => e.threw = r.threw
      BY <3>3, <3>4, MalformedIs
    <3>6. <<>> \in Text
      BY DEF Text
    <3>7. Kept(e)
      BY <1>3, <3>5, <3>6, KeepsNothing DEF Kept
    <3>8. QED BY <1>1, <3>1, <3>2, <3>4, <3>5, <3>7
  <2>4. QED BY <2>2, <2>3
<1>4. QED BY <1>2, <1>3

\* Dropping the mark call by call drops it from the whole.
LEMMA MarkOnce ==
    ASSUME NEW base \in Seq(Code), NEW points \in Seq(Code)
    PROVE  base # <<>> => Unmarked(base \o points) = Unmarked(base) \o points
<1> SUFFICES ASSUME base # <<>> PROVE Unmarked(base \o points) = Unmarked(base) \o points
  OBVIOUS
<1>1. PICK k \in Nat : k = Len(base) /\ k # 0
  OBVIOUS
<1>2. PICK s \in Seq(Code) : s = base \o points
  <2>1. base \o points \in Seq(Code)
    OBVIOUS
  <2>2. QED BY <2>1
<1>3. s # <<>> /\ Head(s) = Head(base)
  BY <1>1, <1>2
<1>4. Tail(s) = Tail(base) \o points
  BY <1>1, <1>2
<1>5. QED BY <1>2, <1>3, <1>4 DEF Unmarked

-----------------------------------------------------------------------------
(* FlattenSeq of the community modules, by its last element.               *)

\* FlattenSeq of SequencesExt, as it is defined, on the first k of them.
IsFlat(seqs, k, f) == f = [i \in 1..k |-> IF i = 1 THEN seqs[i] ELSE f[i - 1] \o seqs[i]]

\* The function FlattenSeq is computed from, at an index.
LEMMA FlatAt ==
    ASSUME NEW seqs, NEW k \in Nat, NEW f, IsFlat(seqs, k, f), NEW i \in 1..k
    PROVE  f[i] = IF i = 1 THEN seqs[i] ELSE f[i - 1] \o seqs[i]
<1>1. PICK h : h = [j \in 1..k |-> IF j = 1 THEN seqs[j] ELSE f[j - 1] \o seqs[j]]
  OBVIOUS
<1>2. f = h
  BY <1>1 DEF IsFlat
<1>3. h[i] = IF i = 1 THEN seqs[i] ELSE f[i - 1] \o seqs[i]
  BY <1>1
<1>4. QED BY <1>2, <1>3

\* That function exists, by induction on the number of sequences.
LEMMA FlatExists ==
    ASSUME NEW seqs, NEW k \in Nat
    PROVE  \E f : IsFlat(seqs, k, f)
<1> DEFINE S == {j \in Nat : \E f : IsFlat(seqs, j, f)}
<1>1. 0 \in S
  <2>1. IsFlat(seqs, 0, [i \in 1..0 |-> 0])
    BY DEF IsFlat
  <2>2. QED BY <2>1
<1>2. ASSUME NEW n \in Nat, n \in S
      PROVE  n + 1 \in S
  <2>1. PICK f : IsFlat(seqs, n, f)
    BY <1>2
  <2>2. PICK g : g = [i \in 1..n + 1 |-> IF i =
           n + 1 THEN (IF i = 1 THEN seqs[i] ELSE f[i - 1] \o seqs[i]) ELSE f[i]]
    OBVIOUS
  <2>3. \A i \in 1..n + 1 : g[i] = IF i = 1 THEN seqs[i] ELSE g[i - 1] \o seqs[i]
    <3> TAKE i \in 1..n + 1
    <3>1. i = 1 \/ i - 1 \in 1..n
      OBVIOUS
    <3>2. \A j \in 1..n : g[j] = f[j] /\ f[j] = IF j = 1 THEN seqs[j] ELSE f[j - 1] \o seqs[j]
      <4> TAKE j \in 1..n
      <4>1. f[j] = IF j = 1 THEN seqs[j] ELSE f[j - 1] \o seqs[j]
        BY <2>1, FlatAt
      <4>2. j \in 1..n + 1 /\ j # n + 1
        OBVIOUS
      <4>3. g[j] = f[j]
        BY <2>2, <4>2
      <4>4. QED BY <4>1, <4>3
    <3>3. CASE i = n + 1
      BY <2>2, <3>1, <3>2, <3>3
    <3>4. CASE i # n + 1
      <4>1. i \in 1..n /\ (i # 1 => i - 1 \in 1..n)
        BY <3>4
      <4>2. QED BY <3>2, <4>1
    <3>5. QED BY <3>3, <3>4
  <2>4. g = [i \in 1..n + 1 |-> g[i]]
    BY <2>2
  <2>5. IsFlat(seqs, n + 1, g)
    BY <2>3, <2>4 DEF IsFlat
  <2>6. QED BY <2>5
<1> HIDE DEF S
<1>3. k \in S
  <2>1. Nat \subseteq S
    BY <1>1, <1>2, Induction
  <2>2. QED BY <2>1
<1>4. QED BY <1>3 DEF S

\* FlattenSeq is its last value.
LEMMA FlatFrom ==
    ASSUME NEW S, NEW seqs \in Seq(Seq(S)), seqs # <<>>
    PROVE  \E f : IsFlat(seqs, Len(seqs), f) /\ FlattenSeq(seqs) = f[Len(seqs)]
<1>1. \E f : IsFlat(seqs, Len(seqs), f)
  <2>1. Len(seqs) \in Nat
    OBVIOUS
  <2>2. QED BY <2>1, FlatExists
<1>2. Len(seqs) # 0
  OBVIOUS
<1>3. FlattenSeq(seqs) = (CHOOSE f : IsFlat(seqs, Len(seqs), f))[Len(seqs)]
  BY <1>2 DEF FlattenSeq, IsFlat
<1>4. QED BY <1>1, <1>3

\* Its values are sequences of the same elements.
LEMMA FlatAgree ==
    ASSUME NEW S, NEW seqs \in Seq(Seq(S)), NEW k \in Nat, k <= Len(seqs), NEW f, IsFlat(seqs, k, f)
    PROVE  \A i \in 1..k : f[i] \in Seq(S)
<1> DEFINE T == {j \in Nat : j \in 1..k => f[j] \in Seq(S)}
<1>1. 0 \in T
  OBVIOUS
<1>2. ASSUME NEW n \in Nat, n \in T
      PROVE  n + 1 \in T
  <2> SUFFICES ASSUME n + 1 \in 1..k PROVE f[n + 1] \in Seq(S)
    OBVIOUS
  <2>1. f[n + 1] = IF n + 1 = 1 THEN seqs[n + 1] ELSE f[n + 1 - 1] \o seqs[n + 1]
    BY FlatAt
  <2>2. n + 1 \in 1..Len(seqs) /\ n + 1 - 1 = n
    OBVIOUS
  <2>3. seqs[n + 1] \in Seq(S)
    BY <2>2, ElementOfSeq
  <2>4. CASE n = 0
    BY <2>1, <2>3, <2>4
  <2>5. CASE n # 0
    <3>1. f[n] \in Seq(S)
      BY <1>2, <2>5
    <3>2. f[n] \o seqs[n + 1] \in Seq(S)
      BY <2>3, <3>1, ConcatProperties
    <3>3. QED BY <2>1, <2>2, <2>5, <3>2
  <2>6. QED BY <2>4, <2>5
<1> HIDE DEF T
<1>3. Nat \subseteq T
  BY <1>1, <1>2, Induction
<1>4. QED BY <1>3 DEF T

\* FlattenSeq of sequences is a sequence.
LEMMA FlattenIs ==
    ASSUME NEW S, NEW seqs \in Seq(Seq(S))
    PROVE  FlattenSeq(seqs) \in Seq(S)
<1>1. CASE seqs = <<>>
  BY <1>1 DEF FlattenSeq
<1>2. CASE seqs # <<>>
  <2>1. PICK f : IsFlat(seqs, Len(seqs), f) /\ FlattenSeq(seqs) = f[Len(seqs)]
    BY <1>2, FlatFrom
  <2>2. Len(seqs) \in Nat /\ Len(seqs) \in 1..Len(seqs)
    BY <1>2
  <2>3. QED BY <2>1, <2>2, FlatAgree
<1>3. QED BY <1>1, <1>2

\* FlattenSeq of one sequence more.
LEMMA FlattenAppend ==
    ASSUME NEW S, NEW seqs \in Seq(Seq(S)), NEW s \in Seq(S)
    PROVE  FlattenSeq(Append(seqs, s)) = FlattenSeq(seqs) \o s
<1>1. PICK k \in Nat : k = Len(seqs)
  OBVIOUS
<1>2. PICK next \in Seq(Seq(S)) : next = Append(seqs, s) /\ Len(next) = k + 1 /\ next[k + 1] = s
                                  /\ \A i \in 1..k : next[i] = seqs[i]
  <2>1. /\ Append(seqs, s) \in Seq(Seq(S)) /\ Len(Append(seqs, s)) = Len(seqs) + 1
        /\ Append(seqs, s)[Len(seqs) + 1] = s
        /\ \A i \in 1..Len(seqs) : Append(seqs, s)[i] = seqs[i]
    BY AppendProperties
  <2>2. QED BY <1>1, <2>1
<1>3. next # <<>>
  BY <1>2
<1>4. PICK g : IsFlat(next, k + 1, g) /\ FlattenSeq(next) = g[k + 1]
  BY <1>2, <1>3, FlatFrom
<1>5. k + 1 \in 1..k + 1 /\ k + 1 - 1 = k
  OBVIOUS
<1>6. g[k + 1] = IF k + 1 = 1 THEN s ELSE g[k] \o s
  <2>1. k + 1 \in Nat
    OBVIOUS
  <2>2. g[k + 1] = IF k + 1 = 1 THEN next[k + 1] ELSE g[k + 1 - 1] \o next[k + 1]
    BY <1>4, <1>5, <2>1, FlatAt
  <2>3. QED BY <1>2, <1>5, <2>2
<1>7. CASE k = 0
  <2>1. seqs = <<>>
    BY <1>1, <1>7, EmptySeq
  <2>2. FlattenSeq(seqs) = <<>>
    BY <2>1 DEF FlattenSeq
  <2>3. QED BY <1>2, <1>4, <1>6, <1>7, <2>2
<1>8. CASE k # 0
  <2>1. PICK f : IsFlat(seqs, k, f) /\ FlattenSeq(seqs) = f[k]
    <3>1. seqs # <<>>
      BY <1>1, <1>8
    <3>2. QED BY <1>1, <3>1, FlatFrom
  <2> DEFINE T == {j \in Nat : j \in 1..k => f[j] = g[j]}
  <2>2. 0 \in T
    OBVIOUS
  <2>3. ASSUME NEW n \in Nat, n \in T
        PROVE  n + 1 \in T
    <3> SUFFICES ASSUME n + 1 \in 1..k PROVE f[n + 1] = g[n + 1]
      OBVIOUS
    <3>1. f[n + 1] = IF n + 1 = 1 THEN seqs[n + 1] ELSE f[n + 1 - 1] \o seqs[n + 1]
      BY <2>1, FlatAt
    <3>2. n + 1 \in 1..k + 1 /\ k + 1 \in Nat
      OBVIOUS
    <3>3. g[n + 1] = IF n + 1 = 1 THEN next[n + 1] ELSE g[n + 1 - 1] \o next[n + 1]
      BY <1>4, <3>2, FlatAt
    <3>4. next[n + 1] = seqs[n + 1]
      BY <1>2
    <3>5. n + 1 - 1 = n /\ (n # 0 => n \in 1..k) /\ (n = 0 <=> n + 1 = 1)
      OBVIOUS
    <3>6. CASE n = 0
      BY <3>1, <3>3, <3>4, <3>5, <3>6
    <3>7. CASE n # 0
      <4>1. f[n] = g[n]
        BY <2>3, <3>5, <3>7
      <4>2. QED BY <3>1, <3>3, <3>4, <3>5, <3>7, <4>1
    <3>8. QED BY <3>6, <3>7
  <2> HIDE DEF T
  <2>4. k \in T
    BY <2>2, <2>3, Induction
  <2>5. f[k] = g[k]
    BY <1>8, <2>4 DEF T
  <2>6. QED BY <1>2, <1>4, <1>6, <1>8, <2>1, <2>5
<1>9. QED BY <1>7, <1>8

-----------------------------------------------------------------------------
(* encode(): the bytes of a point are one character, and its point.        *)

\* A number by its low six bits.
LEMMA By64 ==
    ASSUME NEW v \in Nat
    PROVE  \E h \in Nat, l \in 0..63 : v = 64 * h + l /\ v \div 64 = h /\ v % 64 = l
<1>1. PICK h : h = v \div 64
  OBVIOUS
<1>2. PICK l : l = v % 64
  OBVIOUS
<1>3. h \in Nat /\ l \in 0..63 /\ v = 64 * h + l
  BY <1>1, <1>2
<1>4. QED BY <1>1, <1>2, <1>3

\* A number in base 64.
InThree(v, h, m, l) ==
    /\ v = 4096 * h + 64 * m + l /\ m <= 63 /\ l <= 63
    /\ v \div 4096 = h /\ (v \div 64) % 64 = m /\ v % 64 = l

InFour(v, h, k, m, l) ==
    /\ v = 262144 * h + 4096 * k + 64 * m + l /\ k <= 63 /\ m <= 63 /\ l <= 63
    /\ v \div 262144 = h /\ (v \div 4096) % 64 = k /\ (v \div 64) % 64 = m /\ v % 64 = l

\* A number by its low twelve bits, in two groups of six.
LEMMA By4096 ==
    ASSUME NEW v \in Nat
    PROVE  \E h, m, l \in Nat : InThree(v, h, m, l)
<1>1. PICK k \in Nat, l \in 0..63 : v = 64 * k + l /\ v \div 64 = k /\ v % 64 = l
  BY By64
<1>2. PICK h \in Nat, m \in 0..63 : k = 64 * h + m /\ k \div 64 = h /\ k % 64 = m
  BY By64
<1>3. PICK r \in 0..4095 : r = 64 * m + l
  BY SMT
<1>4. v = 4096 * h + 64 * m + l /\ v = 4096 * h + r
  BY <1>1, <1>2, <1>3, SMT
<1>5. v \div 4096 = h
  BY <1>4, SMT
<1>6. InThree(v, h, m, l)
  BY <1>1, <1>2, <1>4, <1>5, SMT DEF InThree
<1>7. QED BY <1>6

\* A number by its low eighteen bits, in three groups of six.
LEMMA By262144 ==
    ASSUME NEW v \in Nat
    PROVE  \E h, k, m, l \in Nat : InFour(v, h, k, m, l)
<1>1. PICK g \in Nat, m \in Nat, l \in Nat : InThree(v, g, m, l)
  BY By4096
<1>2. PICK h \in Nat, k \in 0..63 : g = 64 * h + k /\ g \div 64 = h /\ g % 64 = k
  BY By64
<1>3. PICK r \in Nat : r = 4096 * k + 64 * m + l /\ r < 262144
  BY <1>1, <1>2, SMT DEF InThree
<1>4. /\ v = 4096 * g + 64 * m + l /\ m <= 63 /\ l <= 63
      /\ v \div 4096 = g /\ (v \div 64) % 64 = m /\ v % 64 = l
  BY <1>1, SMT DEF InThree
<1>5. v = 262144 * h + 4096 * k + 64 * m + l /\ v = 262144 * h + r
  BY <1>2, <1>3, <1>4, SMT
<1>6. v \div 262144 = h
  BY <1>3, <1>5, SMT
<1>7. InFour(v, h, k, m, l)
  BY <1>2, <1>4, <1>5, <1>6, SMT DEF InFour
<1>8. QED BY <1>7

\* BytesOf, case by case.
LEMMA BytesAre ==
    ASSUME NEW v \in Nat
    PROVE  /\ v <= 127 => BytesOf(v) = <<v>>
           /\ 127 < v /\ v <= 2047 => BytesOf(v) = <<192 + (v \div 64), Trail(v)>>
           /\ 2047 < v /\ v <= 65535 => BytesOf(v) = <<224 + (v \div 4096), Trail(v \div 64), Trail(v)>>
           /\ v > 65535 => BytesOf(v) =
                    <<240 + (v \div 262144), Trail(v \div 4096), Trail(v \div 64), Trail(v)>>
BY SMT DEF BytesOf

\* Surrogates by comparison.
LEMMA SurrogatesAre ==
    ASSUME NEW v \in Nat
    PROVE  v \in Surrogates <=> 55296 <= v /\ v <= 57343
BY SMT DEF Surrogates

\* The bytes of a scalar value are one character, which decodes to it.
LEMMA Encoded ==
    ASSUME NEW v \in Nat, v <= LargestPoint, v \notin Surrogates
    PROVE  /\ BytesOf(v) \in Text
           /\ IsCharacter(BytesOf(v))
           /\ PointOf(BytesOf(v)) = v
\* From the bytes to the claims.
<1>1. ASSUME NEW q, NEW n \in 1..4, NEW a \in Byte, NEW b \in Nat, NEW c \in Nat, NEW d \in Nat,
             q = BytesOf(v), q \in Text, Are(q, n, a, b, c, d), Sound(n, a, b, c, d), n = 1 + Need(a),
             PointOf(q) = v
      PROVE  /\ BytesOf(v) \in Text
             /\ IsCharacter(BytesOf(v))
             /\ PointOf(BytesOf(v)) = v
  <2>1. a \in Nat /\ n \in Nat /\ n >= 1
    BY ByteNat
  <2>2. q \in Seq(Byte)
    BY <1>1 DEF Text
  <2>3. IsCharacter(q) <=> n >= 1 /\ Sound(n, a, b, c, d) /\ n = 1 + Need(a)
    BY <1>1, <2>1, <2>2, Table
  <2>4. QED BY <1>1, <2>1, <2>3
<1>2. CASE v <= 127
  <2>1. BytesOf(v) = <<v>>
    BY <1>2, BytesAre, SMT
  <2>2. v \in Byte /\ <<v>> \in Text
    BY <1>2, SMT DEF Byte, Text
  <2>3. Are(<<v>>, 1, v, 0, 0, 0) /\ 1 \in 1..4
    BY DEF Are
  <2>4. Sound(1, v, 0, 0, 0) /\ 1 = 1 + Need(v)
    BY <1>2 DEF Sound, Need
  <2>5. PointOf(<<v>>) = v
    BY SMT DEF PointOf
  <2>6. QED BY <1>1, <2>1, <2>2, <2>3, <2>4, <2>5
<1>3. CASE 127 < v /\ v <= 2047
  <2>1. PICK h \in Nat, l \in 0..63 : v = 64 * h + l /\ v \div 64 = h /\ v % 64 = l
    BY By64
  <2>2. h \in 2..31
    BY <1>3, <2>1
  <2>3. PICK a \in 194..223, b \in 128..191 : a = 192 + h /\ b = 128 + l
    BY <2>2
  <2>4. BytesOf(v) = <<a, b>>
    BY <1>3, <2>1, <2>3, BytesAre, SMT DEF Trail
  <2>5. a \in Byte /\ b \in Byte /\ b \in Nat /\ <<a, b>> \in Text
    BY DEF Byte, Text
  <2>6. Are(<<a, b>>, 2, a, b, 0, 0) /\ 2 \in 1..4
    BY DEF Are
  <2>7. Sound(2, a, b, 0, 0) /\ 2 = 1 + Need(a)
    BY DEF Sound, Need, Low, High
  <2>8. PointOf(<<a, b>>) = v
    <3>1. (a - 192) * 64 + b - 128 = v
      BY <2>1, <2>3, SMT
    <3>2. Len(<<a, b>>) = 2 /\ <<a, b>>[1] = a /\ <<a, b>>[2] = b
      OBVIOUS
    <3>3. QED BY <3>1, <3>2, SMT DEF PointOf
  <2>9. QED BY <1>1, <2>4, <2>5, <2>6, <2>7, <2>8
<1>4. CASE 2047 < v /\ v <= 65535
  <2>1. PICK h \in Nat, m \in Nat, l \in Nat : InThree(v, h, m, l)
    BY By4096
  <2>2. /\ v = 4096 * h + 64 * m + l /\ m <= 63 /\ l <= 63
        /\ v \div 4096 = h /\ (v \div 64) % 64 = m /\ v % 64 = l
    BY <2>1, SMT DEF InThree
  <2>3. h \in 0..15 /\ (h = 0 => m >= 32) /\ (h = 13 => m <= 31)
    BY <1>4, <2>2, SurrogatesAre, SMT
  <2>4. PICK a \in Nat, b \in Nat, c \in Nat : a = 224 + h /\ b = 128 + m /\ c = 128 + l
    BY SMT
  <2>5. a \in 224..239 /\ b \in 128..191 /\ c \in 128..191
    BY <2>2, <2>3, <2>4, SMT
  <2>6. BytesOf(v) = <<a, b, c>>
    <3>1. BytesOf(v) = <<224 + (v \div 4096), Trail(v \div 64), Trail(v)>>
      BY <1>4, BytesAre
    <3>2. 224 + (v \div 4096) = a /\ Trail(v \div 64) = b /\ Trail(v) = c
      BY <2>2, <2>4, SMT DEF Trail
    <3>3. QED BY <3>1, <3>2
  <2>7. a \in Byte /\ b \in Byte /\ c \in Byte /\ b \in Nat /\ c \in Nat /\ <<a, b, c>> \in Text
    BY <2>5, SMT DEF Byte, Text
  <2>8. Are(<<a, b, c>>, 3, a, b, c, 0) /\ 3 \in 1..4
    BY DEF Are
  <2>9. Sound(3, a, b, c, 0) /\ 3 = 1 + Need(a)
    BY <2>5, <2>3, <2>4, SMT DEF Sound, Need, Low, High
  <2>10. PointOf(<<a, b, c>>) = v
    <3>1. (a - 224) * 4096 + (b - 128) * 64 + c - 128 = v
      BY <2>2, <2>4, SMT
    <3>2. Len(<<a, b, c>>) = 3 /\ <<a, b, c>>[1] = a /\ <<a, b, c>>[2] = b /\ <<a, b, c>>[3] = c
      OBVIOUS
    <3>3. QED BY <3>1, <3>2, SMT DEF PointOf
  <2>11. QED BY <1>1, <2>6, <2>7, <2>8, <2>9, <2>10
<1>5. CASE v > 65535
  <2>1. PICK h \in Nat, k \in Nat, m \in Nat, l \in Nat : InFour(v, h, k, m, l)
    BY By262144
  <2>2. /\ v = 262144 * h + 4096 * k + 64 * m + l /\ k <= 63 /\ m <= 63 /\ l <= 63
        /\ v \div 262144 = h /\ (v \div 4096) % 64 = k /\ (v \div 64) % 64 = m /\ v % 64 = l
    BY <2>1, SMT DEF InFour
  <2>3. h \in 0..4 /\ (h = 0 => k >= 16) /\ (h = 4 => k <= 15)
    BY <1>5, <2>2, SMT DEF LargestPoint
  <2>4. PICK a \in Nat, b \in Nat, c \in Nat, d \in Nat :
             a = 240 + h /\ b = 128 + k /\ c = 128 + m /\ d = 128 + l
    BY SMT
  <2>5. a \in 240..244 /\ b \in 128..191 /\ c \in 128..191 /\ d \in 128..191
    BY <2>2, <2>3, <2>4, SMT
  <2>6. BytesOf(v) = <<a, b, c, d>>
    <3>1. BytesOf(v) = <<240 + (v \div 262144), Trail(v \div 4096), Trail(v \div 64), Trail(v)>>
      BY <1>5, BytesAre
    <3>2. 240 + (v \div 262144) = a /\ Trail(v \div 4096) = b /\ Trail(v \div 64) = c /\ Trail(v) = d
      BY <2>2, <2>4, SMT DEF Trail
    <3>3. QED BY <3>1, <3>2
  <2>7. a \in Byte /\ b \in Nat /\ c \in Nat /\ d \in Nat /\ <<a, b, c, d>> \in Text
    BY <2>5, SMT DEF Byte, Text
  <2>8. Are(<<a, b, c, d>>, 4, a, b, c, d) /\ 4 \in 1..4
    BY DEF Are
  <2>9. Sound(4, a, b, c, d) /\ 4 = 1 + Need(a)
    BY <2>5, <2>3, <2>4, SMT DEF Sound, Need, Low, High
  <2>10. PointOf(<<a, b, c, d>>) = v
    <3>1. (a - 240) * 262144 + (b - 128) * 4096 + (c - 128) * 64 + d - 128 = v
      BY <2>2, <2>4, SMT
    <3>2. /\ Len(<<a, b, c, d>>) = 4 /\ <<a, b, c, d>>[1] = a /\ <<a, b, c, d>>[2] = b
          /\ <<a, b, c, d>>[3] = c /\ <<a, b, c, d>>[4] = d
      OBVIOUS
    <3>3. QED BY <3>1, <3>2, SMT DEF PointOf
  <2>11. QED BY <1>1, <2>6, <2>7, <2>8, <2>9, <2>10
<1>6. QED
  <2>1. v <= 127 \/ (127 < v /\ v <= 2047) \/ (2047 < v /\ v <= 65535) \/ v > 65535
    BY SMT
  <2>2. QED BY <1>2, <1>3, <1>4, <1>5, <2>1

\* The bytes of a point are one character; a lone surrogate's are U+FFFD's.
LEMMA EncodePointIs ==
    ASSUME NEW c \in Code
    PROVE  /\ Scalar(c) \in Code
           /\ EncodePoint(c) \in Text
           /\ IsCharacter(EncodePoint(c))
           /\ PointOf(EncodePoint(c)) = Scalar(c)
<1>1. REPLACEMENT \in Nat /\ REPLACEMENT <= LargestPoint /\ REPLACEMENT \notin Surrogates
  BY SurrogatesAre, SMT DEF REPLACEMENT, LargestPoint
<1>2. c \in Nat /\ c <= LargestPoint
  <2>1. c \in Nat
    BY CodeIs DEF Code
  <2>2. QED BY <2>1, CodeIs
<1>3. PICK s : s = Scalar(c)
  OBVIOUS
<1>4. s \in Nat /\ s <= LargestPoint /\ s \notin Surrogates
  BY <1>1, <1>2, <1>3 DEF Scalar
<1>5. s \in Code
  BY <1>4, CodeIs
<1>6. BytesOf(s) \in Text /\ IsCharacter(BytesOf(s)) /\ PointOf(BytesOf(s)) = s
  BY <1>4, Encoded
<1>7. QED BY <1>3, <1>5, <1>6 DEF EncodePoint

-----------------------------------------------------------------------------
(* encode() and encodeInto() of a text.                                    *)

\* The code points a text arrives as.
Scalars(text) == [i \in DOMAIN text |-> Scalar(text[i])]

\* What a text and one point more arrive as.
LEMMA ScalarsAppend ==
    ASSUME NEW text \in Seq(Code), NEW c \in Code
    PROVE  /\ Scalars(text) \in Seq(Code)
           /\ Scalars(Append(text, c)) = Append(Scalars(text), Scalar(c))
<1>1. PICK n \in Nat : n = Len(text)
  OBVIOUS
<1>2. \A x \in Code : Scalar(x) \in Code
  BY EncodePointIs
<1>3. Scalars(text) = [i \in 1..n |-> Scalar(text[i])] /\ \A i \in 1..n : text[i] \in Code
  BY <1>1 DEF Scalars
<1>4. PICK s \in Seq(Code) : s = Scalars(text) /\ Len(s) = n /\ \A i \in 1..n : s[i] = Scalar(text[i])
  <2>1. Scalars(text) \in Seq(Code) /\ Len(Scalars(text)) = n
    BY <1>2, <1>3
  <2>2. QED BY <1>3, <2>1
<1>5. PICK next \in Seq(Code) : next = Append(text, c) /\ Len(next) = n + 1 /\ next[n + 1] = c
                                /\ \A i \in 1..n : next[i] = text[i]
  <2>1. /\ Append(text, c) \in Seq(Code) /\ Len(Append(text, c)) = Len(text) + 1
        /\ Append(text, c)[Len(text) + 1] = c
        /\ \A i \in 1..Len(text) : Append(text, c)[i] = text[i]
    BY AppendProperties
  <2>2. QED BY <1>1, <2>1
<1>6. Scalars(next) = [i \in 1..n + 1 |-> Scalar(next[i])] /\ \A i \in 1..n + 1 : next[i] \in Code
  BY <1>5 DEF Scalars
<1>7. PICK t \in Seq(Code) : t = Scalars(next) /\ Len(t) = n + 1 /\ \A i \in 1..n + 1 : t[i] =
         Scalar(next[i])
  <2>1. PICK m \in Nat : m = n + 1
    OBVIOUS
  <2>2. Scalars(next) = [i \in 1..m |-> Scalar(next[i])] /\ \A i \in 1..m : Scalar(next[i]) \in Code
    BY <1>2, <1>6, <2>1
  <2>3. Scalars(next) \in Seq(Code) /\ Len(Scalars(next)) = m
    BY <2>2
  <2>4. QED BY <1>6, <2>1, <2>3
<1>8. Scalar(c) \in Code
  BY <1>2
<1>9. /\ Append(s, Scalar(c)) \in Seq(Code) /\ Len(Append(s, Scalar(c))) = n + 1
      /\ Append(s, Scalar(c))[n + 1] = Scalar(c)
      /\ \A i \in 1..n : Append(s, Scalar(c))[i] = s[i]
  BY <1>4, <1>8, AppendProperties
<1>10. \A i \in 1..n + 1 : t[i] = Append(s, Scalar(c))[i]
  <2> TAKE i \in 1..n + 1
  <2>1. CASE i = n + 1
    BY <1>5, <1>7, <1>9, <2>1
  <2>2. CASE i # n + 1
    <3>1. i \in 1..n
      BY <2>2
    <3>2. QED BY <1>4, <1>5, <1>7, <1>9, <3>1
  <2>3. QED BY <2>1, <2>2
<1>11. t = Append(s, Scalar(c))
  BY <1>7, <1>9, <1>10, SeqEqual
<1>12. QED BY <1>4, <1>5, <1>7, <1>11

\* The bytes of a text and one point more.
LEMMA EncodeAppend ==
    ASSUME NEW text \in Seq(Code), NEW c \in Code
    PROVE  /\ Encode(text) \in Text
           /\ Encode(Append(text, c)) = Encode(text) \o EncodePoint(c)
<1>1. PICK n \in Nat : n = Len(text)
  OBVIOUS
<1>2. \A x \in Code : EncodePoint(x) \in Text
  BY EncodePointIs
<1>3. PICK f : f = [i \in DOMAIN text |-> EncodePoint(text[i])]
  OBVIOUS
<1>4. f = [i \in 1..n |-> EncodePoint(text[i])] /\ \A i \in 1..n : text[i] \in Code
  BY <1>1, <1>3
<1>5. f \in Seq(Text) /\ Len(f) = n /\ \A i \in 1..n : f[i] = EncodePoint(text[i])
  BY <1>2, <1>4
<1>6. PICK next \in Seq(Code) : next = Append(text, c) /\ Len(next) = n + 1 /\ next[n + 1] = c
                                /\ \A i \in 1..n : next[i] = text[i]
  <2>1. /\ Append(text, c) \in Seq(Code) /\ Len(Append(text, c)) = Len(text) + 1
        /\ Append(text, c)[Len(text) + 1] = c
        /\ \A i \in 1..Len(text) : Append(text, c)[i] = text[i]
    BY AppendProperties
  <2>2. QED BY <1>1, <2>1
<1>7. PICK g : g = [i \in DOMAIN next |-> EncodePoint(next[i])]
  OBVIOUS
<1>8. g = [i \in 1..n + 1 |-> EncodePoint(next[i])] /\ \A i \in 1..n + 1 : next[i] \in Code
  BY <1>6, <1>7
<1>9. g \in Seq(Text) /\ Len(g) = n + 1 /\ \A i \in 1..n + 1 : g[i] = EncodePoint(next[i])
  BY <1>2, <1>8
<1>10. PICK q \in Text : q = EncodePoint(c)
  BY <1>2
<1>11. /\ Append(f, q) \in Seq(Text) /\ Len(Append(f, q)) = n + 1
       /\ Append(f, q)[n + 1] = q
       /\ \A i \in 1..n : Append(f, q)[i] = f[i]
  BY <1>5, AppendProperties
<1>12. \A i \in 1..n + 1 : g[i] = Append(f, q)[i]
  <2> TAKE i \in 1..n + 1
  <2>1. CASE i = n + 1
    BY <1>6, <1>9, <1>10, <1>11, <2>1
  <2>2. CASE i # n + 1
    <3>1. i \in 1..n
      BY <2>2
    <3>2. QED BY <1>5, <1>6, <1>9, <1>11, <3>1
  <2>3. QED BY <2>1, <2>2
<1>13. g = Append(f, q)
  BY <1>9, <1>11, <1>12, SeqEqual
<1>14. f \in Seq(Seq(Byte)) /\ q \in Seq(Byte)
  BY <1>5 DEF Text
<1>15. FlattenSeq(f) \in Seq(Byte) /\ FlattenSeq(Append(f, q)) = FlattenSeq(f) \o q
  BY <1>14, FlattenIs, FlattenAppend
<1>16. Encode(text) = FlattenSeq(f) /\ Encode(next) = FlattenSeq(g)
  BY <1>3, <1>7 DEF Encode
<1>17. QED BY <1>6, <1>10, <1>13, <1>15, <1>16 DEF Text

\* The empty text.
LEMMA NoText == Encode(<<>>) = <<>> /\ Scalars(<<>>) = <<>> /\ <<>> \in Seq(Code)
<1>1. PICK f : f = [i \in DOMAIN <<>> |-> EncodePoint(<<>>[i])]
  OBVIOUS
<1>2. f = <<>>
  BY <1>1
<1>3. FlattenSeq(f) = <<>>
  BY <1>2 DEF FlattenSeq
<1>4. QED BY <1>1, <1>3 DEF Encode, Scalars

\* The bytes of two texts one after the other, by induction on the second.
LEMMA EncodeConcat ==
    ASSUME NEW text \in Seq(Code), NEW more \in Seq(Code)
    PROVE  /\ Encode(text) \in Text /\ Encode(more) \in Text
           /\ Encode(text \o more) = Encode(text) \o Encode(more)
<1>1. PICK k \in Nat : k = Len(more)
  OBVIOUS
<1>2. \A t \in Seq(Code) : Encode(t) \in Text
  <2>1. 0 \in Code
    BY CodeIs
  <2>2. QED BY <2>1, EncodeAppend
<1>3. \A t \in Seq(Code), c \in Code :
          Encode(Append(t, c)) = Encode(t) \o EncodePoint(c) /\ EncodePoint(c) \in Text
  BY EncodeAppend, EncodePointIs
<1> DEFINE S == {i \in Nat : i <= k =>
                    Encode(UpTo(text, more, i)) = Encode(text) \o Encode(UpTo(<<>>, more, i))}
<1>4. <<>> \in Seq(Code) /\ <<>> \o more = more
  OBVIOUS
<1>5. ASSUME NEW w \in Seq(Code)
      PROVE  /\ UpTo(w, more, 0) = w
             /\ UpTo(w, more, k) = w \o more
             /\ \A i \in Nat : i + 1 <= k =>
                   /\ more[i + 1] \in Code
                   /\ UpTo(w, more, i) \in Seq(Code)
                   /\ UpTo(w, more, i + 1) = Append(UpTo(w, more, i), more[i + 1])
  <2>1. GrowsBy(Code, w, more)
    BY Grows
  <2>2. QED BY <1>1, <2>1 DEF GrowsBy
<1>6. 0 \in S
  <2>1. UpTo(text, more, 0) = text /\ UpTo(<<>>, more, 0) = <<>>
    BY <1>4, <1>5
  <2>2. Encode(text) \o <<>> = Encode(text)
    BY <1>2 DEF Text
  <2>3. QED BY <2>1, <2>2, NoText
<1>7. ASSUME NEW i \in Nat, i \in S
      PROVE  i + 1 \in S
  <2> SUFFICES ASSUME i + 1 <= k
               PROVE  Encode(UpTo(text, more, i + 1)) = Encode(text) \o Encode(UpTo(<<>>, more, i + 1))
    OBVIOUS
  <2>1. PICK c \in Code : c = more[i + 1]
    BY <1>5
  <2>2. PICK t \in Seq(Code) : t = UpTo(text, more, i) /\ UpTo(text, more, i + 1) = Append(t, c)
    BY <1>5, <2>1
  <2>3. PICK u \in Seq(Code) : u = UpTo(<<>>, more, i) /\ UpTo(<<>>, more, i + 1) = Append(u, c)
    BY <1>4, <1>5, <2>1
  <2>4. Encode(t) = Encode(text) \o Encode(u)
    BY <1>7, <2>2, <2>3
  <2>5. Encode(text) \in Seq(Byte) /\ Encode(u) \in Seq(Byte) /\ EncodePoint(c) \in Seq(Byte)
    BY <1>2, <1>3 DEF Text
  <2>6. (Encode(text) \o Encode(u)) \o EncodePoint(c) = Encode(text) \o (Encode(u) \o EncodePoint(c))
    <3>1. \A p, q, r \in Seq(Byte) : (p \o q) \o r = p \o (q \o r)
      BY ConcatAssociative
    <3>2. QED BY <2>5, <3>1
  <2>7. QED BY <1>3, <2>2, <2>3, <2>4, <2>6
<1> HIDE DEF S
<1>8. k \in S
  <2>1. Nat \subseteq S
    BY <1>6, <1>7, Induction
  <2>2. QED BY <2>1
<1>9. Encode(UpTo(text, more, k)) = Encode(text) \o Encode(UpTo(<<>>, more, k))
  BY <1>8 DEF S
<1>10. UpTo(text, more, k) = text \o more /\ UpTo(<<>>, more, k) = more
  BY <1>4, <1>5
<1>11. QED BY <1>2, <1>9, <1>10

\* Nothing of the pieces is pending, and these are their points.
NothingPending(pieces, points) == Pending(pieces) = <<>> /\ PointsOf(Decided(pieces)) = points

\* A character after a text with nothing pending leaves nothing pending.
LEMMA WholeCharacter ==
    ASSUME NEW w \in Text, NEW q \in Text, NEW points, NothingPending(Pieces(w), points), IsCharacter(q)
    PROVE  NothingPending(Pieces(w \o q), Append(points, PointOf(q)))
<1>1. PICK k \in Nat : k = Len(q) /\ k >= 1
  <2>1. PICK n \in 1..4 : n = Len(q)
    BY Lengths
  <2>2. n \in Nat /\ n >= 1
    OBVIOUS
  <2>3. QED BY <2>1, <2>2
<1>2. /\ UpTo(w, q, 0) = w
      /\ UpTo(w, q, k) = w \o q
      /\ \A i \in Nat : i + 1 <= k =>
            /\ q[i + 1] \in Byte
            /\ UpTo(w, q, i) \in Text
            /\ UpTo(w, q, i + 1) = Append(UpTo(w, q, i), q[i + 1])
            /\ UpTo(<<>>, q, i) \in Text
            /\ UpTo(<<>>, q, i + 1) = Append(UpTo(<<>>, q, i), q[i + 1])
  <2>1. <<>> \in Text
    BY DEF Text
  <2>2. \A v \in Text :
            /\ UpTo(v, q, 0) = v
            /\ UpTo(v, q, Len(q)) = v \o q
            /\ \A i \in Nat : i + 1 <= Len(q) =>
                 /\ i + 1 \in 1..Len(q)
                 /\ q[i + 1] \in Byte
                 /\ UpTo(v, q, i) \in Text
                 /\ UpTo(v, q, i + 1) = Append(UpTo(v, q, i), q[i + 1])
    BY UpToIs
  <2>3. QED BY <1>1, <2>1, <2>2
<1>3. UpTo(<<>>, q, 0) = <<>> /\ UpTo(<<>>, q, k) = q
  <2>1. UpTo(<<>>, q, 0) = <<>> /\ UpTo(<<>>, q, Len(q)) = <<>> \o q
    <3>1. <<>> \in Text
      BY DEF Text
    <3>2. QED BY <3>1, UpToIs
  <2>2. <<>> \o q = q
    BY DEF Text
  <2>3. QED BY <1>1, <2>1, <2>2
\* The bytes of a character but the last ones are the beginning of one.
<1>4. \A i \in Nat : i < k => IsSubpart(UpTo(<<>>, q, i))
  <2> SUFFICES ASSUME NEW i \in Nat, i < k PROVE IsSubpart(UpTo(<<>>, q, i))
    OBVIOUS
  <2>1. i \in 0..Len(q) /\ i # Len(q)
    BY <1>1
  <2>2. IsSubpart(SubSeq(q, 1, i))
    BY <2>1, PrefixFits DEF Fits
  <2>3. <<>> \o SubSeq(q, 1, i) = SubSeq(q, 1, i)
    <3>1. q \in Seq(Byte)
      BY DEF Text
    <3>2. SubSeq(q, 1, i) \in Seq(Byte)
      BY <2>1, <3>1
    <3>3. QED BY <3>2
  <2>4. QED BY <2>2, <2>3 DEF UpTo
<1> DEFINE S == {i \in Nat : i < k =>
                    /\ Pending(Pieces(UpTo(w, q, i))) = UpTo(<<>>, q, i)
                    /\ PointsOf(Decided(Pieces(UpTo(w, q, i)))) = points}
\* One more byte of it.
<1>5. ASSUME NEW i \in Nat, i < k, i \in S
      PROVE  Adds(Pieces(UpTo(w, q, i + 1)), points, UpTo(<<>>, q, i + 1))
  <2>1. PICK v \in Text : v = UpTo(w, q, i)
    BY <1>2, <1>5
  <2>2. PICK p \in Text : p = UpTo(<<>>, q, i)
    BY <1>2, <1>5
  <2>3. PICK x \in Byte : x = q[i + 1]
    BY <1>2, <1>5
  <2>4. UpTo(w, q, i + 1) = Append(v, x) /\ UpTo(<<>>, q, i + 1) = Append(p, x)
    BY <1>2, <1>5, <2>1, <2>2, <2>3
  <2>5. Pending(Pieces(v)) = p /\ PointsOf(Decided(Pieces(v))) = points
    BY <1>5, <2>1, <2>2
  <2>6. Fits(Append(p, x))
    <3>1. CASE i + 1 = k
      BY <1>3, <2>4, <3>1 DEF Fits
    <3>2. CASE i + 1 # k
      <4>1. i + 1 < k /\ i + 1 \in Nat
        BY <1>5, <3>2
      <4>2. QED BY <1>4, <2>4, <4>1 DEF Fits
    <3>3. QED BY <3>1, <3>2
  <2>7. Pieces(Append(v, x)) = Extend(Pieces(v), x) /\ CutUp(Pieces(v))
    BY PiecesExtend, PiecesCut
  <2>8. Adds(Extend(Pieces(v), x), points, Append(p, x))
    BY <2>5, <2>6, <2>7, ExtendIs
  <2>9. QED BY <2>4, <2>7, <2>8
<1>6. 0 \in S
  BY <1>2, <1>3 DEF NothingPending
<1>7. ASSUME NEW i \in Nat, i \in S
      PROVE  i + 1 \in S
  <2> SUFFICES ASSUME i + 1 < k
               PROVE  /\ Pending(Pieces(UpTo(w, q, i + 1))) = UpTo(<<>>, q, i + 1)
                      /\ PointsOf(Decided(Pieces(UpTo(w, q, i + 1)))) = points
    OBVIOUS
  <2>1. i < k /\ i + 1 \in Nat
    OBVIOUS
  <2>2. Adds(Pieces(UpTo(w, q, i + 1)), points, UpTo(<<>>, q, i + 1))
    BY <1>5, <1>7, <2>1
  <2>3. IsSubpart(UpTo(<<>>, q, i + 1))
    BY <1>4, <2>1
  <2>4. QED BY <2>2, <2>3 DEF Adds
<1> HIDE DEF S
<1>8. Nat \subseteq S
  BY <1>6, <1>7, Induction
<1>9. PICK i \in Nat : i + 1 = k
  BY <1>1
<1>10. Adds(Pieces(UpTo(w, q, k)), points, UpTo(<<>>, q, k))
  <2>1. i < k /\ i \in S
    BY <1>8, <1>9
  <2>2. QED BY <1>5, <1>9, <2>1
<1>11. Adds(Pieces(w \o q), points, q)
  BY <1>2, <1>3, <1>10
<1>12. QED BY <1>11 DEF Adds, NothingPending

\* The bytes of a text have nothing pending, and decode to the text but for
\* lone surrogates.
LEMMA WholeText ==
    ASSUME NEW text \in Seq(Code)
    PROVE  NothingPending(Pieces(Encode(text)), Scalars(text))
<1>1. PICK k \in Nat : k = Len(text)
  OBVIOUS
<1>2. /\ UpTo(<<>>, text, 0) = <<>>
      /\ UpTo(<<>>, text, k) = text
      /\ \A i \in Nat : i + 1 <= k =>
            /\ text[i + 1] \in Code
            /\ UpTo(<<>>, text, i) \in Seq(Code)
            /\ UpTo(<<>>, text, i + 1) = Append(UpTo(<<>>, text, i), text[i + 1])
  <2>1. <<>> \in Seq(Code) /\ <<>> \o text = text
    OBVIOUS
  <2>2. GrowsBy(Code, <<>>, text)
    BY <2>1, Grows
  <2>3. QED BY <1>1, <2>1, <2>2 DEF GrowsBy
<1> DEFINE S == {i \in Nat : i <= k =>
                    NothingPending(Pieces(Encode(UpTo(<<>>, text, i))), Scalars(UpTo(<<>>, text, i)))}
<1>3. 0 \in S
  <2>1. Pending(<<>>) = <<>> /\ Decided(<<>>) = <<>> /\ PointsOf(<<>>) = <<>>
    BY DEF Pending, Decided, PointsOf
  <2>2. NothingPending(<<>>, <<>>)
    BY <2>1 DEF NothingPending
  <2>3. QED BY <1>2, <2>2, NoText, NoPieces
<1>4. ASSUME NEW i \in Nat, i \in S
      PROVE  i + 1 \in S
  <2> SUFFICES ASSUME i + 1 <= k
               PROVE  NothingPending(Pieces(Encode(UpTo(<<>>, text, i + 1))),
                        Scalars(UpTo(<<>>, text, i + 1)))
    OBVIOUS
  <2>1. PICK t \in Seq(Code) : t = UpTo(<<>>, text, i)
    BY <1>2
  <2>2. PICK c \in Code : c = text[i + 1]
    BY <1>2
  <2>3. UpTo(<<>>, text, i + 1) = Append(t, c)
    BY <1>2, <2>1, <2>2
  <2>4. NothingPending(Pieces(Encode(t)), Scalars(t))
    BY <1>4, <2>1
  <2>5. Encode(t) \in Text /\ Encode(Append(t, c)) = Encode(t) \o EncodePoint(c)
    BY EncodeAppend
  <2>6. /\ EncodePoint(c) \in Text
        /\ IsCharacter(EncodePoint(c))
        /\ PointOf(EncodePoint(c)) = Scalar(c)
    BY EncodePointIs
  <2>7. NothingPending(Pieces(Encode(t) \o EncodePoint(c)), Append(Scalars(t), PointOf(EncodePoint(c))))
    BY <2>4, <2>5, <2>6, WholeCharacter
  <2>8. Scalars(Append(t, c)) = Append(Scalars(t), Scalar(c))
    BY ScalarsAppend
  <2>9. QED BY <2>3, <2>5, <2>6, <2>7, <2>8
<1> HIDE DEF S
<1>5. k \in S
  <2>1. Nat \subseteq S
    BY <1>3, <1>4, Induction
  <2>2. QED BY <2>1
<1>6. QED BY <1>2, <1>5 DEF S

\* encodeInto() finds how much of the text fits.
LEMMA FittingIs ==
    ASSUME NEW text \in Seq(Code), NEW room \in Nat
    PROVE  Fitting(text, room) \in 0..Len(text) /\ SubSeq(text, 1, Fitting(text, room)) \in Seq(Code)
<1> DEFINE Size(n) == Len(Encode(SubSeq(text, 1, n)))
<1>1. PICK k \in Nat : k = Len(text)
  OBVIOUS
<1>2. \A n \in 0..k : SubSeq(text, 1, n) \in Seq(Code) /\ Size(n) \in Nat
  <2> SUFFICES ASSUME NEW n \in 0..k PROVE SubSeq(text, 1, n) \in Seq(Code) /\ Size(n) \in Nat
    OBVIOUS
  <2>1. SubSeq(text, 1, n) \in Seq(Code)
    <3>1. \A j \in 1..n : text[j] \in Code
      BY <1>1, ElementOfSeq
    <3>2. QED BY <1>1
  <2>2. Encode(SubSeq(text, 1, n)) \in Text
    BY <2>1, EncodeConcat
  <2>3. QED BY <2>1, <2>2 DEF Text
<1>3. Size(0) = 0
  <2>1. SubSeq(text, 1, 0) = <<>>
    OBVIOUS
  <2>2. Encode(SubSeq(text, 1, 0)) = <<>> /\ Len(<<>>) = 0
    BY <2>1, NoText
  <2>3. QED BY <2>2
<1> HIDE DEF Size
<1> DEFINE T == {n \in 0..k : n < k => Size(n + 1) > room}
<1>4. PICK n \in T : \A m \in T : n <= m
  <2>1. k \in T /\ T \in SUBSET Nat
    OBVIOUS
  <2> HIDE DEF T
  <2>2. QED BY <2>1, SmallestOf
<1>5. n \in 0..k /\ (n < k => Size(n + 1) > room)
  OBVIOUS
<1>6. Size(n) <= room
  <2>1. CASE n = 0
    BY <1>3, <2>1
  <2>2. CASE n # 0
    <3>1. PICK m \in Nat : m + 1 = n
      BY <1>5, <2>2
    <3>2. m \in 0..k /\ m < k /\ m \notin T
      BY <1>4, <1>5, <3>1
    <3>3. ~(Size(m + 1) > room)
      BY <3>2
    <3>4. QED BY <1>2, <1>5, <3>1, <3>3
  <2>3. QED BY <2>1, <2>2
<1> HIDE DEF T
<1>7. \E j \in 0..Len(text) : Size(j) <= room /\ (j < Len(text) => Size(j + 1) > room)
  BY <1>1, <1>5, <1>6
<1>8. Fitting(text, room) = CHOOSE j \in 0..Len(text) : Size(j) <= room /\
         (j < Len(text) => Size(j + 1) > room)
  BY DEF Fitting, Size
<1>9. Fitting(text, room) \in 0..Len(text)
  BY <1>7, <1>8
<1>10. QED BY <1>1, <1>2, <1>9

-----------------------------------------------------------------------------
(* The invariant, and what a call leaves.                                  *)

\* What a decoder keeps whatever its stream is.
FieldsHold ==
    /\ fatal \in BOOLEAN /\ ignoreBOM \in BOOLEAN /\ bomSeen \in BOOLEAN /\ stale \in BOOLEAN
    /\ fed \in Text
    /\ emitted \in Seq(Code)
    /\ stream \in {"open", "closed", "failed", "broken"}
    /\ \E p \in Text : Keeps(partial, p)
    /\ Over => partial = Rest
    /\ bomSeen => ~ignoreBOM
    /\ stale => ~ignoreBOM

\* The fields and what the stream's bytes so far say.
OpenHolds ==
    /\ Keeps(partial, Pending(Pieces(fed)))
    /\ fatal => Clean(Pieces(fed))
    /\ bomSeen <=> ~ignoreBOM /\ (stale \/ PointsOf(Decided(Pieces(fed))) # <<>>)
    /\ emitted = IF stale THEN PointsOf(Decided(Pieces(fed)))
             ELSE Unmarked(PointsOf(Decided(Pieces(fed))))

ClosedHolds ==
    /\ fatal => AllCharacters(Pieces(fed))
    /\ emitted = IF stale THEN PointsOf(Pieces(fed)) ELSE Unmarked(PointsOf(Pieces(fed)))

StreamHolds ==
    /\ stream = "open" => OpenHolds
    /\ stream = "closed" => ClosedHolds
    /\ stream = "broken" => fatal /\ ~Clean(Pieces(fed))
    /\ stream = "failed" => fatal /\ ~AllCharacters(Pieces(fed))

SentHolds == \A text \in sent : text \in Seq(Code) /\ fed = Encode(text)

Loop(chunk) == FoldLeft(Consume, [fields |-> partial, points |-> <<>>, threw |-> FALSE], chunk)

\* The part of a call that is not the decoding.
Leaves(d, chunk, more) ==
    /\ ~Over
    /\ partial' = d.fields
    /\ stream' = Becomes(d.threw, more)
    /\ d.threw => emitted' = emitted /\ bomSeen' = bomSeen
    /\ ~d.threw => emitted' = emitted \o Returned(d) /\ bomSeen' = (more /\ (bomSeen \/ FirstPoints(d)))
    /\ fed' = fed \o chunk
    /\ fatal' = fatal /\ ignoreBOM' = ignoreBOM /\ stale' = stale

\* A call is its loop, its flush and what it leaves.
LEMMA CallIs ==
    \A chunk :
        /\ Call(chunk, TRUE) => Leaves(Flush(Loop(chunk), TRUE), chunk, TRUE)
        /\ Call(chunk, FALSE) => Leaves(Flush(Loop(chunk), FALSE), chunk, FALSE)
BY DEF Call, Leaves, Loop

\* What a call makes of a stream.
LEMMA BecomesIs ==
    ASSUME NEW d
    PROVE  /\ d.threw => Becomes(d.threw, TRUE) = "broken" /\ Becomes(d.threw, FALSE) = "failed"
           /\ stream = "broken" => Becomes(d.threw, TRUE) = "broken" /\ Becomes(d.threw, FALSE) =
                    "failed"
           /\ ~d.threw /\ stream = "open" => Becomes(d.threw, TRUE) = "open" /\
                    Becomes(d.threw, FALSE) = "closed"
BY DEF Becomes

\* A call of an open stream goes on where the last one stopped.
LEMMA LoopOpen ==
    ASSUME FieldsHold, stream = "open", OpenHolds, NEW chunk \in Text
    PROVE  /\ PointsOf(Decided(Pieces(fed))) \in Seq(Code)
           /\ Follows(Loop(chunk), Pieces(fed \o chunk), PointsOf(Decided(Pieces(fed))))
<1>1. fed \in Text
  BY DEF FieldsHold
<1>2. CutUp(Pieces(fed)) /\ Pending(Pieces(fed)) \in Text /\ CutUp(Decided(Pieces(fed)))
  BY <1>1, PiecesCut, DecidedAndPending
<1>3. PICK base \in Seq(Code) : base = PointsOf(Decided(Pieces(fed)))
  BY <1>2, PointsAre DEF CutUp
<1>4. Keeps(partial, Pending(Pieces(fed))) /\ (fatal => Clean(Pieces(fed)))
  BY DEF OpenHolds
<1>5. partial \in FieldSet
  BY <1>2, <1>4, AtRest
<1>6. PICK r : r = [fields |-> partial, points |-> <<>>, threw |-> FALSE]
  OBVIOUS
<1>7. r \in Calling /\ ~r.threw /\ r.fields = partial /\ r.points = <<>>
  BY <1>5, <1>6 DEF Calling
<1>8. base \o <<>> = base
  OBVIOUS
<1>9. Follows(r, Pieces(fed), base)
  BY <1>2, <1>3, <1>4, <1>7, <1>8 DEF Follows
<1>10. Follows(FoldLeft(Consume, r, chunk), Pieces(fed \o chunk), base)
  BY <1>1, <1>9, LoopFollows
<1>11. QED BY <1>3, <1>6, <1>10 DEF Loop

\* The loop of a call in any stream.
LEMMA LoopAny ==
    ASSUME FieldsHold, NEW chunk \in Text
    PROVE  Kept(Loop(chunk))
<1>1. PICK p \in Text : Keeps(partial, p)
  BY DEF FieldsHold
<1>2. partial \in FieldSet
  BY <1>1, AtRest
<1>3. PICK r : r = [fields |-> partial, points |-> <<>>, threw |-> FALSE]
  OBVIOUS
<1>4. r \in Calling /\ ~r.threw /\ r.fields = partial
  BY <1>2, <1>3 DEF Calling
<1>5. Kept(r)
  BY <1>1, <1>4 DEF Kept
<1>6. Kept(FoldLeft(Consume, r, chunk))
  BY <1>5, LoopKeeps
<1>7. QED BY <1>3, <1>6 DEF Loop

\* What a call returns are code points.
LEMMA ReturnedIn ==
    ASSUME NEW d \in Calling
    PROVE  d.points \in Seq(Code) /\ Returned(d) \in Seq(Code)
<1>1. d.points \in Seq(Code)
  BY DEF Calling
<1>2. PICK s \in Seq(Code) : s = d.points
  BY <1>1
<1>3. s # <<>> => Tail(s) \in Seq(Code)
  OBVIOUS
<1>4. FirstPoints(d) => d.points # <<>>
  BY DEF FirstPoints
<1>5. QED BY <1>2, <1>3, <1>4 DEF Returned

\* The mark is looked for in the first points of a stream, once.
LEMMA MarkStep ==
    ASSUME FieldsHold, stream = "open", OpenHolds,
           NEW base \in Seq(Code), base = PointsOf(Decided(Pieces(fed))), NEW d \in Calling
    PROVE  /\ emitted \o Returned(d) = IF stale THEN base \o d.points ELSE Unmarked(base \o d.points)
           /\ bomSeen \/ FirstPoints(d) <=> ~ignoreBOM /\ (stale \/ base \o d.points # <<>>)
<1>1. PICK points \in Seq(Code) : points = d.points
  BY ReturnedIn
<1>2. /\ bomSeen <=> ~ignoreBOM /\ (stale \/ base # <<>>)
      /\ emitted = IF stale THEN base ELSE Unmarked(base)
      /\ stale => ~ignoreBOM
  BY DEF FieldsHold, OpenHolds
<1>3. base \o points = <<>> <=> base = <<>> /\ points = <<>>
  BY ConcatEqualIffEmpty
<1>4. FirstPoints(d) <=> ~ignoreBOM /\ ~bomSeen /\ points # <<>>
  BY <1>1 DEF FirstPoints
<1>5. bomSeen \/ FirstPoints(d) <=> ~ignoreBOM /\ (stale \/ base \o points # <<>>)
  BY <1>2, <1>3, <1>4
<1>6. emitted \o Returned(d) = IF stale THEN base \o points ELSE Unmarked(base \o points)
  <2>1. CASE stale
    <3>1. ~FirstPoints(d) /\ emitted = base
      BY <1>2, <1>4, <2>1
    <3>2. QED BY <1>1, <2>1, <3>1 DEF Returned
  <2>2. CASE ~stale /\ base # <<>>
    <3>1. ~FirstPoints(d) /\ emitted = Unmarked(base)
      BY <1>2, <1>4, <2>2
    <3>2. Unmarked(base \o points) = Unmarked(base) \o points
      BY <2>2, MarkOnce
    <3>3. QED BY <1>1, <2>2, <3>1, <3>2 DEF Returned
  <2>3. CASE ~stale /\ base = <<>>
    <3>1. emitted = <<>>
      BY <1>2, <2>3 DEF Unmarked
    <3>2. base \o points = points
      BY <2>3
    <3>3. Returned(d) = Unmarked(points)
      BY <1>1, <1>2, <1>4, <2>3 DEF Returned, Unmarked
    <3>4. Returned(d) \in Seq(Code)
      BY ReturnedIn
    <3>5. <<>> \o Returned(d) = Returned(d)
      BY <3>4
    <3>6. QED BY <2>3, <3>1, <3>2, <3>3, <3>5
  <2>4. QED BY <2>1, <2>2, <2>3
<1>7. QED BY <1>1, <1>5, <1>6

\* Text is well formed when all its pieces are characters.
LEMMA WellFormedIs ==
    ASSUME NEW w \in Text
    PROVE  WellFormed(w) <=> AllCharacters(Pieces(w))
<1>1. Pieces(w) \in Seq(Text)
  BY PiecesCut DEF CutUp
<1>2. DOMAIN Pieces(w) = 1..Len(Pieces(w))
  BY <1>1
<1>3. QED BY <1>2 DEF WellFormed, AllCharacters

-----------------------------------------------------------------------------
(* Every step of the decoder keeps the invariant.                          *)

\* What every call leaves, whatever its bytes.
LEMMA FieldsAfter ==
    ASSUME FieldsHold, NEW chunk \in Text, NEW d, Kept(d),
           \/ Leaves(d, chunk, TRUE)
           \/ Leaves(d, chunk, FALSE) /\ d.fields = Rest
    PROVE  FieldsHold'
<1>1. d \in Calling
  BY DEF Kept
<1>2. partial' = d.fields /\ \E p \in Text : Keeps(d.fields, p)
  BY DEF Leaves, Kept
<1>3. fed' \in Text
  <2>1. fed \in Seq(Byte) /\ chunk \in Seq(Byte) /\ fed' = fed \o chunk
    BY DEF FieldsHold, Leaves, Text
  <2>2. fed \o chunk \in Seq(Byte)
    BY <2>1
  <2>3. QED BY <2>1, <2>2 DEF Text
<1>4. emitted' \in Seq(Code)
  <2>1. CASE d.threw
    BY <2>1 DEF FieldsHold, Leaves
  <2>2. CASE ~d.threw
    <3>1. Returned(d) \in Seq(Code) /\ emitted \in Seq(Code)
      BY <1>1, ReturnedIn DEF FieldsHold
    <3>2. emitted \o Returned(d) \in Seq(Code)
      BY <3>1
    <3>3. QED BY <2>2, <3>2 DEF Leaves
  <2>3. QED BY <2>1, <2>2
<1>5. bomSeen' \in BOOLEAN /\ (bomSeen' => ~ignoreBOM)
  <2>1. CASE d.threw
    <3>1. bomSeen' = bomSeen
      BY <2>1 DEF Leaves
    <3>2. QED BY <3>1 DEF FieldsHold
  <2>2. CASE ~d.threw
    <3>1. FirstPoints(d) => ~ignoreBOM
      BY DEF FirstPoints
    <3>2. bomSeen => ~ignoreBOM
      BY DEF FieldsHold
    <3>3. CASE Leaves(d, chunk, TRUE)
      <4>1. bomSeen' = (TRUE /\ (bomSeen \/ FirstPoints(d)))
        BY <2>2, <3>3 DEF Leaves
      <4>2. QED BY <3>1, <3>2, <4>1
    <3>4. CASE Leaves(d, chunk, FALSE)
      <4>1. bomSeen' = (FALSE /\ (bomSeen \/ FirstPoints(d)))
        BY <2>2, <3>4 DEF Leaves
      <4>2. QED BY <4>1
    <3>5. QED BY <3>3, <3>4
  <2>3. QED BY <2>1, <2>2
<1>6. /\ fatal' = fatal /\ ignoreBOM' = ignoreBOM /\ stale' = stale
      /\ fatal \in BOOLEAN /\ ignoreBOM \in BOOLEAN /\ stale \in BOOLEAN
      /\ stale => ~ignoreBOM
  BY DEF FieldsHold, Leaves
<1>7. /\ stream' \in {"open", "closed", "failed", "broken"}
      /\ Over' => partial' = Rest
  <2>1. CASE Leaves(d, chunk, TRUE)
    <3>1. stream' = Becomes(d.threw, TRUE)
      BY <2>1 DEF Leaves
    <3>2. stream' \in {"open", "broken"}
      BY <3>1 DEF Becomes
    <3>3. QED BY <3>2 DEF Over
  <2>2. CASE Leaves(d, chunk, FALSE) /\ d.fields = Rest
    <3>1. stream' = Becomes(d.threw, FALSE)
      BY <2>2 DEF Leaves
    <3>2. stream' \in {"closed", "failed"}
      BY <3>1 DEF Becomes
    <3>3. QED BY <1>2, <2>2, <3>2
  <2>3. QED BY <2>1, <2>2
<1>8. QED BY <1>2, <1>3, <1>4, <1>5, <1>6, <1>7 DEF FieldsHold

\* A call with `stream`.
LEMMA CallMore ==
    ASSUME FieldsHold, StreamHolds, NEW chunk \in Text, Call(chunk, TRUE)
    PROVE  FieldsHold' /\ StreamHolds'
<1>1. PICK r : r = Loop(chunk)
  OBVIOUS
<1>2. PICK d : d = Flush(r, TRUE)
  OBVIOUS
<1>3. Kept(d)
  BY <1>1, <1>2, LoopAny, FlushKeeps
<1>4. Leaves(d, chunk, TRUE)
  BY <1>1, <1>2, CallIs
<1>5. FieldsHold'
  BY <1>3, <1>4, FieldsAfter
<1>6. /\ partial' = d.fields
      /\ fed' = fed \o chunk /\ fed \in Text
      /\ stream' = Becomes(d.threw, TRUE)
      /\ fatal' = fatal /\ ignoreBOM' = ignoreBOM /\ stale' = stale
  BY <1>4 DEF Leaves, FieldsHold
<1>7. CASE stream = "open"
  <2>1. OpenHolds
    BY <1>7 DEF StreamHolds
  <2>2. PICK base \in Seq(Code) : base = PointsOf(Decided(Pieces(fed))) /\
           Follows(r, Pieces(fed'), base)
    BY <1>1, <1>6, <1>7, <2>1, LoopOpen
  <2>3. d = r /\ d \in Calling
    BY <1>2, <1>3, <2>2, FlushFollows DEF Kept
  <2>4. CASE d.threw
    <3>1. stream' = "broken"
      BY <1>6, <2>4, BecomesIs
    <3>2. fatal /\ ~Clean(Pieces(fed'))
      BY <2>2, <2>3, <2>4 DEF Follows
    <3>3. QED BY <1>5, <1>6, <3>1, <3>2 DEF StreamHolds
  <2>5. CASE ~d.threw
    <3>1. stream' = "open"
      BY <1>6, <1>7, <2>5, BecomesIs
    <3>2. /\ Keeps(d.fields, Pending(Pieces(fed')))
          /\ PointsOf(Decided(Pieces(fed'))) = base \o d.points
          /\ fatal => Clean(Pieces(fed'))
      BY <2>2, <2>3, <2>5 DEF Follows
    <3>3. /\ emitted \o Returned(d) = IF stale THEN base \o d.points ELSE Unmarked(base \o d.points)
          /\ bomSeen \/ FirstPoints(d) <=> ~ignoreBOM /\ (stale \/ base \o d.points # <<>>)
      BY <1>7, <2>1, <2>2, <2>3, MarkStep
    <3>4. emitted' = emitted \o Returned(d) /\ bomSeen' = (TRUE /\ (bomSeen \/ FirstPoints(d)))
      BY <1>4, <2>5 DEF Leaves
    <3>5. Unmarked(base \o d.points)' = Unmarked(base \o d.points)'
      OBVIOUS
    <3>6. emitted' = IF stale' THEN PointsOf(Decided(Pieces(fed')))
             ELSE Unmarked(PointsOf(Decided(Pieces(fed))))'
      BY <1>6, <3>2, <3>3, <3>4 DEF Unmarked
    <3>7. bomSeen' <=> ~ignoreBOM' /\ (stale' \/ PointsOf(Decided(Pieces(fed'))) # <<>>)
      BY <1>6, <3>2, <3>3, <3>4
    <3>8. OpenHolds'
      BY <1>6, <3>2, <3>6, <3>7 DEF OpenHolds
    <3>9. QED BY <1>5, <3>1, <3>8 DEF StreamHolds
  <2>6. QED BY <2>4, <2>5
<1>8. CASE stream = "broken"
  <2>1. fatal /\ ~Clean(Pieces(fed))
    BY <1>8 DEF StreamHolds
  <2>2. ~Clean(Pieces(fed'))
    BY <1>6, <2>1, RuinStays
  <2>3. stream' = "broken"
    BY <1>6, <1>8, BecomesIs
  <2>4. QED BY <1>5, <1>6, <2>1, <2>2, <2>3 DEF StreamHolds
<1>9. QED BY <1>4, <1>7, <1>8 DEF Leaves, Over, FieldsHold

\* A call without `stream`, the last of its stream.
LEMMA CallLast ==
    ASSUME FieldsHold, StreamHolds, NEW chunk \in Text, Call(chunk, FALSE)
    PROVE  FieldsHold' /\ StreamHolds'
<1>1. PICK r : r = Loop(chunk)
  OBVIOUS
<1>2. PICK d : d = Flush(r, FALSE)
  OBVIOUS
<1>3. Kept(d) /\ d.fields = Rest
  BY <1>1, <1>2, LoopAny, FlushKeeps
<1>4. Leaves(d, chunk, FALSE)
  BY <1>1, <1>2, CallIs
<1>5. FieldsHold'
  BY <1>3, <1>4, FieldsAfter
<1>6. /\ fed' = fed \o chunk /\ fed \in Text /\ fed' \in Text
      /\ stream' = Becomes(d.threw, FALSE)
      /\ fatal' = fatal /\ ignoreBOM' = ignoreBOM /\ stale' = stale
  BY <1>4, <1>5 DEF Leaves, FieldsHold
<1>7. CASE stream = "open"
  <2>1. OpenHolds
    BY <1>7 DEF StreamHolds
  <2>2. PICK base \in Seq(Code) : base = PointsOf(Decided(Pieces(fed))) /\
           Follows(r, Pieces(fed'), base)
    BY <1>1, <1>6, <1>7, <2>1, LoopOpen
  <2>3. EndsCall(d, Pieces(fed'), base) /\ d \in Calling
    BY <1>2, <1>3, <2>2, FlushFollows DEF Kept
  <2>4. CASE d.threw
    <3>1. stream' = "failed"
      BY <1>6, <2>4, BecomesIs
    <3>2. fatal /\ ~AllCharacters(Pieces(fed'))
      BY <2>3, <2>4 DEF EndsCall
    <3>3. QED BY <1>5, <1>6, <3>1, <3>2 DEF StreamHolds
  <2>5. CASE ~d.threw
    <3>1. stream' = "closed"
      BY <1>6, <1>7, <2>5, BecomesIs
    <3>2. /\ PointsOf(Pieces(fed')) = base \o d.points
          /\ fatal => AllCharacters(Pieces(fed'))
      BY <2>3, <2>5 DEF EndsCall
    <3>3. emitted \o Returned(d) = IF stale THEN base \o d.points ELSE Unmarked(base \o d.points)
      BY <1>7, <2>1, <2>2, <2>3, MarkStep
    <3>4. emitted' = emitted \o Returned(d)
      BY <1>4, <2>5 DEF Leaves
    <3>5. emitted' = IF stale' THEN PointsOf(Pieces(fed')) ELSE Unmarked(PointsOf(Pieces(fed)))'
      BY <1>6, <3>2, <3>3, <3>4 DEF Unmarked
    <3>6. ClosedHolds'
      BY <1>6, <3>2, <3>5 DEF ClosedHolds
    <3>7. QED BY <1>5, <3>1, <3>6 DEF StreamHolds
  <2>6. QED BY <2>4, <2>5
<1>8. CASE stream = "broken"
  <2>1. fatal /\ ~Clean(Pieces(fed))
    BY <1>8 DEF StreamHolds
  <2>2. ~Clean(Pieces(fed')) /\ CutUp(Pieces(fed'))
    BY <1>6, <2>1, RuinStays, PiecesCut
  <2>3. ~AllCharacters(Pieces(fed'))
    BY <2>2, AllClean
  <2>4. stream' = "failed"
    BY <1>6, <1>8, BecomesIs
  <2>5. QED BY <1>5, <1>6, <2>1, <2>3, <2>4 DEF StreamHolds
<1>9. QED BY <1>4, <1>7, <1>8 DEF Leaves, Over, FieldsHold

----------------------------------------------------------------------------

\* The inductive invariant.
Utf8Inv == FieldsHold /\ StreamHolds /\ SentHolds

\* The history of a stream that has just begun.
LEMMA NothingFed ==
    /\ <<>> \in Text /\ <<>> \in Seq(Code)
    /\ Keeps(Rest, <<>>)
    /\ Pending(Pieces(<<>>)) = <<>> /\ Clean(Pieces(<<>>))
    /\ PointsOf(Decided(Pieces(<<>>))) = <<>>
    /\ Unmarked(<<>>) = <<>>
<1>1. Pieces(<<>>) = <<>>
  BY NoPieces
<1>2. Decided(<<>>) = <<>> /\ Pending(<<>>) = <<>> /\ PointsOf(<<>>) = <<>>
  BY DEF Decided, Pending, PointsOf
<1>3. QED BY <1>1, <1>2, KeepsNothing DEF Text, Clean, Unmarked

\* A new decoder satisfies the invariant.
LEMMA InitHolds ==
    ASSUME Init
    PROVE  Utf8Inv
<1>1. FieldsHold
  BY NothingFed DEF Init, FieldsHold, Over
<1>2. OpenHolds
  BY NothingFed DEF Init, OpenHolds
<1>3. SentHolds
  BY NoText DEF Init, SentHolds
<1>4. QED BY <1>1, <1>2, <1>3 DEF Utf8Inv, StreamHolds, Init

\* The chunks the model enumerates are texts.
LEMMA ChunkIs ==
    ASSUME NEW S, NEW T, S \subseteq T, NEW n, NEW chunk \in SeqOf(S, n)
    PROVE  chunk \in Seq(T)
<1>1. PICK m \in 0..n : chunk \in [1..m -> S]
  BY DEF SeqOf
<1>2. m \in Nat
  BY <1>1
<1>3. chunk \in [1..m -> T]
  BY <1>1
<1>4. QED BY <1>2, <1>3

\* Every step of the UTF-8 decoder keeps the invariant: a chunk, a chunk from
\* encodeInto(), a new stream.
LEMMA NextHolds ==
    ASSUME Utf8Inv, Next
    PROVE  Utf8Inv'
<1>1. FieldsHold /\ StreamHolds /\ SentHolds
  BY DEF Utf8Inv
<1>2. ASSUME NewStream
      PROVE  Utf8Inv'
  <2>1. FieldsHold'
    BY <1>1, <1>2, NothingFed DEF NewStream, FieldsHold, Over
  <2>2. OpenHolds'
    <3>1. partial' = Rest /\ fed' = <<>> /\ emitted' = <<>> /\ stale' = bomSeen /\ bomSeen' = bomSeen
          /\ ignoreBOM' = ignoreBOM
      BY <1>1, <1>2 DEF NewStream, FieldsHold
    <3>2. bomSeen \in BOOLEAN /\ (bomSeen => ~ignoreBOM)
      BY <1>1 DEF FieldsHold
    <3>3. Unmarked(PointsOf(Decided(Pieces(fed))))' = <<>>
      BY <3>1, NothingFed DEF Unmarked
    <3>4. QED BY <3>1, <3>2, <3>3, NothingFed DEF OpenHolds
  <2>3. SentHolds'
    BY <1>2, NoText DEF NewStream, SentHolds
  <2>4. QED BY <1>2, <2>1, <2>2, <2>3 DEF Utf8Inv, StreamHolds, NewStream
<1>3. ASSUME NEW chunk \in Text, NEW more \in BOOLEAN, Call(chunk, more)
      PROVE  FieldsHold' /\ StreamHolds'
  <2>1. CASE more = TRUE
    BY <1>1, <1>3, <2>1, CallMore
  <2>2. CASE more = FALSE
    BY <1>1, <1>3, <2>2, CallLast
  <2>3. QED BY <2>1, <2>2
<1>4. ASSUME DecodeBytes
      PROVE  Utf8Inv'
  <2>1. PICK more \in BOOLEAN, chunk \in SeqOf(Bytes, MaxFed - Len(fed)) : Call(chunk, more) /\
           sent' = {}
    BY <1>4 DEF DecodeBytes
  <2>2. chunk \in Text
    BY Utf8Assumption, ChunkIs DEF Text, Byte
  <2>3. SentHolds'
    BY <2>1 DEF SentHolds
  <2>4. QED BY <1>3, <2>1, <2>2, <2>3 DEF Utf8Inv
<1>5. ASSUME DecodeText
      PROVE  Utf8Inv'
  <2>1. PICK text \in sent :
            \E more \in BOOLEAN, next \in SeqOf(Points, MaxText - Len(text)), room \in 0..4 * MaxText :
               LET written == SubSeq(next, 1, Fitting(next, room)) IN
               /\ Call(Encode(written), more)
               /\ sent' = {text \o written}
    BY <1>5 DEF DecodeText
  <2>2. PICK more \in BOOLEAN, next \in SeqOf(Points, MaxText - Len(text)), room \in 0..4 * MaxText :
               LET written == SubSeq(next, 1, Fitting(next, room)) IN
               /\ Call(Encode(written), more)
               /\ sent' = {text \o written}
    BY <2>1
  <2>3. PICK written : written = SubSeq(next, 1, Fitting(next, room))
    OBVIOUS
  <2>4. room \in Nat
    BY Utf8Assumption
  <2>5. next \in Seq(Code)
    BY Utf8Assumption, ChunkIs DEF Code
  <2>6. written \in Seq(Code)
    BY <2>3, <2>4, <2>5, FittingIs
  <2>7. text \in Seq(Code) /\ fed = Encode(text)
    BY <1>1 DEF SentHolds
  <2>8. Encode(written) \in Text /\ Encode(text \o written) = Encode(text) \o Encode(written)
    BY <2>6, <2>7, EncodeConcat
  <2>9. Call(Encode(written), more) /\ sent' = {text \o written}
    BY <2>2, <2>3
  <2>10. fed' = fed \o Encode(written)
    BY <2>9 DEF Call
  <2>11. text \o written \in Seq(Code)
    BY <2>6, <2>7
  <2>12. SentHolds'
    BY <2>7, <2>8, <2>9, <2>10, <2>11 DEF SentHolds
  <2>13. QED BY <1>3, <2>8, <2>9, <2>12 DEF Utf8Inv
<1>6. QED BY <1>2, <1>4, <1>5 DEF Next

\* The steps of legacy streams leave the invariant alone.
LEMMA StutterHolds ==
    ASSUME Utf8Inv, UNCHANGED vars
    PROVE  Utf8Inv'
<1>1. /\ fatal' = fatal /\ ignoreBOM' = ignoreBOM /\ partial' = partial /\ bomSeen' = bomSeen
      /\ fed' = fed /\ emitted' = emitted /\ sent' = sent /\ stale' = stale /\ stream' = stream
  BY DEF vars
<1>2. FieldsHold'
  BY <1>1 DEF Utf8Inv, FieldsHold, Over
<1>3. StreamHolds'
  BY <1>1 DEF Utf8Inv, StreamHolds, OpenHolds, ClosedHolds, Unmarked
<1>4. SentHolds'
  BY <1>1 DEF Utf8Inv, SentHolds
<1>5. QED BY <1>2, <1>3, <1>4 DEF Utf8Inv

-----------------------------------------------------------------------------
(* The theorems.                                                           *)

\* The fields a decoder has between two turns, bounded as the code's are.
LEMMA KeptWithin ==
    ASSUME NEW f, NEW p \in Text, Keeps(f, p)
    PROVE  /\ f \in [needed : 0..3, seen : 0..2, codePoint : 0..LargestPoint,
                     lower : {128, 144, 160}, upper : {143, 159, 191}]
           /\ f.needed = 0 => f = Rest
           /\ f.needed # 0 => f.seen < f.needed
           /\ f.seen > 0 => f.lower = 128 /\ f.upper = 191
<1>1. PICK n \in Nat, a \in Nat, b \in Nat, c \in Nat, d \in Nat : Are(p, n, a, b, c, d) /\
         Has(f, n, a, b, c)
  BY DEF Keeps
<1>2. IsSubpart(p)
  BY DEF Keeps
<1>3. n = 0 \/ (Sound(n, a, b, c, d) /\ n < 1 + Need(a))
  BY <1>1, <1>2, Table DEF Text
<1>4. f \in FieldSet
  BY <1>1 DEF Has
<1>5. CASE n = 0
  <2>1. f = Rest
    BY <1>1, <1>5 DEF Has
  <2>2. 0 \in 0..LargestPoint
    BY CodeIs DEF Code
  <2>3. QED BY <2>1, <2>2 DEF Rest
<1>6. CASE n # 0
  <2>1. Sound(n, a, b, c, d) /\ n < 1 + Need(a) /\ n >= 1
    BY <1>3, <1>6
  <2>2. Need(a) \in 1..3 /\ n \in 1..3 /\ a \in 194..244
    BY <2>1 DEF Need
  <2>3. /\ f.needed = Need(a) /\ f.seen = n - 1 /\ f.codePoint = Bits(n, a, b, c)
        /\ f.lower = IF n = 1 THEN Low(a) ELSE 128
        /\ f.upper = IF n = 1 THEN High(a) ELSE 191
    BY <1>1, <2>1 DEF Has
  <2>4. Low(a) \in {128, 144, 160} /\ High(a) \in {143, 159, 191}
    BY DEF Low, High
  <2>5. f.needed \in 0..3 /\ f.seen \in 0..2 /\ f.lower \in {128, 144, 160} /\
           f.upper \in {143, 159, 191}
    BY <2>2, <2>3, <2>4
  <2>6. Top(a) \in 0..31
    BY <2>2 DEF Top, Need
  <2>7. (n >= 2 => b - 128 \in 0..63) /\ (n >= 3 => c - 128 \in 0..63)
    BY <2>1 DEF Sound, Low, High
  <2>8. Bits(n, a, b, c) \in Nat /\ Bits(n, a, b, c) <= LargestPoint
    <3>1. PICK t \in Nat : t = Top(a) /\ t <= 31
      BY <2>6
    <3>2. CASE n = 1
      <4>1. Bits(n, a, b, c) = t
        BY <3>1, <3>2 DEF Bits
      <4>2. t <= LargestPoint
        BY <3>1, SMT DEF LargestPoint
      <4>3. QED BY <4>1, <4>2
    <3>3. CASE n = 2
      <4>1. PICK x \in Nat : x = b - 128 /\ x <= 63
        BY <2>7, <3>3
      <4>2. Bits(n, a, b, c) = t * 64 + x
        BY <3>1, <3>3, <4>1 DEF Bits
      <4>3. t * 64 + x \in Nat /\ t * 64 + x <= LargestPoint
        BY <3>1, <4>1, SMT DEF LargestPoint
      <4>4. QED BY <4>2, <4>3
    <3>4. CASE n = 3
      <4>1. PICK x \in Nat : x = b - 128 /\ x <= 63
        BY <2>7, <3>4
      <4>2. PICK y \in Nat : y = c - 128 /\ y <= 63
        BY <2>7, <3>4
      <4>3. Bits(n, a, b, c) = (t * 64 + x) * 64 + y
        BY <3>1, <3>4, <4>1, <4>2 DEF Bits
      <4>4. (t * 64 + x) * 64 + y \in Nat /\ (t * 64 + x) * 64 + y <= LargestPoint
        BY <3>1, <4>1, <4>2, SMT DEF LargestPoint
      <4>5. QED BY <4>3, <4>4
    <3>5. QED BY <2>2, <3>2, <3>3, <3>4
  <2>9. f.codePoint \in 0..LargestPoint
    <3>1. f.codePoint \in Code
      BY <2>3, <2>8, CodeIs
    <3>2. QED BY <3>1 DEF Code
  <2>10. f.needed # 0 /\ f.seen < f.needed
    BY <2>1, <2>2, <2>3
  <2>11. f.seen > 0 => f.lower = 128 /\ f.upper = 191
    BY <2>2, <2>3
  <2>12. f = [needed |-> f.needed, seen |-> f.seen, codePoint |-> f.codePoint, lower |-> f.lower,
           upper |-> f.upper]
    BY <1>4 DEF FieldSet
  <2>13. QED BY <2>5, <2>9, <2>10, <2>11, <2>12
<1>7. QED BY <1>5, <1>6

\* The invariant gives the types.
LEMMA InvTypes ==
    ASSUME Utf8Inv
    PROVE  Utf8TypeOK
<1>1. FieldsHold
  BY DEF Utf8Inv
<1>2. PICK p \in Text : Keeps(partial, p)
  BY <1>1 DEF FieldsHold
<1>3. /\ partial \in [needed : 0..3, seen : 0..2, codePoint : 0..LargestPoint,
                      lower : {128, 144, 160}, upper : {143, 159, 191}]
      /\ partial.needed = 0 => partial = Rest
      /\ partial.needed # 0 => partial.seen < partial.needed
      /\ partial.seen > 0 => partial.lower = 128 /\ partial.upper = 191
  BY <1>2, KeptWithin
<1>4. fed \in Seq(0..255) /\ emitted \in Seq(0..LargestPoint)
  BY <1>1 DEF FieldsHold, Text, Byte, Code
<1>5. /\ fatal \in BOOLEAN /\ ignoreBOM \in BOOLEAN /\ bomSeen \in BOOLEAN
      /\ Over => partial = Rest
      /\ stream \in {"open", "closed", "failed", "broken"}
  BY <1>1 DEF FieldsHold
<1>6. QED BY <1>3, <1>4, <1>5 DEF Utf8TypeOK

\* The invariant gives StreamedAsOneShot.
LEMMA InvStreams ==
    ASSUME Utf8Inv
    PROVE  StreamedAsOneShot
<1>1. CASE stream = "open"
  <2>1. OpenHolds /\ Settled = PointsOf(Decided(Pieces(fed)))
    BY <1>1 DEF Utf8Inv, StreamHolds, Settled
  <2>2. QED BY <2>1 DEF OpenHolds, StreamedAsOneShot
<1>2. CASE stream = "closed"
  <2>1. ClosedHolds /\ Settled = PointsOf(Pieces(fed))
    BY <1>2 DEF Utf8Inv, StreamHolds, Settled
  <2>2. QED BY <2>1 DEF ClosedHolds, StreamedAsOneShot
<1>3. QED BY <1>1, <1>2 DEF StreamedAsOneShot

\* The invariant gives FatalThrows.
LEMMA InvFatal ==
    ASSUME Utf8Inv
    PROVE  FatalThrows
<1>1. fed \in Text
  BY DEF Utf8Inv, FieldsHold
<1>2. WellFormed(fed) <=> AllCharacters(Pieces(fed))
  BY <1>1, WellFormedIs
<1>3. AllCharacters(Pieces(fed)) => Clean(Pieces(fed))
  BY <1>1, PiecesCut, AllClean
<1>4. QED BY <1>2, <1>3 DEF Utf8Inv, StreamHolds, ClosedHolds, FatalThrows

\* The invariant gives RoundTrip: encoded text has nothing pending.
LEMMA InvTrips ==
    ASSUME Utf8Inv
    PROVE  RoundTrip
<1> SUFFICES ASSUME stream \in {"open", "closed"}, NEW text \in sent
             PROVE  LET points == [i \in DOMAIN text |->
                                      IF text[i] \in Surrogates THEN REPLACEMENT ELSE text[i]]
                    IN  emitted = IF stale THEN points ELSE Unmarked(points)
  BY DEF RoundTrip
<1>1. text \in Seq(Code) /\ fed = Encode(text)
  BY DEF Utf8Inv, SentHolds
<1>2. NothingPending(Pieces(fed), Scalars(text))
  BY <1>1, WholeText
<1>3. fed \in Text
  BY DEF Utf8Inv, FieldsHold
<1>4. CutUp(Pieces(fed))
  BY <1>3, PiecesCut
<1>5. Decided(Pieces(fed)) = Pieces(fed)
  BY <1>2, <1>4, DecidedAndPending DEF NothingPending
<1>6. Settled = Scalars(text)
  BY <1>2, <1>5 DEF NothingPending, Settled
<1>7. Scalars(text) = [i \in DOMAIN text |-> IF text[i] \in Surrogates THEN REPLACEMENT ELSE text[i]]
  BY DEF Scalars, Scalar
<1>8. StreamedAsOneShot
  BY InvStreams
<1>9. emitted = IF stale THEN Scalars(text) ELSE Unmarked(Scalars(text))
  BY <1>6, <1>8 DEF StreamedAsOneShot
<1>10. QED BY <1>7, <1>9

\* The inductive invariant: the decoder's five numbers stand for the pending
\* bytes of its stream, whatever the chunks.
THEOREM Utf8Holds == DecoderSpec => []Utf8Inv
<1>1. DecoderInit => Utf8Inv
  BY InitHolds DEF DecoderInit
<1>2. Utf8Inv /\ [DecoderNext]_decoderVars => Utf8Inv'
  <2> SUFFICES ASSUME Utf8Inv, [DecoderNext]_decoderVars PROVE Utf8Inv'
    OBVIOUS
  <2>1. CASE DecodeUtf8
    BY <2>1, NextHolds DEF DecodeUtf8
  <2>2. CASE DecodeLegacy
    BY <2>2, StutterHolds DEF DecodeLegacy
  <2>3. CASE AnotherStream
    BY <2>3, StutterHolds DEF AnotherStream
  <2>4. CASE UNCHANGED decoderVars
    BY <2>4, StutterHolds DEF decoderVars
  <2>5. QED BY <2>1, <2>2, <2>3, <2>4 DEF DecoderNext
<1>3. QED BY <1>1, <1>2, PTL DEF DecoderSpec

\* Type correctness of the UTF-8 decoder: the fields stay within the ranges
\* the loop of decode() relies on, and are at rest once a stream is over.
THEOREM Utf8TypeCorrect == DecoderSpec => []Utf8TypeOK
<1>1. Utf8Inv => Utf8TypeOK
  BY InvTypes
<1>2. QED BY <1>1, Utf8Holds, PTL

\* A stream decoded chunk by chunk has returned what its bytes so far decode
\* to in one go, but for the last bytes while they may still begin a
\* character (decode() with `stream`), and for the mark.
THEOREM ChunksDoNotMatter == DecoderSpec => []StreamedAsOneShot
<1>1. Utf8Inv => StreamedAsOneShot
  BY InvStreams
<1>2. QED BY <1>1, Utf8Holds, PTL

\* A fatal decoder throws for malformed bytes and only for them: a stream it
\* ended without a throw was well-formed text, one in which it threw was not.
THEOREM ThrowsForMalformed == DecoderSpec => []FatalThrows
<1>1. Utf8Inv => FatalThrows
  BY InvFatal
<1>2. QED BY <1>1, Utf8Holds, PTL

\* A text that encodeInto() wrote, piece by piece and whatever the room,
\* comes out of the decoder as it was but for lone surrogates and the mark.
THEOREM TextsArrive == DecoderSpec => []RoundTrip
<1>1. Utf8Inv => RoundTrip
  BY InvTrips
<1>2. QED BY <1>1, Utf8Holds, PTL

-----------------------------------------------------------------------------
(* The other labels: the bytes that are left of a text, and its first      *)
(* piece.                                                                  *)

\* What is left of a text after its first n bytes.
After(w, n) == SubSeq(w, n + 1, Len(w))

\* What is left of a text after some of its bytes.
LEMMA AfterIs ==
    ASSUME NEW w \in Text, NEW n \in 0..Len(w)
    PROVE  /\ After(w, n) \in Text
           /\ Len(After(w, n)) = Len(w) - n
           /\ \A i \in 1..Len(w) - n : After(w, n)[i] = w[n + i]
BY DEF After, Text

\* The same, byte by byte.
IsAfter(u, w, n) ==
    /\ u \in Text
    /\ u = After(w, n)
    /\ Len(u) = Len(w) - n
    /\ \A i \in 1..Len(w) - n : u[i] = w[n + i]

\* The same, as a text to work with.
LEMMA AfterExists ==
    ASSUME NEW w \in Text, NEW n \in 0..Len(w)
    PROVE  \E u \in Text : IsAfter(u, w, n)
BY AfterIs DEF IsAfter

\* z is x and y, byte by byte.
Joins(z, x, y) ==
    /\ z \in Text
    /\ z = x \o y
    /\ Len(z) = Len(x) + Len(y)
    /\ \A i \in 1..Len(x) + Len(y) : z[i] = IF i <= Len(x) THEN x[i] ELSE y[i - Len(x)]

\* Two texts one after the other, as a text to work with.
LEMMA JoinExists ==
    ASSUME NEW x \in Text, NEW y \in Text
    PROVE  \E z \in Text : Joins(z, x, y)
<1>1. Joins(x \o y, x, y)
  BY ConcatProperties DEF Text, Joins
<1>2. QED BY <1>1 DEF Joins

\* Texts of the same bytes are one.
LEMMA TextsEqual ==
    ASSUME NEW s \in Text, NEW t \in Text, Len(s) = Len(t), \A i \in 1..Len(s) : s[i] = t[i]
    PROVE  s = t
BY SeqEqual DEF Text

\* After none of its bytes all of a text is left, after all of them none.
LEMMA AfterAll ==
    ASSUME NEW w \in Text
    PROVE  After(w, 0) = w /\ After(w, Len(w)) = <<>>
BY DEF After, Text

\* After some bytes, and some more.
LEMMA AfterAfter ==
    ASSUME NEW w \in Text, NEW m \in Nat, NEW n \in Nat, m + n <= Len(w)
    PROVE  After(After(w, m), n) = After(w, m + n)
<1>1. m \in 0..Len(w) /\ m + n \in 0..Len(w) /\ n \in 0..Len(w) - m /\ Len(w) \in Nat
  BY DEF Text
<1>2. PICK u \in Text : IsAfter(u, w, m)
  BY <1>1, AfterExists
<1>3. PICK v \in Text : IsAfter(v, u, n)
  <2>1. n \in 0..Len(u)
    BY <1>1, <1>2 DEF IsAfter
  <2>2. QED BY <2>1, AfterExists
<1>4. PICK t \in Text : IsAfter(t, w, m + n)
  BY <1>1, AfterExists
<1>5. Len(u) = Len(w) - m /\ Len(v) = Len(u) - n /\ Len(t) = Len(w) - (m + n)
  BY <1>2, <1>3, <1>4 DEF IsAfter
<1>6. Len(v) = Len(t)
  BY <1>1, <1>5
<1>7. ASSUME NEW i \in 1..Len(v)
      PROVE  v[i] = t[i]
  <2>1. i \in 1..Len(u) - n /\ n + i \in 1..Len(w) - m /\ i \in 1..Len(w) - (m + n) /\
           m + (n + i) = m + n + i
    BY <1>1, <1>5
  <2>2. v[i] = u[n + i] /\ u[n + i] = w[m + (n + i)]
    BY <1>2, <1>3, <2>1 DEF IsAfter
  <2>3. t[i] = w[m + n + i]
    BY <1>4, <2>1 DEF IsAfter
  <2>4. QED BY <2>1, <2>2, <2>3
<1>8. v = t
  BY <1>6, <1>7, TextsEqual
<1>9. QED BY <1>2, <1>3, <1>4, <1>8 DEF IsAfter

\* What is left of two texts is what is left of the first, and the second.
LEMMA AfterConcat ==
    ASSUME NEW x \in Text, NEW y \in Text, NEW n \in 0..Len(x)
    PROVE  After(x \o y, n) = After(x, n) \o y
<1>1. PICK z \in Text : Joins(z, x, y)
  BY JoinExists
<1>2. Len(x) \in Nat /\ Len(y) \in Nat /\ n \in 0..Len(z)
  BY <1>1 DEF Text, Joins
<1>3. PICK u \in Text : IsAfter(u, x, n)
  BY AfterExists
<1>4. PICK v \in Text : Joins(v, u, y)
  BY JoinExists
<1>5. PICK t \in Text : IsAfter(t, z, n)
  BY <1>2, AfterExists
<1>6. Len(z) = Len(x) + Len(y) /\ Len(u) = Len(x) - n /\ Len(v) = Len(u) + Len(y) /\ Len(t) = Len(z) - n
  BY <1>1, <1>3, <1>4, <1>5 DEF IsAfter, Joins
<1>7. ASSUME NEW i \in 1..Len(t)
      PROVE  t[i] = v[i]
  <2>1. t[i] = z[n + i]
    BY <1>5, <1>6 DEF IsAfter
  <2>2. z[n + i] = IF n + i <= Len(x) THEN x[n + i] ELSE y[n + i - Len(x)]
    BY <1>1, <1>2, <1>6 DEF Joins
  <2>3. v[i] = IF i <= Len(u) THEN u[i] ELSE y[i - Len(u)]
    <3>1. i \in 1..Len(u) + Len(y)
      BY <1>2, <1>6
    <3>2. QED BY <1>4, <3>1 DEF Joins
  <2>4. i <= Len(u) => u[i] = x[n + i]
    <3>1. i <= Len(u) => i \in 1..Len(x) - n
      BY <1>2, <1>6
    <3>2. QED BY <1>3, <3>1 DEF IsAfter
  <2>5. n + i <= Len(x) <=> i <= Len(u)
    BY <1>2, <1>6
  <2>6. i - Len(u) = n + i - Len(x)
    BY <1>2, <1>6
  <2>7. QED BY <2>1, <2>2, <2>3, <2>4, <2>5, <2>6
<1>8. t = v
  <2>1. Len(t) = Len(v)
    BY <1>2, <1>6
  <2>2. QED BY <1>7, <2>1, TextsEqual
<1>9. QED BY <1>1, <1>3, <1>4, <1>5, <1>8 DEF IsAfter, Joins

\* The bytes a step takes, and what is decoded of them.
Piece == [size : Nat \ {0}, point : SUBSET Nat]

\* Units of two bytes.
Wide(encoding) == encoding \in {"UTF-16LE", "UTF-16BE"}

\* The units of the first four bytes, as far as they are there.
UnitIs(w, encoding, n, u, v) ==
    /\ n = Len(w)
    /\ n >= 2 => u = Unit(encoding, w[1], w[2])
    /\ n >= 4 => v = Unit(encoding, w[3], w[4])

\* The units of the first four bytes are numbers.
LEMMA Units ==
    ASSUME NEW w \in Text, NEW encoding
    PROVE  \E n \in Nat, u \in Nat, v \in Nat : UnitIs(w, encoding, n, u, v)
<1>1. PICK n \in Nat : n = Len(w)
  BY DEF Text
<1>2. \A i \in 1..n : w[i] \in Nat
  <2> TAKE i \in 1..n
  <2>1. w[i] \in Byte
    BY <1>1 DEF Text
  <2>2. QED BY <2>1, ByteNat
<1>3. \A a, b \in Nat : Unit(encoding, a, b) \in Nat
  BY DEF Unit
<1>4. \E u \in Nat : n >= 2 => u = Unit(encoding, w[1], w[2])
  <2>1. CASE n >= 2
    <3>1. w[1] \in Nat /\ w[2] \in Nat
      BY <1>2, <2>1
    <3>2. Unit(encoding, w[1], w[2]) \in Nat
      BY <1>3, <3>1
    <3>3. QED BY <3>2
  <2>2. CASE ~(n >= 2)
    BY <2>2
  <2>3. QED BY <2>1, <2>2
<1>5. \E v \in Nat : n >= 4 => v = Unit(encoding, w[3], w[4])
  <2>1. CASE n >= 4
    <3>1. w[3] \in Nat /\ w[4] \in Nat
      BY <1>2, <2>1
    <3>2. Unit(encoding, w[3], w[4]) \in Nat
      BY <1>3, <3>1
    <3>3. QED BY <3>2
  <2>2. CASE ~(n >= 4)
    BY <2>2
  <2>3. QED BY <2>1, <2>2
<1>6. QED BY <1>1, <1>4, <1>5 DEF UnitIs

\* The point of a pair of surrogates.
Joined(u, v) == 65536 + 1024 * (u - 55296) + v - 56320

\* Where the first piece ends, by its units.
Wide16(piece, n, u, v) ==
    /\ n < 2 => piece = [size |-> n, point |-> {}]
    /\ n >= 2 /\ u \in Lows => piece = [size |-> 2, point |-> {}]
    /\ n >= 2 /\ u \notin Lows /\ u \notin Highs => piece = [size |-> 2, point |-> {u}]
    /\ n >= 4 /\ u \in Highs /\ v \in Lows => piece = [size |-> 4, point |-> {Joined(u, v)}]
    /\ n >= 2 /\ u \in Highs /\ ~(n >= 4 /\ v \in Lows) => piece =
             [size |-> IF n = 3 THEN 3 ELSE 2, point |-> {}]

\* The two ranges of surrogates.
LEMMA HighsLows == \A u \in Nat : /\ u \in Lows <=> 56320 <= u /\ u <= 57343
                                  /\ u \in Highs <=> 55296 <= u /\ u <= 56319
BY SMT DEF Lows, Highs

\* The first piece of UTF-16 bytes, by their units: nothing but the first
\* four bytes decides.
LEMMA First16Is ==
    ASSUME NEW w \in Text, NEW encoding, NEW n \in Nat, NEW u \in Nat, NEW v \in Nat,
             UnitIs(w, encoding, n, u, v)
    PROVE  Wide16(First16(encoding, w), n, u, v)
<1> DEFINE unit == IF n < 2 THEN {} ELSE {u}
           next == IF n < 4 THEN {} ELSE {v}
           F == CASE unit = {}          -> [size |-> n, point |-> {}]
                  [] unit \subseteq Lows /\ unit # {} -> [size |-> 2, point |-> {}]
                  [] unit \cap Highs # {} ->
                        IF next \cap Lows # {}
                        THEN [size |-> 4, point |-> {Joined(p, q) : p \in unit, q \in next}]
                        ELSE [size |-> IF n = 3 THEN 3 ELSE 2, point |-> {}]
                  [] OTHER -> [size |-> 2, point |-> unit]
<1>1. First16(encoding, w) = F
  <2>1. Len(w) = n /\ (~(n < 2) => Unit(encoding, w[1], w[2]) = u) /\
           (~(n < 4) => Unit(encoding, w[3], w[4]) = v)
    BY DEF UnitIs
  <2>2. unit = (IF Len(w) < 2 THEN {} ELSE {Unit(encoding, w[1], w[2])})
    BY <2>1
  <2>3. next = (IF Len(w) < 4 THEN {} ELSE {Unit(encoding, w[3], w[4])})
    BY <2>1
  <2> HIDE DEF unit, next
  <2>4. QED BY <2>1, <2>2, <2>3 DEF First16, Joined
<1>2. ~(u \in Lows /\ u \in Highs)
  BY HighsLows
<1> HIDE DEF F
<1>3. CASE n < 2
  <2>1. unit = {}
    BY <1>3
  <2>2. F = [size |-> n, point |-> {}]
    BY <2>1 DEF F
  <2>3. QED BY <1>1, <1>3, <2>2 DEF Wide16
<1>4. CASE n >= 2 /\ u \in Lows
  <2>1. unit = {u}
    BY <1>4
  <2>2. unit # {} /\ unit \subseteq Lows /\ unit \cap Highs = {}
    BY <1>2, <1>4, <2>1
  <2> HIDE DEF unit, next
  <2>3. F = [size |-> 2, point |-> {}]
    BY <2>2 DEF F
  <2>4. QED BY <1>1, <1>2, <1>4, <2>3 DEF Wide16
<1>5. CASE n >= 2 /\ u \notin Lows /\ u \notin Highs
  <2>1. unit = {u}
    BY <1>5
  <2>2. unit # {} /\ ~(unit \subseteq Lows) /\ ~(unit \cap Highs # {})
    BY <1>5, <2>1
  <2>3. F = [size |-> 2, point |-> unit]
    BY <2>2 DEF F
  <2>4. QED BY <1>1, <1>5, <2>1, <2>3 DEF Wide16
<1>6. CASE n >= 2 /\ u \in Highs
  <2>1. unit = {u}
    BY <1>6
  <2>2. unit # {} /\ ~(unit \subseteq Lows) /\ unit \cap Highs # {}
    BY <1>2, <1>6, <2>1
  <2>3. F = IF next \cap Lows # {}
            THEN [size |-> 4, point |-> {Joined(p, q) : p \in unit, q \in next}]
            ELSE [size |-> IF n = 3 THEN 3 ELSE 2, point |-> {}]
    BY <2>2 DEF F
  <2>4. CASE n >= 4 /\ v \in Lows
    <3>1. next = {v} /\ next \cap Lows # {}
      BY <2>4
    <3>2. {Joined(p, q) : p \in unit, q \in next} = {Joined(u, v)}
      BY <2>1, <3>1
    <3>3. F = [size |-> 4, point |-> {Joined(u, v)}]
      BY <2>3, <3>1, <3>2
    <3>4. QED BY <1>1, <1>2, <1>6, <2>4, <3>3 DEF Wide16
  <2>5. CASE ~(n >= 4 /\ v \in Lows)
    <3>1. next \cap Lows = {}
      BY <2>5
    <3>2. QED BY <1>1, <1>2, <1>6, <2>3, <2>5, <3>1 DEF Wide16
  <2>6. QED BY <2>4, <2>5
<1>7. QED BY <1>3, <1>4, <1>5, <1>6

\* The first piece, by whether the encoding has units of two bytes.
LEMMA FirstOf ==
    ASSUME NEW w \in Text, NEW encoding
    PROVE  First(encoding, w) = IF Wide(encoding) THEN First16(encoding, w)
                                ELSE [size |-> 1, point |-> {w[1]} \ Unmapped(encoding)]
BY DEF First, Wide

\* The first piece is in the text; in UTF-16 it has two bytes when the text
\* does.
LEMMA FirstLegacyPiece ==
    ASSUME NEW w \in Text, w # <<>>, NEW encoding
    PROVE  /\ First(encoding, w) \in Piece
           /\ First(encoding, w).size <= Len(w)
           /\ Wide(encoding) /\ Len(w) >= 2 => First(encoding, w).size >= 2
<1>1. PICK n \in Nat : n = Len(w) /\ n >= 1
  BY DEF Text
<1>2. CASE Wide(encoding)
  <2>1. PICK m \in Nat, u \in Nat, v \in Nat : UnitIs(w, encoding, m, u, v)
    BY Units
  <2>2. m = n
    BY <1>1, <2>1 DEF UnitIs
  <2>3. PICK p : p = First16(encoding, w) /\ Wide16(p, n, u, v)
    BY <2>1, <2>2, First16Is
  <2>4. Joined(u, v) \in Int /\ (u \in Highs /\ v \in Lows => Joined(u, v) \in Nat)
    <3>1. u \in Highs => 55296 <= u
      BY HighsLows
    <3>2. v \in Lows => 56320 <= v
      BY HighsLows
    <3>3. 55296 <= u /\ 56320 <= v => 65536 + 1024 * (u - 55296) + v - 56320 \in Nat
      BY SMT
    <3>4. QED BY <3>1, <3>2, <3>3, SMT DEF Joined
  <2>5. \/ p = [size |-> n, point |-> {}]
        \/ n >= 2 /\ p = [size |-> 2, point |-> {}]
        \/ n >= 2 /\ p = [size |-> 2, point |-> {u}]
        \/ n >= 4 /\ u \in Highs /\ v \in Lows /\ p = [size |-> 4, point |-> {Joined(u, v)}]
    <3>1. CASE n < 2
      BY <2>3, <3>1 DEF Wide16
    <3>2. CASE n >= 2 /\ u \notin Highs
      BY <2>3, <3>2 DEF Wide16
    <3>3. CASE n >= 2 /\ u \in Highs /\ n >= 4 /\ v \in Lows
      BY <2>3, <3>3 DEF Wide16
    <3>4. CASE n >= 2 /\ u \in Highs /\ ~(n >= 4 /\ v \in Lows)
      <4>1. p = [size |-> IF n = 3 THEN 3 ELSE 2, point |-> {}]
        BY <2>3, <3>4 DEF Wide16
      <4>2. QED BY <3>4, <4>1
    <3>5. QED BY <3>1, <3>2, <3>3, <3>4
  <2>6. p \in Piece /\ p.size <= n /\ (n >= 2 => p.size >= 2)
    BY <1>1, <2>4, <2>5 DEF Piece
  <2>7. QED BY <1>1, <1>2, <2>3, <2>6, FirstOf
<1>3. CASE ~Wide(encoding)
  <2>1. w[1] \in Nat
    <3>1. w[1] \in Byte
      BY <1>1 DEF Text
    <3>2. QED BY <3>1, ByteNat
  <2>2. PICK p : p = First(encoding, w) /\ p = [size |-> 1, point |-> {w[1]} \ Unmapped(encoding)]
    BY <1>3, FirstOf
  <2>3. {w[1]} \ Unmapped(encoding) \subseteq Nat
    BY <2>1
  <2>4. p \in Piece /\ p.size = 1
    BY <2>2, <2>3 DEF Piece
  <2>5. QED BY <1>1, <1>3, <2>2, <2>4
<1>4. QED BY <1>2, <1>3

\* The units of a text are those of what it is the beginning of.
LEMMA UnitsGrow ==
    ASSUME NEW x \in Text, NEW y \in Text, NEW encoding,
           NEW n \in Nat, NEW u \in Nat, NEW v \in Nat, UnitIs(x, encoding, n, u, v)
    PROVE  \E m \in Nat, q \in Nat : m = n + Len(y) /\ (n >= 4 => q = v)
               /\ (n >= 2 => UnitIs(x \o y, encoding, m, u, q))
<1>1. PICK z \in Text : Joins(z, x, y)
  BY JoinExists
<1>2. PICK m \in Nat, p \in Nat, q \in Nat : UnitIs(z, encoding, m, p, q)
  BY Units
<1>3. n = Len(x) /\ m = Len(z) /\ Len(y) \in Nat /\ m = n + Len(y)
  BY <1>1, <1>2 DEF UnitIs, Joins, Text
<1>4. ASSUME NEW i \in Nat, i >= 1, i <= n
      PROVE  z[i] = x[i]
  BY <1>1, <1>3, <1>4 DEF Joins
<1>5. n >= 2 => p = u
  <2>1. n >= 2 => z[1] = x[1] /\ z[2] = x[2]
    BY <1>4
  <2>2. QED BY <1>2, <1>3, <2>1 DEF UnitIs
<1>6. n >= 4 => q = v
  <2>1. n >= 4 => z[3] = x[3] /\ z[4] = x[4]
    BY <1>4
  <2>2. QED BY <1>2, <1>3, <2>1 DEF UnitIs
<1>7. n >= 2 => UnitIs(z, encoding, m, u, q)
  BY <1>2, <1>5
<1>8. QED BY <1>1, <1>3, <1>6, <1>7 DEF Joins

\* A byte of a single-byte encoding is a piece whatever follows it.
LEMMA SingleGrows ==
    ASSUME NEW x \in Text, x # <<>>, NEW y \in Text, NEW encoding, ~Wide(encoding)
    PROVE  First(encoding, x \o y) = First(encoding, x)
<1>1. PICK z \in Text : Joins(z, x, y)
  BY JoinExists
<1>2. Len(x) \in Nat \ {0} /\ Len(y) \in Nat
  BY DEF Text
<1>3. z[1] = x[1]
  BY <1>1, <1>2 DEF Joins
<1>4. First(encoding, z) = First(encoding, x)
  BY <1>3, FirstOf
<1>5. QED BY <1>1, <1>4 DEF Joins

\* A character is one whatever follows.
LEMMA CharacterStays ==
    ASSUME NEW x \in Text, x # <<>>, NEW y \in Text, NEW encoding, First(encoding, x).point # {}
    PROVE  First(encoding, x \o y) = First(encoding, x)
<1>1. CASE Wide(encoding)
  <2>1. First(encoding, x) = First16(encoding, x) /\ First(encoding, x \o y) = First16(encoding, x \o y)
    <3>1. x \o y \in Text
      BY DEF Text
    <3>2. QED BY <1>1, <3>1, FirstOf
  <2>2. PICK n \in Nat, u \in Nat, v \in Nat : UnitIs(x, encoding, n, u, v)
    BY Units
  <2>3. PICK m \in Nat, q \in Nat : m = n + Len(y) /\ (n >= 4 => q = v)
               /\ (n >= 2 => UnitIs(x \o y, encoding, m, u, q))
    <3>1. \E m \in Nat, q \in Nat : m = n + Len(y) /\ (n >= 4 => q = v)
               /\ (n >= 2 => UnitIs(x \o y, encoding, m, u, q))
      BY <2>2, UnitsGrow
    <3>2. QED BY <3>1
  <2>4. PICK p : p = First16(encoding, x) /\ Wide16(p, n, u, v) /\ p.point # {}
    BY <1>1, <2>2, First16Is, FirstOf
  <2>5. \/ n >= 2 /\ u \notin Lows /\ u \notin Highs /\ p = [size |-> 2, point |-> {u}]
        \/ n >= 4 /\ u \in Highs /\ v \in Lows /\ p = [size |-> 4, point |-> {Joined(u, v)}]
    BY <2>4 DEF Wide16
  <2>6. Len(y) \in Nat /\ n >= 2
    BY <2>5 DEF Text
  <2>7. UnitIs(x \o y, encoding, m, u, q) /\ m >= n
    BY <2>3, <2>6
  <2>8. PICK r : r = First16(encoding, x \o y) /\ Wide16(r, m, u, q)
    <3>1. x \o y \in Text
      BY DEF Text
    <3>2. QED BY <2>7, <3>1, First16Is
  <2>9. r = p
    <3>1. CASE n >= 2 /\ u \notin Lows /\ u \notin Highs /\ p = [size |-> 2, point |-> {u}]
      <4>1. m >= 2
        BY <2>7, <3>1
      <4>2. r = [size |-> 2, point |-> {u}]
        BY <2>8, <3>1, <4>1 DEF Wide16
      <4>3. QED BY <3>1, <4>2
    <3>2. CASE n >= 4 /\ u \in Highs /\ v \in Lows /\ p = [size |-> 4, point |-> {Joined(u, v)}]
      <4>1. m >= 4 /\ q = v
        BY <2>3, <2>7, <3>2
      <4>2. r = [size |-> 4, point |-> {Joined(u, v)}]
        BY <2>8, <3>2, <4>1 DEF Wide16
      <4>3. QED BY <3>2, <4>2
    <3>3. QED BY <2>5, <3>1, <3>2
  <2>10. QED BY <1>1, <2>1, <2>4, <2>8, <2>9
<1>2. CASE ~Wide(encoding)
  BY <1>2, SingleGrows
<1>3. QED BY <1>1, <1>2

\* The first piece does not depend on what comes after its end, but where the
\* next piece would be of one byte.
LEMMA PieceStays ==
    ASSUME NEW x \in Text, x # <<>>, NEW y \in Text, NEW encoding,
             First(encoding, x \o y).size <= Len(x)
    PROVE  \/ First(encoding, x) = First(encoding, x \o y)
           \/ Wide(encoding) /\ First(encoding, x \o y).size = Len(x) - 1 /\ Len(y) >= 1
<1>1. CASE Wide(encoding)
  <2>1. First(encoding, x) = First16(encoding, x) /\ First(encoding, x \o y) = First16(encoding, x \o y)
    <3>1. x \o y \in Text
      BY DEF Text
    <3>2. QED BY <1>1, <3>1, FirstOf
  <2>2. PICK n \in Nat, u \in Nat, v \in Nat : UnitIs(x, encoding, n, u, v)
    BY Units
  <2>3. PICK m \in Nat, q \in Nat : m = n + Len(y) /\ (n >= 4 => q = v)
               /\ (n >= 2 => UnitIs(x \o y, encoding, m, u, q))
    BY <2>2, UnitsGrow
  <2>4. PICK p : p = First16(encoding, x) /\ Wide16(p, n, u, v)
    BY <1>1, <2>2, First16Is
  <2>5. n = Len(x) /\ n >= 1 /\ Len(y) \in Nat
    BY <2>2 DEF UnitIs, Text
  <2>6. CASE Len(y) = 0
    <3>1. y = <<>>
      BY <2>6 DEF Text
    <3>2. x \o y = x
      BY <3>1 DEF Text
    <3>3. QED BY <3>2
  <2>7. CASE Len(y) >= 1
    <3>1. x \o y \in Text /\ x \o y # <<>> /\ Len(x \o y) = m /\ m >= 2
      <4>1. PICK z \in Text : Joins(z, x, y)
        BY JoinExists
      <4>2. Len(z) = m /\ m >= 2
        BY <2>3, <2>5, <2>7, <4>1 DEF Joins
      <4>3. z # <<>>
        BY <4>2
      <4>4. QED BY <4>1, <4>2, <4>3 DEF Joins
    <3>2. First(encoding, x \o y).size >= 2 /\ First(encoding, x \o y).size \in Nat
      BY <1>1, <3>1, FirstLegacyPiece DEF Piece
    <3>3. n >= 2
      BY <2>5, <3>2
    <3>4. PICK r : r = First16(encoding, x \o y) /\ Wide16(r, m, u, q)
      BY <2>3, <3>1, <3>3, First16Is
    <3>5. r.size <= n
      BY <1>1, <2>1, <2>5, <3>4
    <3>6. CASE u \notin Highs
      <4>1. r = p
        BY <2>3, <2>4, <2>5, <3>1, <3>3, <3>4, <3>6 DEF Wide16
      <4>2. QED BY <1>1, <2>1, <2>4, <3>4, <4>1
    <3>7. CASE u \in Highs /\ n >= 4
      <4>1. m >= 4 /\ q = v /\ n # 3 /\ m # 3
        BY <2>3, <2>5, <3>7
      <4>2. u \notin Lows
        BY <3>7, HighsLows
      <4>3. CASE v \in Lows
        <5>1. r = [size |-> 4, point |-> {Joined(u, v)}]
          BY <3>4, <3>7, <4>1, <4>3 DEF Wide16
        <5>2. p = [size |-> 4, point |-> {Joined(u, v)}]
          BY <2>4, <3>7, <4>3 DEF Wide16
        <5>3. QED BY <2>1, <2>4, <3>4, <5>1, <5>2
      <4>4. CASE v \notin Lows
        <5>1. r = [size |-> 2, point |-> {}]
          <6>1. m >= 2 /\ ~(m >= 4 /\ q \in Lows)
            BY <4>1, <4>4
          <6>2. r = [size |-> IF m = 3 THEN 3 ELSE 2, point |-> {}]
            BY <3>4, <3>7, <6>1 DEF Wide16
          <6>3. QED BY <4>1, <6>2
        <5>2. p = [size |-> 2, point |-> {}]
          <6>1. p = [size |-> IF n = 3 THEN 3 ELSE 2, point |-> {}]
            BY <2>4, <3>3, <3>7, <4>4 DEF Wide16
          <6>2. QED BY <4>1, <6>1
        <5>3. QED BY <2>1, <2>4, <3>4, <5>1, <5>2
      <4>5. QED BY <4>3, <4>4
    <3>8. CASE u \in Highs /\ n < 4
      <4>1. u \notin Lows
        BY <3>8, HighsLows
      <4>2. ~(m >= 4 /\ q \in Lows)
        <5>1. m >= 4 /\ q \in Lows => r.size = 4
          BY <3>4, <3>8, <4>1 DEF Wide16
        <5>2. QED BY <3>5, <3>8, <5>1
      <4>3. r = [size |-> IF m = 3 THEN 3 ELSE 2, point |-> {}]
        BY <3>1, <3>4, <3>8, <4>1, <4>2 DEF Wide16
      <4>4. p = [size |-> IF n = 3 THEN 3 ELSE 2, point |-> {}]
        BY <2>4, <3>3, <3>8, <4>1 DEF Wide16
      <4>5. m >= n + 1
        BY <2>3, <2>5, <2>7
      <4>6. CASE n = 2
        <5>1. m # 3
          BY <3>5, <4>3, <4>6
        <5>2. r = p
          BY <4>3, <4>4, <4>6, <5>1
        <5>3. QED BY <1>1, <2>1, <2>4, <3>4, <5>2
      <4>7. CASE n = 3
        <5>1. m # 3
          BY <4>5, <4>7
        <5>2. r.size = 2
          BY <4>3, <5>1
        <5>3. QED BY <1>1, <2>1, <2>5, <2>7, <3>4, <4>7, <5>2
      <4>8. QED BY <3>3, <3>8, <4>6, <4>7
    <3>9. QED BY <3>6, <3>7, <3>8
  <2>8. QED BY <2>5, <2>6, <2>7
<1>2. CASE ~Wide(encoding)
  BY <1>2, SingleGrows
<1>3. QED BY <1>1, <1>2

-----------------------------------------------------------------------------
(* LegacyPieces, by its first piece.                                       *)

\* How many bytes the piece at i takes.
Takes(encoding, w, i) == First(encoding, SubSeq(w, i, Len(w))).size

\* The function that LegacyPieces is defined by, on the last k positions.
IsLegacyFrom(encoding, w, k, f) ==
    f = [i \in Len(w) + 1 - k..Len(w) + 1 |->
            IF i > Len(w) THEN <<>>
            ELSE <<First(encoding, SubSeq(w, i, Len(w)))>> \o f[i + Takes(encoding, w, i)]]

\* A piece begins and ends within the text.
LEMMA TakesWithin ==
    ASSUME NEW w \in Text, NEW i \in 1..Len(w), NEW encoding
    PROVE  /\ After(w, i - 1) = SubSeq(w, i, Len(w))
           /\ First(encoding, SubSeq(w, i, Len(w))) \in Piece
           /\ Takes(encoding, w, i) \in 1..Len(w) - i + 1
<1>1. Len(w) \in Nat /\ i - 1 \in 0..Len(w) /\ i - 1 + 1 = i
  BY DEF Text
<1>2. PICK s \in Text : IsAfter(s, w, i - 1)
  BY <1>1, AfterExists
<1>3. s = SubSeq(w, i, Len(w))
  BY <1>1, <1>2 DEF IsAfter, After
<1>4. Len(s) = Len(w) - i + 1 /\ s # <<>>
  <2>1. Len(s) = Len(w) - (i - 1)
    BY <1>2 DEF IsAfter
  <2>2. Len(s) # 0
    BY <1>1, <2>1
  <2>3. QED BY <1>1, <2>1, <2>2
<1>5. First(encoding, s) \in Piece /\ First(encoding, s).size <= Len(s)
  BY <1>4, FirstLegacyPiece
<1>6. First(encoding, s).size \in Nat \ {0}
  BY <1>5 DEF Piece
<1>7. First(encoding, s).size \in 1..Len(w) - i + 1
  BY <1>1, <1>4, <1>5, <1>6
<1>8. QED BY <1>2, <1>3, <1>5, <1>7 DEF Takes, IsAfter

\* The function LegacyPieces is computed from, at a position.
LEMMA LegacyFromAt ==
    ASSUME NEW w, NEW encoding, NEW k, NEW f, IsLegacyFrom(encoding, w, k, f),
           NEW i \in Len(w) + 1 - k..Len(w) + 1
    PROVE  f[i] = IF i > Len(w) THEN <<>>
                  ELSE <<First(encoding, SubSeq(w, i, Len(w)))>> \o f[i + Takes(encoding, w, i)]
<1>1. PICK h : h = [j \in Len(w) + 1 - k..Len(w) + 1 |->
                       IF j > Len(w) THEN <<>>
                       ELSE <<First(encoding, SubSeq(w, j, Len(w)))>> \o f[j + Takes(encoding, w, j)]]
  OBVIOUS
<1>2. f = h
  BY <1>1 DEF IsLegacyFrom
<1>3. h[i] = IF i > Len(w) THEN <<>>
             ELSE <<First(encoding, SubSeq(w, i, Len(w)))>> \o f[i + Takes(encoding, w, i)]
  BY <1>1
<1>4. QED BY <1>2, <1>3

\* It exists: for each number of remaining positions, by induction.
LEMMA LegacyFromExists ==
    ASSUME NEW w \in Text, NEW encoding, NEW k \in 0..Len(w)
    PROVE  \E f : IsLegacyFrom(encoding, w, k, f)
<1> DEFINE S == {j \in Nat : j <= Len(w) => \E f : IsLegacyFrom(encoding, w, j, f)}
           At(f, i) == IF i > Len(w) THEN <<>>
                       ELSE <<First(encoding, SubSeq(w, i, Len(w)))>> \o f[i + Takes(encoding, w, i)]
<1>1. Len(w) \in Nat
  BY DEF Text
<1>2. 0 \in S
  <2>1. IsLegacyFrom(encoding, w, 0, [i \in Len(w) + 1 - 0..Len(w) + 1 |-> <<>>])
    BY <1>1 DEF IsLegacyFrom
  <2>2. QED BY <2>1
<1>3. ASSUME NEW j \in Nat, j \in S
      PROVE  j + 1 \in S
  <2> SUFFICES ASSUME j + 1 <= Len(w) PROVE \E f : IsLegacyFrom(encoding, w, j + 1, f)
    OBVIOUS
  <2>1. PICK f : IsLegacyFrom(encoding, w, j, f)
    BY <1>1, <1>3
  <2> DEFINE at == Len(w) - j
             g == [i \in Len(w) + 1 - (j + 1)..Len(w) + 1 |-> IF i = at THEN At(f, i) ELSE f[i]]
  <2>2. at \in 1..Len(w) /\ Len(w) + 1 - (j + 1) = at /\ Len(w) + 1 - j = at + 1 /\ j \in 0..Len(w)
    BY <1>1
  <2>3. ASSUME NEW i \in at..Len(w)
        PROVE  i + Takes(encoding, w, i) \in at + 1..Len(w) + 1
    <3>1. i \in 1..Len(w)
      BY <1>1, <2>2
    <3>2. Takes(encoding, w, i) \in 1..Len(w) - i + 1
      BY <3>1, TakesWithin
    <3>3. QED BY <1>1, <2>2, <3>1, <3>2
  <2>4. \A i \in at + 1..Len(w) + 1 : g[i] = f[i]
    BY <1>1, <2>2
  <2>5. ASSUME NEW i \in at..Len(w) + 1
        PROVE  g[i] = At(g, i)
    <3>1. At(f, i) = At(g, i)
      <4>1. i <= Len(w) => f[i + Takes(encoding, w, i)] = g[i + Takes(encoding, w, i)]
        <5>1. i <= Len(w) => i \in at..Len(w)
          BY <1>1, <2>2
        <5>2. QED BY <2>3, <2>4, <5>1
      <4> HIDE DEF g
      <4>2. CASE i > Len(w)
        BY <4>2
      <4>3. CASE ~(i > Len(w))
        <5>1. i <= Len(w)
          BY <1>1, <2>2, <4>3
        <5>2. PICK a, b : a = f[i + Takes(encoding, w, i)] /\ b = g[i + Takes(encoding, w, i)] /\ a = b
          BY <4>1, <5>1
        <5>3. QED BY <5>2
      <4>4. QED BY <4>2, <4>3
    <3>2. CASE i = at
      <4>1. g[i] = At(f, i)
        BY <2>2, <3>2
      <4>2. QED BY <3>1, <4>1
    <3>3. CASE i # at
      <4>1. i \in at + 1..Len(w) + 1
        BY <1>1, <2>2, <3>3
      <4>2. f[i] = At(f, i)
        <5>1. i \in Len(w) + 1 - j..Len(w) + 1
          BY <2>2, <4>1
        <5>2. QED BY <2>1, <5>1, LegacyFromAt
      <4>3. QED BY <2>4, <3>1, <4>1, <4>2
    <3>4. QED BY <3>2, <3>3
  <2>6. g = [i \in at..Len(w) + 1 |-> g[i]]
    BY <2>2
  <2> HIDE DEF g
  <2>7. g = [i \in at..Len(w) + 1 |-> At(g, i)]
    BY <2>5, <2>6
  <2>8. IsLegacyFrom(encoding, w, j + 1, g)
    BY <2>2, <2>7 DEF IsLegacyFrom
  <2>9. QED BY <2>8
<1> HIDE DEF S
<1>4. k \in S
  BY <1>1, <1>2, <1>3, Induction
<1>5. QED BY <1>1, <1>4 DEF S

\* The pieces of a text are the first value of such a function.
LEMMA LegacyFrom ==
    ASSUME NEW w \in Text, NEW encoding
    PROVE  \E f : IsLegacyFrom(encoding, w, Len(w), f) /\ LegacyPieces(encoding, w) = f[1]
<1>1. Len(w) \in Nat
  BY DEF Text
<1>2. \E f : IsLegacyFrom(encoding, w, Len(w), f)
  BY <1>1, LegacyFromExists
<1>3. Len(w) + 1 - Len(w) = 1
  BY <1>1
<1>4. LegacyPieces(encoding, w) = (CHOOSE f : IsLegacyFrom(encoding, w, Len(w), f))[1]
  BY <1>3 DEF LegacyPieces, IsLegacyFrom, Takes
<1>5. QED BY <1>2, <1>4

\* The pieces from a position on are those of the bytes from there.
LEMMA LegacyAgree ==
    ASSUME NEW w \in Text, NEW encoding, NEW d \in 0..Len(w),
           NEW f, IsLegacyFrom(encoding, w, Len(w), f),
           NEW g, IsLegacyFrom(encoding, After(w, d), Len(After(w, d)), g)
    PROVE  f[d + 1] = g[1]
<1> DEFINE S == {n \in Nat : \A i \in 1..Len(w) - d + 1 : i >= Len(w) - d + 1 - n => f[d + i] = g[i]}
<1>1. PICK k \in Nat : k = Len(w) /\ d \in 0..k
  BY DEF Text
<1>2. PICK s \in Text : IsAfter(s, w, d)
  BY AfterExists
<1>3. s = After(w, d) /\ Len(s) = k - d
  BY <1>1, <1>2 DEF IsAfter
<1>4. ASSUME NEW i \in 1..k - d + 1
      PROVE  /\ f[d + i] = IF d + i > k THEN <<>>
                           ELSE <<First(encoding, SubSeq(w, d + i, k))>> \o
                                    f[d + i + Takes(encoding, w, d + i)]
             /\ g[i] = IF i > k - d THEN <<>>
                       ELSE <<First(encoding, SubSeq(s, i, Len(s)))>> \o g[i + Takes(encoding, s, i)]
  <2>1. d + i \in Len(w) + 1 - Len(w)..Len(w) + 1 /\ Len(w) \in 0..Len(w)
    BY <1>1
  <2>2. i \in Len(s) + 1 - Len(s)..Len(s) + 1 /\ Len(s) \in 0..Len(s)
    BY <1>1, <1>3
  <2>3. f[d + i] = IF d + i > k THEN <<>>
                   ELSE <<First(encoding, SubSeq(w, d + i, k))>> \o f[d + i + Takes(encoding, w, d + i)]
    <3>1. IsLegacyFrom(encoding, w, Len(w), f)
      OBVIOUS
    <3>2. f[d + i] = IF d + i > Len(w) THEN <<>>
                     ELSE <<First(encoding, SubSeq(w, d + i, Len(w)))>> \o
                              f[d + i + Takes(encoding, w, d + i)]
      BY <2>1, <3>1, LegacyFromAt
    <3>3. QED BY <1>1, <3>2
  <2>4. g[i] = IF i > Len(s) THEN <<>>
               ELSE <<First(encoding, SubSeq(s, i, Len(s)))>> \o g[i + Takes(encoding, s, i)]
    <3>1. IsLegacyFrom(encoding, s, Len(s), g)
      BY <1>3
    <3>2. QED BY <2>2, <3>1, LegacyFromAt
  <2>5. QED BY <1>3, <2>3, <2>4
<1>5. ASSUME NEW i \in 1..k - d
      PROVE  SubSeq(w, d + i, k) = SubSeq(s, i, Len(s))
  <2>1. PICK p \in Nat : p = i - 1 /\ d + p <= k /\ d + i - 1 = d + p /\ d + i \in 1..k /\
           i \in 1..Len(s)
    BY <1>1, <1>3
  <2>2. After(w, d + p) = SubSeq(w, d + i, k)
    <3>1. d + i \in 1..Len(w)
      BY <1>1, <2>1
    <3>2. PICK j \in 1..Len(w) : j = d + i
      BY <3>1
    <3>3. After(w, j - 1) = SubSeq(w, j, Len(w))
      BY TakesWithin
    <3>4. After(w, d + i - 1) = SubSeq(w, d + i, k)
      BY <1>1, <3>2, <3>3
    <3>5. QED BY <2>1, <3>4
  <2>3. After(s, p) = SubSeq(s, i, Len(s))
    BY <2>1, TakesWithin
  <2>4. After(s, p) = After(w, d + p)
    BY <1>1, <1>3, <2>1, AfterAfter
  <2>5. QED BY <2>2, <2>3, <2>4
<1>6. ASSUME NEW i \in 1..k - d
      PROVE  Takes(encoding, w, d + i) = Takes(encoding, s, i) /\
               Takes(encoding, s, i) \in 1..k - d - i + 1
  <2>1. Takes(encoding, w, d + i) = Takes(encoding, s, i)
    BY <1>1, <1>5 DEF Takes
  <2>2. i \in 1..Len(s)
    BY <1>3
  <2>3. QED BY <1>3, <2>1, <2>2, TakesWithin
<1>7. 0 \in S
  <2> SUFFICES ASSUME NEW i \in 1..k - d + 1, i >= k - d + 1 - 0
               PROVE  f[d + i] = g[i]
    BY <1>1
  <2>1. d + i > k /\ i > k - d
    BY <1>1
  <2>2. QED BY <1>4, <2>1
<1>8. ASSUME NEW n \in Nat, n \in S
      PROVE  n + 1 \in S
  <2> SUFFICES ASSUME NEW i \in 1..k - d + 1, i >= k - d + 1 - (n + 1)
               PROVE  f[d + i] = g[i]
    BY <1>1
  <2>1. CASE i > k - d
    <3>1. d + i > k
      BY <1>1, <2>1
    <3>2. QED BY <1>4, <2>1, <3>1
  <2>2. CASE i <= k - d
    <3>1. i \in 1..k - d /\ ~(d + i > k) /\ ~(i > k - d)
      BY <1>1, <2>2
    <3>2. PICK t \in Nat : t = Takes(encoding, s, i) /\ t = Takes(encoding, w, d + i) /\
             t \in 1..k - d - i + 1
      <4>1. Takes(encoding, w, d + i) = Takes(encoding, s, i) /\
               Takes(encoding, s, i) \in 1..k - d - i + 1
        BY <1>6, <3>1
      <4>2. Takes(encoding, s, i) \in Nat
        BY <1>1, <4>1
      <4>3. QED BY <4>1, <4>2
    <3>3. i + t \in 1..k - d + 1 /\ i + t >= k - d + 1 - n /\ d + i + t = d + (i + t)
      BY <1>1, <3>2
    <3>4. f[d + (i + t)] = g[i + t]
      BY <1>1, <1>8, <3>3
    <3>5. i \in 1..k - d + 1
      BY <1>1, <3>1
    <3>6. f[d + i] = <<First(encoding, SubSeq(w, d + i, k))>> \o f[d + i + t]
      BY <1>4, <3>1, <3>2, <3>5
    <3>7. g[i] = <<First(encoding, SubSeq(s, i, Len(s)))>> \o g[i + t]
      BY <1>4, <3>1, <3>2, <3>5
    <3>8. SubSeq(w, d + i, k) = SubSeq(s, i, Len(s))
      BY <1>5, <3>1
    <3>9. f[d + i + t] = g[i + t]
      BY <3>3, <3>4
    <3>10. QED BY <3>6, <3>7, <3>8, <3>9
  <2>3. QED BY <1>1, <2>1, <2>2
<1> HIDE DEF S
<1>9. k \in S
  BY <1>7, <1>8, Induction
<1>10. 1 \in 1..k - d + 1 /\ 1 >= k - d + 1 - k
  BY <1>1
<1>11. QED BY <1>1, <1>9, <1>10 DEF S

\* LegacyPieces by its first piece.
LEMMA LegacyStep ==
    ASSUME NEW w \in Text, w # <<>>, NEW encoding
    PROVE  LegacyPieces(encoding, w) =
              <<First(encoding, w)>> \o LegacyPieces(encoding, After(w, First(encoding, w).size))
<1>1. PICK k \in Nat : k = Len(w) /\ k >= 1
  BY DEF Text
<1>2. PICK f : IsLegacyFrom(encoding, w, k, f) /\ LegacyPieces(encoding, w) = f[1]
  BY <1>1, LegacyFrom
<1>3. SubSeq(w, 1, k) = w
  BY <1>1 DEF Text
<1>4. PICK t \in Nat : t = First(encoding, w).size /\ t = Takes(encoding, w, 1) /\ t \in 0..k
  <2>1. First(encoding, w) \in Piece /\ First(encoding, w).size <= k
    BY <1>1, FirstLegacyPiece
  <2>2. First(encoding, w).size \in Nat
    BY <2>1 DEF Piece
  <2>3. First(encoding, w).size \in 0..k
    BY <1>1, <2>1, <2>2
  <2>4. Takes(encoding, w, 1) = First(encoding, w).size
    BY <1>1, <1>3 DEF Takes
  <2>5. QED BY <2>2, <2>3, <2>4
<1>5. f[1] = <<First(encoding, w)>> \o f[1 + t]
  <2>1. 1 \in k + 1 - k..k + 1 /\ ~(1 > k) /\ k \in 0..k
    BY <1>1
  <2>2. f[1] = IF 1 > k THEN <<>>
               ELSE <<First(encoding, SubSeq(w, 1, k))>> \o f[1 + Takes(encoding, w, 1)]
    <3>1. IsLegacyFrom(encoding, w, Len(w), f) /\ 1 \in Len(w) + 1 - Len(w)..Len(w) + 1
      BY <1>1, <1>2, <2>1
    <3>2. f[1] = IF 1 > Len(w) THEN <<>>
                 ELSE <<First(encoding, SubSeq(w, 1, Len(w)))>> \o f[1 + Takes(encoding, w, 1)]
      BY <3>1, LegacyFromAt
    <3>3. QED BY <1>1, <3>2
  <2>3. QED BY <1>3, <1>4, <2>1, <2>2
<1>6. PICK s \in Text : s = After(w, t)
  BY <1>1, <1>4, AfterIs
<1>7. PICK g : IsLegacyFrom(encoding, s, Len(s), g) /\ LegacyPieces(encoding, s) = g[1]
  BY LegacyFrom
<1>8. f[t + 1] = g[1]
  <2>1. t \in 0..Len(w) /\ IsLegacyFrom(encoding, w, Len(w), f)
    BY <1>1, <1>2, <1>4
  <2>2. IsLegacyFrom(encoding, After(w, t), Len(After(w, t)), g)
    BY <1>6, <1>7
  <2>3. QED BY <2>1, <2>2, LegacyAgree
<1>9. QED BY <1>2, <1>4, <1>5, <1>6, <1>7, <1>8

\* No bytes have no pieces.
LEMMA LegacyNone == ASSUME NEW encoding PROVE LegacyPieces(encoding, <<>>) = <<>>
<1>1. <<>> \in Text /\ Len(<<>>) = 0
  BY DEF Text
<1>2. PICK f : IsLegacyFrom(encoding, <<>>, 0, f) /\ LegacyPieces(encoding, <<>>) = f[1]
  BY <1>1, LegacyFrom
<1>3. 1 \in Len(<<>>) + 1 - 0..Len(<<>>) + 1 /\ 1 > Len(<<>>) /\ 0 \in 0..Len(<<>>)
  BY <1>1
<1>4. f[1] = <<>>
  <2>1. f[1] = IF 1 > Len(<<>>) THEN <<>>
               ELSE <<First(encoding, SubSeq(<<>>, 1, Len(<<>>)))>> \o f[1 + Takes(encoding, <<>>, 1)]
    <3>1. PICK w : w = <<>>
      OBVIOUS
    <3>2. IsLegacyFrom(encoding, w, 0, f) /\ 1 \in Len(w) + 1 - 0..Len(w) + 1
      BY <1>2, <1>3, <3>1
    <3>3. f[1] = IF 1 > Len(w) THEN <<>>
                 ELSE <<First(encoding, SubSeq(w, 1, Len(w)))>> \o f[1 + Takes(encoding, w, 1)]
      BY <3>2, LegacyFromAt
    <3>4. QED BY <3>1, <3>3
  <2>2. QED BY <1>3, <2>1
<1>5. QED BY <1>2, <1>4

-----------------------------------------------------------------------------
(* The first piece and the rest, and where pieces end.                     *)

\* p is the first piece of w, and t what is left.
Peels(encoding, w, p, t) ==
    /\ p = First(encoding, w)
    /\ t = After(w, p.size)
    /\ p \in Piece
    /\ p.size \in Nat
    /\ p.size >= 1
    /\ t \in Text
    /\ p.size <= Len(w)
    /\ Len(t) = Len(w) - p.size
    /\ LegacyPieces(encoding, w) = <<p>> \o LegacyPieces(encoding, t)

\* The first piece of a text and what is left of it.
LEMMA Peel ==
    ASSUME NEW w \in Text, w # <<>>, NEW encoding
    PROVE  \E p, t : Peels(encoding, w, p, t)
<1>1. PICK p : p = First(encoding, w)
  OBVIOUS
<1>2. p \in Piece /\ p.size <= Len(w)
  BY <1>1, FirstLegacyPiece
<1>3. p.size \in Nat /\ p.size >= 1 /\ Len(w) \in Nat
  BY <1>2 DEF Piece, Text
<1>4. PICK t : t = After(w, p.size)
  OBVIOUS
<1>5. p.size \in 0..Len(w)
  BY <1>2, <1>3
<1>6. t \in Text /\ Len(t) = Len(w) - p.size
  BY <1>4, <1>5, AfterIs
<1>7. LegacyPieces(encoding, w) = <<p>> \o LegacyPieces(encoding, t)
  BY <1>1, <1>4, LegacyStep
<1>8. QED BY <1>1, <1>2, <1>3, <1>4, <1>6, <1>7 DEF Peels

\* Pieces are pieces: a size, and a set of points.
LEMMA LegacyIn ==
    ASSUME NEW w \in Text, NEW encoding
    PROVE  LegacyPieces(encoding, w) \in Seq(Piece)
<1> DEFINE S == {n \in Nat : \A s \in Text : Len(s) <= n => LegacyPieces(encoding, s) \in Seq(Piece)}
<1>1. 0 \in S
  <2> SUFFICES ASSUME NEW s \in Text, Len(s) <= 0
               PROVE  LegacyPieces(encoding, s) \in Seq(Piece)
    OBVIOUS
  <2>1. s = <<>>
    BY DEF Text
  <2>2. LegacyPieces(encoding, s) = <<>>
    BY <2>1, LegacyNone
  <2>3. QED BY <2>2
<1>2. ASSUME NEW n \in Nat, n \in S
      PROVE  n + 1 \in S
  <2> SUFFICES ASSUME NEW s \in Text, Len(s) <= n + 1
               PROVE  LegacyPieces(encoding, s) \in Seq(Piece)
    OBVIOUS
  <2>1. CASE s = <<>>
    <3>1. LegacyPieces(encoding, s) = <<>>
      BY <2>1, LegacyNone
    <3>2. QED BY <3>1
  <2>2. CASE s # <<>>
    <3>1. PICK p, t : Peels(encoding, s, p, t)
      BY <2>2, Peel
    <3>2. Len(t) <= n /\ t \in Text /\ p \in Piece
      BY <3>1 DEF Peels, Text
    <3>3. LegacyPieces(encoding, t) \in Seq(Piece)
      BY <1>2, <3>2
    <3>4. <<p>> \o LegacyPieces(encoding, t) \in Seq(Piece)
      BY <3>2, <3>3, Consed
    <3>5. QED BY <3>1, <3>4 DEF Peels
  <2>3. QED BY <2>1, <2>2
<1> HIDE DEF S
<1>3. PICK k \in Nat : k = Len(w)
  BY DEF Text
<1>4. k \in S
  BY <1>1, <1>2, Induction
<1>5. QED BY <1>3, <1>4 DEF S

(* Where pieces end. *)

\* The function that Ends is computed from, on the first n pieces.
IsUpTo(pieces, n, u) == u = [k \in 0..n |-> IF k = 0 THEN 0 ELSE u[k - 1] + pieces[k].size]

\* The running sum that Ends is computed from, at a position.
LEMMA UpToAt ==
    ASSUME NEW pieces, NEW n, NEW u, IsUpTo(pieces, n, u), NEW k \in 0..n
    PROVE  u[k] = IF k = 0 THEN 0 ELSE u[k - 1] + pieces[k].size
<1>1. PICK h : h = [j \in 0..n |-> IF j = 0 THEN 0 ELSE u[j - 1] + pieces[j].size]
  OBVIOUS
<1>2. u = h
  BY <1>1 DEF IsUpTo
<1>3. h[k] = IF k = 0 THEN 0 ELSE u[k - 1] + pieces[k].size
  BY <1>1
<1>4. QED BY <1>2, <1>3

\* It exists, by induction.
LEMMA UpToExists ==
    ASSUME NEW pieces, NEW n \in Nat
    PROVE  \E u : IsUpTo(pieces, n, u)
<1> DEFINE S == {j \in Nat : \E u : IsUpTo(pieces, j, u)}
<1>1. 0 \in S
  <2>1. PICK u : u = [k \in 0..0 |-> 0]
    OBVIOUS
  <2>2. [k \in 0..0 |-> IF k = 0 THEN 0 ELSE u[k - 1] + pieces[k].size] = u
    BY <2>1
  <2>3. IsUpTo(pieces, 0, u)
    BY <2>2 DEF IsUpTo
  <2>4. QED BY <2>3
<1>2. ASSUME NEW j \in Nat, j \in S
      PROVE  j + 1 \in S
  <2>1. PICK u : IsUpTo(pieces, j, u)
    BY <1>2
  <2>2. PICK g : g = [k \in 0..j + 1 |-> IF k = j + 1 THEN u[j] + pieces[k].size ELSE u[k]]
    OBVIOUS
  <2>3. ASSUME NEW k \in 0..j + 1
        PROVE  g[k] = IF k = 0 THEN 0 ELSE g[k - 1] + pieces[k].size
    <3>1. CASE k = j + 1
      <4>1. k # 0 /\ k - 1 = j /\ j \in 0..j + 1 /\ j # j + 1
        BY <3>1
      <4>2. g[k] = u[j] + pieces[k].size /\ g[j] = u[j]
        BY <2>2, <3>1, <4>1
      <4>3. QED BY <4>1, <4>2
    <3>2. CASE k # j + 1
      <4>1. k \in 0..j /\ (k # 0 => k - 1 \in 0..j + 1 /\ k - 1 # j + 1)
        BY <3>2
      <4>2. u[k] = IF k = 0 THEN 0 ELSE u[k - 1] + pieces[k].size
        BY <2>1, <4>1, UpToAt
      <4>3. g[k] = u[k] /\ (k # 0 => g[k - 1] = u[k - 1])
        BY <2>2, <3>2, <4>1
      <4>4. QED BY <4>2, <4>3
    <3>3. QED BY <3>1, <3>2
  <2>4. g = [k \in 0..j + 1 |-> g[k]]
    BY <2>2
  <2>5. g = [k \in 0..j + 1 |-> IF k = 0 THEN 0 ELSE g[k - 1] + pieces[k].size]
    BY <2>3, <2>4
  <2>6. IsUpTo(pieces, j + 1, g)
    BY <2>5 DEF IsUpTo
  <2>7. QED BY <2>6
<1> HIDE DEF S
<1>3. n \in S
  BY <1>1, <1>2, Induction
<1>4. QED BY <1>3 DEF S

\* The ends are the values of such a sum.
LEMMA EndsFrom ==
    ASSUME NEW pieces \in Seq(Piece)
    PROVE  \E u : /\ IsUpTo(pieces, Len(pieces), u)
                  /\ Ends(pieces) = {u[k] : k \in 0..Len(pieces)}
<1>1. \E u : IsUpTo(pieces, Len(pieces), u)
  <2>1. Len(pieces) \in Nat
    OBVIOUS
  <2>2. QED BY <2>1, UpToExists
<1>2. PICK u : u = CHOOSE f : IsUpTo(pieces, Len(pieces), f)
  OBVIOUS
<1>3. Ends(pieces) = {u[k] : k \in 0..Len(pieces)}
  BY <1>2 DEF Ends, IsUpTo
<1>4. IsUpTo(pieces, Len(pieces), u)
  BY <1>1, <1>2
<1>5. QED BY <1>3, <1>4

\* Of no pieces there is one end, the front.
LEMMA NoEnds == Ends(<<>>) = {0}
<1>1. <<>> \in Seq(Piece) /\ Len(<<>>) = 0
  OBVIOUS
<1>2. PICK u : IsUpTo(<<>>, 0, u) /\ Ends(<<>>) = {u[k] : k \in 0..0}
  BY <1>1, EndsFrom
<1>3. 0 \in 0..0
  OBVIOUS
<1>4. u[0] = 0
  <2>1. PICK pieces : pieces = <<>>
    OBVIOUS
  <2>2. IsUpTo(pieces, 0, u)
    BY <1>2, <2>1
  <2>3. QED BY <1>3, <2>2, UpToAt
<1>5. 0..0 = {0}
  OBVIOUS
<1>6. QED BY <1>2, <1>4, <1>5

\* The sums are numbers.
LEMMA UpToNat ==
    ASSUME NEW pieces \in Seq(Piece), NEW u, IsUpTo(pieces, Len(pieces), u)
    PROVE  \A k \in 0..Len(pieces) : u[k] \in Nat
<1> DEFINE S == {j \in Nat : j <= Len(pieces) => u[j] \in Nat}
<1>1. Len(pieces) \in Nat
  OBVIOUS
<1>2. 0 \in S
  <2>1. 0 \in 0..Len(pieces)
    BY <1>1
  <2>2. u[0] = 0
    BY <2>1, UpToAt
  <2>3. QED BY <2>2
<1>3. ASSUME NEW j \in Nat, j \in S
      PROVE  j + 1 \in S
  <2> SUFFICES ASSUME j + 1 <= Len(pieces) PROVE u[j + 1] \in Nat
    OBVIOUS
  <2>1. j + 1 \in 0..Len(pieces) /\ j + 1 \in 1..Len(pieces) /\ j + 1 # 0 /\ j + 1 - 1 = j
    BY <1>1
  <2>2. u[j + 1] = IF j + 1 = 0 THEN 0 ELSE u[j + 1 - 1] + pieces[j + 1].size
    BY <2>1, UpToAt
  <2>3. pieces[j + 1] \in Piece
    BY <2>1
  <2>4. pieces[j + 1].size \in Nat
    BY <2>3 DEF Piece
  <2>5. u[j] \in Nat
    BY <1>1, <1>3
  <2>6. QED BY <2>1, <2>2, <2>4, <2>5
<1> HIDE DEF S
<1>4. Nat \subseteq S
  BY <1>2, <1>3, Induction
<1>5. QED BY <1>1, <1>4 DEF S

\* With a piece before them the ends move by its size.
LEMMA EndsCons ==
    ASSUME NEW p \in Piece, NEW q \in Seq(Piece)
    PROVE  /\ Ends(q) \subseteq Nat
           /\ 0 \in Ends(q)
           /\ Ends(<<p>> \o q) = {0} \cup {p.size + c : c \in Ends(q)}
<1>1. PICK n \in Nat : n = Len(q)
  OBVIOUS
<1>2. PICK all \in Seq(Piece) : all = <<p>> \o q /\ Len(all) = n + 1 /\ all[1] = p /\
         \A i \in 1..n : all[i + 1] = q[i]
  <2>1. /\ <<p>> \o q \in Seq(Piece) /\ Len(<<p>> \o q) = Len(q) + 1 /\ (<<p>> \o q)[1] = p
        /\ \A i \in 1..Len(q) : (<<p>> \o q)[i + 1] = q[i]
    BY Consed
  <2>2. QED BY <1>1, <2>1
<1>3. PICK u : IsUpTo(q, n, u) /\ Ends(q) = {u[k] : k \in 0..n}
  BY <1>1, EndsFrom
<1>4. PICK v : IsUpTo(all, n + 1, v) /\ Ends(all) = {v[k] : k \in 0..n + 1}
  <2>1. \E v : IsUpTo(all, Len(all), v) /\ Ends(all) = {v[k] : k \in 0..Len(all)}
    BY EndsFrom
  <2>2. QED BY <1>2, <2>1
<1>5. \A k \in 0..n : u[k] \in Nat
  BY <1>1, <1>3, UpToNat
<1>6. PICK size \in Nat : size = p.size
  BY DEF Piece
<1> DEFINE S == {j \in Nat : j <= n => v[j + 1] = size + u[j]}
<1>7. u[0] = 0 /\ v[0] = 0
  <2>1. 0 \in 0..n /\ 0 \in 0..n + 1
    OBVIOUS
  <2>2. QED BY <1>3, <1>4, <2>1, UpToAt
<1>8. 0 \in S
  <2>1. 1 \in 0..n + 1 /\ 1 # 0 /\ 1 - 1 = 0 /\ 0 + 1 = 1
    OBVIOUS
  <2>2. v[1] = IF 1 = 0 THEN 0 ELSE v[1 - 1] + all[1].size
    BY <1>4, <2>1, UpToAt
  <2>3. v[1] = size + u[0]
    BY <1>2, <1>6, <1>7, <2>1, <2>2
  <2>4. QED BY <2>1, <2>3
<1>9. ASSUME NEW j \in Nat, j \in S
      PROVE  j + 1 \in S
  <2> SUFFICES ASSUME j + 1 <= n PROVE v[j + 1 + 1] = size + u[j + 1]
    OBVIOUS
  <2>1. j + 1 + 1 \in 0..n + 1 /\ j + 1 + 1 # 0 /\ j + 1 + 1 - 1 = j + 1
    OBVIOUS
  <2>2. j + 1 \in 0..n /\ j + 1 # 0 /\ j + 1 - 1 = j /\ j + 1 \in 1..n /\ j \in 0..n
    OBVIOUS
  <2>3. v[j + 1 + 1] = IF j + 1 + 1 = 0 THEN 0 ELSE v[j + 1 + 1 - 1] + all[j + 1 + 1].size
    BY <1>4, <2>1, UpToAt
  <2>4. u[j + 1] = IF j + 1 = 0 THEN 0 ELSE u[j + 1 - 1] + q[j + 1].size
    BY <1>3, <2>2, UpToAt
  <2>5. all[j + 1 + 1] = q[j + 1]
    BY <1>2, <2>2
  <2>6. v[j + 1] = size + u[j]
    BY <1>9, <2>2
  <2>7. PICK s \in Nat : s = q[j + 1].size
    <3>1. q[j + 1] \in Piece
      BY <1>1, <2>2
    <3>2. QED BY <3>1 DEF Piece
  <2>8. PICK c \in Nat : c = u[j]
    BY <1>5, <2>2
  <2>9. v[j + 1 + 1] = v[j + 1] + s /\ u[j + 1] = c + s
    BY <2>1, <2>2, <2>3, <2>4, <2>5, <2>7, <2>8
  <2>10. v[j + 1] + s = size + (c + s)
    BY <2>6, <2>8
  <2>11. QED BY <2>9, <2>10
<1> HIDE DEF S
<1>10. Nat \subseteq S
  BY <1>8, <1>9, Induction
<1>11. \A j \in 0..n : v[j + 1] = size + u[j]
  BY <1>10 DEF S
<1>12. {v[k] : k \in 0..n + 1} = {0} \cup {size + c : c \in {u[k] : k \in 0..n}}
  <2>1. ASSUME NEW k \in 0..n + 1
        PROVE  v[k] \in {0} \cup {size + c : c \in {u[j] : j \in 0..n}}
    <3>1. CASE k = 0
      BY <1>7, <3>1
    <3>2. CASE k # 0
      <4>1. PICK j \in 0..n : k = j + 1
        <5>1. k - 1 \in 0..n /\ k = k - 1 + 1
          BY <3>2
        <5>2. QED BY <5>1
      <4>2. QED BY <1>11, <4>1
    <3>3. QED BY <3>1, <3>2
  <2>2. ASSUME NEW j \in 0..n
        PROVE  size + u[j] \in {v[k] : k \in 0..n + 1}
    <3>1. j + 1 \in 0..n + 1 /\ v[j + 1] = size + u[j]
      BY <1>11
    <3>2. QED BY <3>1
  <2>3. 0 \in {v[k] : k \in 0..n + 1}
    BY <1>7
  <2>4. QED BY <2>1, <2>2, <2>3
<1>13. 0 \in {u[k] : k \in 0..n}
  BY <1>7
<1>14. QED BY <1>2, <1>3, <1>4, <1>5, <1>6, <1>12, <1>13

\* The same, by an end.
LEMMA EndsAt ==
    ASSUME NEW p \in Piece, NEW q \in Seq(Piece), NEW c \in Nat
    PROVE  c \in Ends(<<p>> \o q) <=> c = 0 \/ (c >= p.size /\ c - p.size \in Ends(q))
<1>1. PICK size \in Nat : size = p.size
  BY DEF Piece
<1>2. Ends(q) \subseteq Nat /\ Ends(<<p>> \o q) = {0} \cup {size + d : d \in Ends(q)}
  BY <1>1, EndsCons
<1>3. ASSUME NEW d \in Ends(q), c = size + d
      PROVE  c >= size /\ c - size = d
  BY <1>2, <1>3
<1>4. ASSUME c >= size, c - size \in Ends(q)
      PROVE  c = size + (c - size)
  OBVIOUS
<1>5. QED BY <1>1, <1>2, <1>3, <1>4

\* What holds of no bytes, and of a text when it does of what its first piece
\* leaves, holds of every text.
LEMMA PeelInduction ==
    ASSUME NEW S, NEW encoding, <<>> \in S,
           \A w \in Text : \A p, t : Peels(encoding, w, p, t) /\ t \in S => w \in S
    PROVE  Text \subseteq S
<1> DEFINE T == {n \in Nat : \A s \in Text : Len(s) <= n => s \in S}
<1>1. 0 \in T
  <2> SUFFICES ASSUME NEW s \in Text, Len(s) <= 0 PROVE s \in S
    OBVIOUS
  <2>1. s = <<>>
    BY DEF Text
  <2>2. QED BY <2>1
<1>2. ASSUME NEW n \in Nat, n \in T
      PROVE  n + 1 \in T
  <2> SUFFICES ASSUME NEW s \in Text, Len(s) <= n + 1 PROVE s \in S
    OBVIOUS
  <2>1. CASE s = <<>>
    BY <2>1
  <2>2. CASE s # <<>>
    <3>1. PICK p, t : Peels(encoding, s, p, t)
      BY <2>2, Peel
    <3>2. Len(t) <= n /\ t \in Text
      BY <3>1 DEF Peels, Text
    <3>3. t \in S
      BY <1>2, <3>2
    <3>4. QED BY <3>1, <3>3
  <2>3. QED BY <2>1, <2>2
<1> HIDE DEF T
<1>3. Nat \subseteq T
  BY <1>1, <1>2, Induction
<1>4. ASSUME NEW w \in Text
      PROVE  w \in S
  <2>1. PICK k \in Nat : k = Len(w)
    BY DEF Text
  <2>2. k \in T
    BY <1>3
  <2>3. QED BY <2>1, <2>2 DEF T
<1>5. QED BY <1>4

\* No bytes, as a text without pieces.
LEMMA NothingToCut == \A encoding : LegacyPieces(encoding, <<>>) = <<>> /\ <<>> \in Text /\
         <<>> \in Seq(Piece)
<1>1. ASSUME NEW encoding PROVE LegacyPieces(encoding, <<>>) = <<>>
  BY LegacyNone
<1>2. QED BY <1>1 DEF Text

\* The ends of a text's pieces are within it, and its own end is one.
LEMMA EndsWithin ==
    ASSUME NEW w \in Text, NEW encoding
    PROVE  Ends(LegacyPieces(encoding, w)) \subseteq 0..Len(w) /\
             Len(w) \in Ends(LegacyPieces(encoding, w))
<1> DEFINE S == {s \in Text : Ends(LegacyPieces(encoding, s)) \subseteq 0..Len(s)
                              /\ Len(s) \in Ends(LegacyPieces(encoding, s))}
<1>1. <<>> \in S
  <2>1. PICK s \in Text : s = <<>>
    BY NothingToCut
  <2>2. Len(s) = 0 /\ Ends(LegacyPieces(encoding, s)) = {0}
    BY <2>1, NothingToCut, NoEnds
  <2>3. s \in S
    BY <2>2
  <2>4. QED BY <2>1, <2>3
<1>2. ASSUME NEW s \in Text, NEW p, NEW t, Peels(encoding, s, p, t), t \in S
      PROVE  s \in S
  <2>1. PICK q : q = LegacyPieces(encoding, t)
    OBVIOUS
  <2>2. t \in Text /\ p \in Piece /\ LegacyPieces(encoding, s) = <<p>> \o q
    BY <1>2, <2>1 DEF Peels
  <2>3. q \in Seq(Piece)
    BY <2>1, <2>2, LegacyIn
  <2>4. PICK size \in Nat, n \in Nat, m \in Nat : size = p.size /\ n = Len(t) /\ m = Len(s) /\ m =
           size + n
    BY <1>2 DEF Peels, Text
  <2>5. Ends(<<p>> \o q) = {0} \cup {size + c : c \in Ends(q)}
    BY <2>2, <2>3, <2>4, EndsCons
  <2>6. Ends(q) \subseteq 0..n /\ n \in Ends(q)
    BY <1>2, <2>1, <2>4
  <2>7. m \in Ends(<<p>> \o q)
    BY <2>4, <2>5, <2>6
  <2>8. ASSUME NEW d \in Ends(<<p>> \o q)
        PROVE  d \in 0..m
    <3>1. CASE d = 0
      BY <2>4, <3>1
    <3>2. CASE d # 0
      <4>1. PICK c \in Ends(q) : d = size + c
        BY <2>5, <2>8, <3>2
      <4>2. c \in 0..n
        BY <2>6
      <4>3. QED BY <2>4, <4>1, <4>2
    <3>3. QED BY <3>1, <3>2
  <2>9. QED BY <2>2, <2>4, <2>7, <2>8
<1> HIDE DEF S
<1>3. Text \subseteq S
  BY <1>1, <1>2, PeelInduction
<1>4. QED BY <1>3 DEF S

\* The ends of a text's pieces and of others after them.
LEMMA EndsParts ==
    ASSUME NEW x \in Text, NEW q \in Seq(Piece), NEW encoding, NEW c \in Nat
    PROVE  c \in Ends(LegacyPieces(encoding, x) \o q)
              <=> c \in Ends(LegacyPieces(encoding, x)) \/ (c >= Len(x) /\ c - Len(x) \in Ends(q))
<1> DEFINE S == {s \in Text : \A d \in Nat : d \in Ends(LegacyPieces(encoding, s) \o q)
              <=> d \in Ends(LegacyPieces(encoding, s)) \/ (d >= Len(s) /\ d - Len(s) \in Ends(q))}
<1>1. PICK k : k = [size |-> 1, point |-> {}]
  OBVIOUS
<1>2. Ends(q) \subseteq Nat /\ 0 \in Ends(q)
  <2>1. 1 \in Nat \ {0} /\ {} \in SUBSET Nat
    OBVIOUS
  <2>2. k \in Piece
    BY <1>1, <2>1 DEF Piece
  <2>3. QED BY <2>2, EndsCons
<1>3. <<>> \in S
  <2>1. PICK s \in Text : s = <<>>
    BY NothingToCut
  <2>2. Len(s) = 0 /\ Ends(LegacyPieces(encoding, s)) = {0} /\ LegacyPieces(encoding, s) = <<>>
    BY <2>1, NothingToCut, NoEnds
  <2>3. LegacyPieces(encoding, s) \o q = q
    BY <2>2
  <2>4. ASSUME NEW d \in Nat
        PROVE  d \in Ends(q) <=> d \in {0} \/ (d >= 0 /\ d - 0 \in Ends(q))
    BY <1>2
  <2>5. s \in S
    BY <2>2, <2>3, <2>4
  <2>6. QED BY <2>1, <2>5
<1>4. ASSUME NEW s \in Text, NEW p, NEW t, Peels(encoding, s, p, t), t \in S
      PROVE  s \in S
  <2>1. PICK r : r = LegacyPieces(encoding, t)
    OBVIOUS
  <2>2. t \in Text /\ p \in Piece /\ LegacyPieces(encoding, s) = <<p>> \o r
    BY <1>4, <2>1 DEF Peels
  <2>3. r \in Seq(Piece) /\ <<p>> \in Seq(Piece)
    BY <2>1, <2>2, LegacyIn
  <2>4. PICK size \in Nat, n \in Nat, m \in Nat : size = p.size /\ n = Len(t) /\ m = Len(s) /\ m =
           size + n
    BY <1>4 DEF Peels, Text
  <2>5. (<<p>> \o r) \o q = <<p>> \o (r \o q) /\ r \o q \in Seq(Piece)
    BY <2>3, ConcatAssociative, ConcatProperties
  <2>6. ASSUME NEW d \in Nat
        PROVE  d \in Ends(<<p>> \o (r \o q)) <=> d \in Ends(<<p>> \o r) \/ (d >= m /\ d - m \in Ends(q))
    <3>1. d \in Ends(<<p>> \o (r \o q)) <=> d = 0 \/ (d >= size /\ d - size \in Ends(r \o q))
      BY <2>2, <2>4, <2>5, EndsAt
    <3>2. d \in Ends(<<p>> \o r) <=> d = 0 \/ (d >= size /\ d - size \in Ends(r))
      BY <2>2, <2>3, <2>4, EndsAt
    <3>3. CASE d >= size
      <4>1. PICK e \in Nat : e = d - size
        BY <3>3
      <4>2. e \in Ends(r \o q) <=> e \in Ends(r) \/ (e >= n /\ e - n \in Ends(q))
        BY <1>4, <2>1, <2>4
      <4>3. e - n = d - m /\ (e >= n <=> d >= m)
        BY <2>4, <4>1
      <4>4. m = 0 => size = 0
        BY <2>4
      <4>5. size # 0
        BY <2>2, <2>4 DEF Piece
      <4>6. d # 0
        BY <3>3, <4>5
      <4>7. QED BY <3>1, <3>2, <3>3, <4>1, <4>2, <4>3, <4>6
    <3>4. CASE ~(d >= size)
      <4>1. ~(d >= m)
        BY <2>4, <3>4
      <4>2. QED BY <3>1, <3>2, <3>4, <4>1
    <3>5. QED BY <3>3, <3>4
  <2>7. QED BY <2>1, <2>2, <2>4, <2>5, <2>6
<1> HIDE DEF S
<1>5. Text \subseteq S
  BY <1>3, <1>4, PeelInduction
<1>6. QED BY <1>5 DEF S

-----------------------------------------------------------------------------
(* Cuts: the pieces of two parts are the pieces of the whole when the      *)
(* whole is cut between pieces there (CutParts), or when the first part is *)
(* not malformed (CleanParts).                                             *)

\* Where the whole falls into pieces at the end of x, it falls into those of
\* both parts.
LEMMA CutParts ==
    ASSUME NEW x \in Text, NEW y \in Text, NEW encoding, Len(x) \in Ends(LegacyPieces(encoding, x \o y))
    PROVE  LegacyPieces(encoding, x \o y) = LegacyPieces(encoding, x) \o LegacyPieces(encoding, y)
<1> DEFINE S == {s \in Text : Len(s) \in Ends(LegacyPieces(encoding, s \o y)) =>
                    LegacyPieces(encoding, s \o y) = LegacyPieces(encoding, s) \o
                             LegacyPieces(encoding, y)}
<1>1. LegacyPieces(encoding, y) \in Seq(Piece)
  BY LegacyIn
<1>2. <<>> \in S
  <2>1. PICK s \in Text : s = <<>>
    BY NothingToCut
  <2>2. LegacyPieces(encoding, s) = <<>> /\ s \o y = y
    BY <2>1, NothingToCut DEF Text
  <2>3. LegacyPieces(encoding, s) \o LegacyPieces(encoding, y) = LegacyPieces(encoding, y)
    BY <1>1, <2>2
  <2>4. s \in S
    BY <2>2, <2>3
  <2>5. QED BY <2>1, <2>4
<1>3. ASSUME NEW s \in Text, NEW p, NEW t, Peels(encoding, s, p, t), t \in S
      PROVE  s \in S
  <2> SUFFICES ASSUME Len(s) \in Ends(LegacyPieces(encoding, s \o y))
               PROVE  LegacyPieces(encoding, s \o y) = LegacyPieces(encoding, s) \o
                        LegacyPieces(encoding, y)
    OBVIOUS
  <2>1. PICK n \in Nat, h \in Nat : n = Len(s) /\ n >= 1 /\ h = Len(y)
    BY <1>3 DEF Peels, Text
  <2>2. s # <<>>
    BY <2>1
  <2>3. PICK z \in Text : Joins(z, s, y)
    BY JoinExists
  <2>4. z = s \o y /\ Len(z) = n + h /\ z # <<>>
    <3>1. z = s \o y /\ Len(z) = n + h
      BY <2>1, <2>3 DEF Joins
    <3>2. z # <<>>
      BY <2>1, <3>1
    <3>3. QED BY <3>1, <3>2
  <2>5. PICK f, r : Peels(encoding, z, f, r)
    BY <2>4, Peel
  <2>6. PICK size \in Nat : size = f.size /\ size >= 1 /\ f \in Piece /\ r \in Text
    BY <2>5 DEF Peels
  <2>7. LegacyPieces(encoding, r) \in Seq(Piece) /\ LegacyPieces(encoding, z) = <<f>> \o
           LegacyPieces(encoding, r)
    BY <2>5, <2>6, LegacyIn DEF Peels
  <2>8. n \in Ends(<<f>> \o LegacyPieces(encoding, r))
    BY <2>1, <2>4, <2>7
  <2>9. size <= n /\ n - size \in Ends(LegacyPieces(encoding, r))
    BY <2>1, <2>6, <2>7, <2>8, EndsAt
  <2>10. f = First(encoding, s \o y)
    BY <2>4, <2>5 DEF Peels
  <2>11. r = After(s, size) \o y /\ After(s, size) \in Text /\ Len(After(s, size)) = n - size
    <3>1. size \in 0..Len(s)
      BY <2>1, <2>6, <2>9
    <3>2. After(s \o y, size) = After(s, size) \o y
      BY <3>1, AfterConcat
    <3>3. r = After(s \o y, size)
      BY <2>4, <2>5, <2>6 DEF Peels
    <3>4. QED BY <2>1, <3>1, <3>2, <3>3, AfterIs
  <2>12. \/ First(encoding, s) = First(encoding, s \o y)
         \/ Wide(encoding) /\ First(encoding, s \o y).size = Len(s) - 1 /\ Len(y) >= 1
    <3>1. First(encoding, s \o y).size <= Len(s)
      BY <2>1, <2>6, <2>9, <2>10
    <3>2. QED BY <2>2, <3>1, PieceStays
  <2>13. CASE First(encoding, s) = First(encoding, s \o y)
    <3>1. p = f /\ t = After(s, size) /\ LegacyPieces(encoding, s) = <<p>> \o LegacyPieces(encoding, t)
      BY <1>3, <2>6, <2>10, <2>13 DEF Peels
    <3>2. r = t \o y /\ Len(t) = n - size /\ t \in Text
      BY <2>11, <3>1
    <3>3. Len(t) \in Ends(LegacyPieces(encoding, t \o y))
      BY <2>9, <3>2
    <3>4. LegacyPieces(encoding, r) = LegacyPieces(encoding, t) \o LegacyPieces(encoding, y)
      BY <1>3, <3>2, <3>3
    <3>5. LegacyPieces(encoding, t) \in Seq(Piece) /\ <<p>> \in Seq(Piece)
      BY <2>6, <3>1, <3>2, LegacyIn
    <3>6. <<p>> \o (LegacyPieces(encoding, t) \o LegacyPieces(encoding, y)) =
             (<<p>> \o LegacyPieces(encoding, t)) \o LegacyPieces(encoding, y)
      BY <1>1, <3>5, ConcatAssociative
    <3>7. QED BY <2>4, <2>7, <3>1, <3>4, <3>6
  <2>14. CASE Wide(encoding) /\ First(encoding, s \o y).size = Len(s) - 1 /\ Len(y) >= 1
    <3>1. n - size = 1 /\ h >= 1
      BY <2>1, <2>6, <2>10, <2>14
    <3>2. Len(r) = 1 + h
      <4>1. PICK u \in Text : u = After(s, size) /\ Len(u) = 1
        BY <2>11, <3>1
      <4>2. PICK v \in Text : Joins(v, u, y)
        BY JoinExists
      <4>3. r = v
        BY <2>11, <4>1, <4>2 DEF Joins
      <4>4. Len(v) = Len(u) + Len(y)
        BY <4>2 DEF Joins
      <4>5. QED BY <2>1, <4>1, <4>3, <4>4
    <3>3. r # <<>> /\ Len(r) >= 2
      BY <2>1, <2>6, <3>1, <3>2
    <3>4. PICK g, v : Peels(encoding, r, g, v)
      BY <2>6, <3>3, Peel
    <3>5. g.size >= 2 /\ g \in Piece /\ v \in Text /\ g.size \in Nat
      <4>1. g = First(encoding, r)
        BY <3>4 DEF Peels
      <4>2. First(encoding, r).size >= 2
        BY <2>6, <2>14, <3>3, FirstLegacyPiece
      <4>3. QED BY <3>4, <4>1, <4>2 DEF Peels
    <3>6. LegacyPieces(encoding, v) \in Seq(Piece) /\ LegacyPieces(encoding, r) = <<g>> \o
             LegacyPieces(encoding, v)
      BY <3>4, <3>5, LegacyIn DEF Peels
    <3>7. 1 \in Ends(<<g>> \o LegacyPieces(encoding, v))
      BY <2>9, <3>1, <3>6
    <3>8. 1 = 0 \/ 1 >= g.size
      BY <3>5, <3>6, <3>7, EndsAt
    <3>9. QED BY <3>5, <3>8
  <2>15. QED BY <2>12, <2>13, <2>14
<1> HIDE DEF S
<1>4. Text \subseteq S
  BY <1>2, <1>3, PeelInduction
<1>5. QED BY <1>4 DEF S

\* Of two parts one is malformed.
LEMMA MalformedConcat ==
    ASSUME NEW p \in Seq(Piece), NEW q \in Seq(Piece)
    PROVE  IsMalformed(p \o q) <=> IsMalformed(p) \/ IsMalformed(q)
<1>1. PICK m \in Nat, n \in Nat : m = Len(p) /\ n = Len(q)
  OBVIOUS
<1>2. PICK all \in Seq(Piece) : all = p \o q /\ Len(all) = m + n
                                /\ \A i \in 1..m + n : all[i] = IF i <= m THEN p[i] ELSE q[i - m]
  <2>1. /\ p \o q \in Seq(Piece) /\ Len(p \o q) = Len(p) + Len(q)
        /\ \A i \in 1..Len(p) + Len(q) : (p \o q)[i] = IF i <= Len(p) THEN p[i] ELSE q[i - Len(p)]
    BY ConcatProperties
  <2>2. QED BY <1>1, <2>1
<1>3. DOMAIN all = 1..m + n /\ DOMAIN p = 1..m /\ DOMAIN q = 1..n
  BY <1>1, <1>2
<1>4. ASSUME NEW i \in 1..m
      PROVE  i \in 1..m + n /\ all[i] = p[i]
  BY <1>2
<1>5. ASSUME NEW i \in 1..n
      PROVE  m + i \in 1..m + n /\ all[m + i] = q[i]
  <2>1. m + i \in 1..m + n /\ ~(m + i <= m) /\ m + i - m = i
    OBVIOUS
  <2>2. QED BY <1>2, <2>1
<1>6. ASSUME NEW i \in 1..m + n
      PROVE  \/ i \in 1..m /\ all[i] = p[i]
             \/ i - m \in 1..n /\ all[i] = q[i - m]
  <2>1. all[i] = IF i <= m THEN p[i] ELSE q[i - m]
    BY <1>2
  <2>2. i <= m => i \in 1..m
    OBVIOUS
  <2>3. ~(i <= m) => i - m \in 1..n
    OBVIOUS
  <2>4. QED BY <2>1, <2>2, <2>3
<1>7. ASSUME IsMalformed(p) \/ IsMalformed(q)
      PROVE  IsMalformed(all)
  <2>1. CASE IsMalformed(p)
    <3>1. PICK i \in 1..m : p[i].point = {}
      BY <1>3, <2>1 DEF IsMalformed
    <3>2. i \in DOMAIN all /\ all[i].point = {}
      BY <1>3, <1>4, <3>1
    <3>3. QED BY <3>2 DEF IsMalformed
  <2>2. CASE IsMalformed(q)
    <3>1. PICK i \in 1..n : q[i].point = {}
      BY <1>3, <2>2 DEF IsMalformed
    <3>2. m + i \in DOMAIN all /\ all[m + i].point = {}
      BY <1>3, <1>5, <3>1
    <3>3. QED BY <3>2 DEF IsMalformed
  <2>3. QED BY <1>7, <2>1, <2>2
<1>8. ASSUME IsMalformed(all)
      PROVE  IsMalformed(p) \/ IsMalformed(q)
  <2>1. PICK i \in 1..m + n : all[i].point = {}
    BY <1>3, <1>8 DEF IsMalformed
  <2>2. CASE i \in 1..m /\ all[i] = p[i]
    BY <1>3, <2>1, <2>2 DEF IsMalformed
  <2>3. CASE i - m \in 1..n /\ all[i] = q[i - m]
    BY <1>3, <2>1, <2>3 DEF IsMalformed
  <2>4. QED BY <1>6, <2>2, <2>3
<1>9. QED BY <1>2, <1>7, <1>8

\* One piece is malformed when it has no point.
LEMMA MalformedOne ==
    ASSUME NEW p
    PROVE  IsMalformed(<<p>>) <=> p.point = {}
<1>1. DOMAIN <<p>> = {1} /\ <<p>>[1] = p
  OBVIOUS
<1>2. QED BY <1>1 DEF IsMalformed

\* Where the first part is not malformed, nothing of it is waiting for the second.
LEMMA CleanParts ==
    ASSUME NEW x \in Text, NEW y \in Text, NEW encoding, ~IsMalformed(LegacyPieces(encoding, x))
    PROVE  LegacyPieces(encoding, x \o y) = LegacyPieces(encoding, x) \o LegacyPieces(encoding, y)
<1> DEFINE S == {s \in Text : ~IsMalformed(LegacyPieces(encoding, s)) =>
                    LegacyPieces(encoding, s \o y) = LegacyPieces(encoding, s) \o
                             LegacyPieces(encoding, y)}
<1>1. LegacyPieces(encoding, y) \in Seq(Piece)
  BY LegacyIn
<1>2. <<>> \in S
  <2>1. PICK s \in Text : s = <<>>
    BY NothingToCut
  <2>2. LegacyPieces(encoding, s) = <<>> /\ s \o y = y
    BY <2>1, NothingToCut DEF Text
  <2>3. LegacyPieces(encoding, s) \o LegacyPieces(encoding, y) = LegacyPieces(encoding, y)
    BY <1>1, <2>2
  <2>4. s \in S
    BY <2>2, <2>3
  <2>5. QED BY <2>1, <2>4
<1>3. ASSUME NEW s \in Text, NEW p, NEW t, Peels(encoding, s, p, t), t \in S
      PROVE  s \in S
  <2> SUFFICES ASSUME ~IsMalformed(LegacyPieces(encoding, s))
               PROVE  LegacyPieces(encoding, s \o y) = LegacyPieces(encoding, s) \o
                        LegacyPieces(encoding, y)
    OBVIOUS
  <2>1. /\ p \in Piece /\ t \in Text /\ p = First(encoding, s) /\ t = After(s, p.size)
        /\ LegacyPieces(encoding, s) = <<p>> \o LegacyPieces(encoding, t)
        /\ p.size \in 0..Len(s)
    BY <1>3 DEF Peels, Text
  <2>2. s # <<>> /\ Len(s) >= 1 /\ Len(s) \in Nat
    BY <1>3 DEF Peels, Text
  <2>3. LegacyPieces(encoding, t) \in Seq(Piece) /\ <<p>> \in Seq(Piece)
    BY <2>1, LegacyIn
  <2>4. p.point # {} /\ ~IsMalformed(LegacyPieces(encoding, t))
    <3>1. IsMalformed(<<p>> \o LegacyPieces(encoding, t)) <=>
             IsMalformed(<<p>>) \/ IsMalformed(LegacyPieces(encoding, t))
      BY <2>3, MalformedConcat
    <3>2. IsMalformed(<<p>>) <=> p.point = {}
      BY MalformedOne
    <3>3. QED BY <2>1, <3>1, <3>2
  <2>5. First(encoding, s \o y) = p
    BY <2>1, <2>2, <2>4, CharacterStays
  <2>6. s \o y \in Text /\ s \o y # <<>>
    <3>1. PICK z \in Text : Joins(z, s, y)
      BY JoinExists
    <3>2. Len(y) \in Nat /\ z = s \o y /\ Len(z) = Len(s) + Len(y)
      BY <3>1 DEF Joins, Text
    <3>3. z # <<>>
      BY <2>2, <3>2
    <3>4. QED BY <3>2, <3>3
  <2>7. LegacyPieces(encoding, s \o y) = <<p>> \o LegacyPieces(encoding, After(s \o y, p.size))
    BY <2>5, <2>6, LegacyStep
  <2>8. After(s \o y, p.size) = t \o y
    BY <2>1, AfterConcat
  <2>9. LegacyPieces(encoding, t \o y) = LegacyPieces(encoding, t) \o LegacyPieces(encoding, y)
    BY <1>3, <2>4
  <2>10. <<p>> \o (LegacyPieces(encoding, t) \o LegacyPieces(encoding, y)) =
           (<<p>> \o LegacyPieces(encoding, t)) \o LegacyPieces(encoding, y)
    BY <1>1, <2>3, ConcatAssociative
  <2>11. QED BY <2>1, <2>7, <2>8, <2>9, <2>10
<1> HIDE DEF S
<1>4. Text \subseteq S
  BY <1>2, <1>3, PeelInduction
<1>5. QED BY <1>4 DEF S

-----------------------------------------------------------------------------
(* What pieces are decoded to, and the digits a chunk goes down as.        *)

\* What one piece is decoded to.
PointFor(piece) == IF piece.point = {} THEN REPLACEMENT ELSE CHOOSE p \in piece.point : TRUE

\* What a piece is decoded to is a number.
LEMMA PointForNat == \A piece \in Piece : PointFor(piece) \in Nat
<1> TAKE piece \in Piece
<1>1. piece.point \subseteq Nat
  BY DEF Piece
<1>2. CASE piece.point = {}
  BY <1>2 DEF PointFor, REPLACEMENT
<1>3. CASE piece.point # {}
  <2>1. PICK q : q = CHOOSE p \in piece.point : TRUE
    OBVIOUS
  <2>2. q \in piece.point
    BY <1>3, <2>1
  <2>3. QED BY <1>1, <1>3, <2>1, <2>2 DEF PointFor
<1>4. QED BY <1>2, <1>3

\* What pieces are decoded to, one by one.
LEMMA ReplacedIs ==
    ASSUME NEW p \in Seq(Piece)
    PROVE  /\ Replaced(p) \in Seq(Nat)
           /\ Len(Replaced(p)) = Len(p)
           /\ \A i \in 1..Len(p) : Replaced(p)[i] = PointFor(p[i])
<1>1. PICK n \in Nat : n = Len(p) /\ DOMAIN p = 1..n
  OBVIOUS
<1>2. \A i \in 1..n : PointFor(p[i]) \in Nat
  <2> TAKE i \in 1..n
  <2>1. p[i] \in Piece
    BY <1>1
  <2>2. QED BY <2>1, PointForNat
<1>3. Replaced(p) = [i \in 1..n |-> PointFor(p[i])]
  BY <1>1 DEF Replaced, PointFor
<1>4. PICK f : f = [i \in 1..n |-> PointFor(p[i])]
  OBVIOUS
<1>5. f \in Seq(Nat) /\ Len(f) = n
  <2>1. f \in [1..n -> Nat]
    BY <1>2, <1>4
  <2>2. QED BY <2>1
<1>6. QED BY <1>1, <1>3, <1>4, <1>5

\* Two parts are decoded one after the other.
LEMMA ReplacedConcat ==
    ASSUME NEW p \in Seq(Piece), NEW q \in Seq(Piece)
    PROVE  Replaced(p \o q) = Replaced(p) \o Replaced(q)
<1>1. PICK m \in Nat, n \in Nat : m = Len(p) /\ n = Len(q)
  OBVIOUS
<1>2. PICK all \in Seq(Piece) : all = p \o q /\ Len(all) = m + n
                                /\ \A i \in 1..m + n : all[i] = IF i <= m THEN p[i] ELSE q[i - m]
  <2>1. /\ p \o q \in Seq(Piece) /\ Len(p \o q) = Len(p) + Len(q)
        /\ \A i \in 1..Len(p) + Len(q) : (p \o q)[i] = IF i <= Len(p) THEN p[i] ELSE q[i - Len(p)]
    BY ConcatProperties
  <2>2. QED BY <1>1, <2>1
<1>3. PICK a \in Seq(Nat) : a = Replaced(all) /\ Len(a) = m + n /\ \A i \in 1..m + n : a[i] =
         PointFor(all[i])
  BY <1>2, ReplacedIs
<1>4. PICK b \in Seq(Nat) : b = Replaced(p) /\ Len(b) = m /\ \A i \in 1..m : b[i] = PointFor(p[i])
  BY <1>1, ReplacedIs
<1>5. PICK c \in Seq(Nat) : c = Replaced(q) /\ Len(c) = n /\ \A i \in 1..n : c[i] = PointFor(q[i])
  BY <1>1, ReplacedIs
<1>6. PICK d \in Seq(Nat) : d = b \o c /\ Len(d) = m + n
                            /\ \A i \in 1..m + n : d[i] = IF i <= m THEN b[i] ELSE c[i - m]
  <2>1. /\ b \o c \in Seq(Nat) /\ Len(b \o c) = Len(b) + Len(c)
        /\ \A i \in 1..Len(b) + Len(c) : (b \o c)[i] = IF i <= Len(b) THEN b[i] ELSE c[i - Len(b)]
    BY ConcatProperties
  <2>2. QED BY <1>4, <1>5, <2>1
<1>7. ASSUME NEW i \in 1..m + n
      PROVE  a[i] = d[i]
  <2>1. CASE i <= m
    <3>1. i \in 1..m
      BY <2>1
    <3>2. all[i] = p[i] /\ d[i] = b[i]
      BY <1>2, <1>6, <2>1
    <3>3. a[i] = PointFor(all[i]) /\ b[i] = PointFor(p[i])
      BY <1>3, <1>4, <3>1
    <3>4. QED BY <3>2, <3>3
  <2>2. CASE ~(i <= m)
    <3>1. i - m \in 1..n
      BY <2>2
    <3>2. all[i] = q[i - m] /\ d[i] = c[i - m]
      BY <1>2, <1>6, <2>2
    <3>3. a[i] = PointFor(all[i]) /\ c[i - m] = PointFor(q[i - m])
      BY <1>3, <1>5, <3>1
    <3>4. QED BY <3>2, <3>3
  <2>3. QED BY <2>1, <2>2
<1>8. a = d
  BY <1>3, <1>6, <1>7, SeqEqual
<1>9. QED BY <1>2, <1>3, <1>4, <1>5, <1>6, <1>8

\* A malformed piece shows as U+FFFD.
LEMMA MalformedShows ==
    ASSUME NEW p \in Seq(Piece), IsMalformed(p)
    PROVE  \E i \in DOMAIN Replaced(p) : Replaced(p)[i] = REPLACEMENT
<1>1. PICK i \in 1..Len(p) : p[i].point = {}
  BY DEF IsMalformed
<1>2. Replaced(p) \in Seq(Nat) /\ Len(Replaced(p)) = Len(p) /\ Replaced(p)[i] = PointFor(p[i])
  BY ReplacedIs
<1>3. PointFor(p[i]) = REPLACEMENT
  BY <1>1 DEF PointFor
<1>4. DOMAIN Replaced(p) = 1..Len(p)
  BY <1>2
<1>5. QED BY <1>2, <1>3, <1>4

(* The digits. *)

\* The digits of one byte.
Digits(b) == <<b \div 16, b % 16>>

\* A byte is its two digits.
LEMMA DigitsOf ==
    ASSUME NEW b \in Byte
    PROVE  \E q, r \in Nat : q = b \div 16 /\ r = b % 16 /\ 16 * q + r = b /\ Digits(b) = <<q, r>>
<1>1. PICK n \in Nat : n = b
  BY ByteNat
<1>2. PICK q \in Nat : q = n \div 16
  OBVIOUS
<1>3. PICK r \in Nat : r = n % 16
  OBVIOUS
<1>4. 16 * q + r = n
  BY <1>2, <1>3
<1>5. q = b \div 16 /\ r = b % 16
  BY <1>1, <1>2, <1>3
<1>6. Digits(b) = <<q, r>>
  BY <1>5 DEF Digits
<1>7. QED BY <1>1, <1>4, <1>5, <1>6

\* There are two, and they are numbers.
LEMMA DigitsIn == \A b \in Byte : Digits(b) \in Seq(Nat) /\ Len(Digits(b)) = 2
<1> TAKE b \in Byte
<1>1. PICK q, r \in Nat : Digits(b) = <<q, r>>
  BY DigitsOf
<1>2. <<q, r>> \in Seq(Nat) /\ Len(<<q, r>>) = 2
  OBVIOUS
<1>3. QED BY <1>1, <1>2

\* The digits of a text, byte by byte.
IsHex(w, hex) ==
    /\ hex \in Seq(Nat)
    /\ Len(hex) = 2 * Len(w)
    /\ \A i \in 1..Len(w) : hex[2 * i - 1] = w[i] \div 16 /\ hex[2 * i] = w[i] % 16

\* The digits of a text, two for each of its bytes.
LEMMA ToHexIs ==
    ASSUME NEW w \in Text
    PROVE  IsHex(w, ToHex(w))
<1> DEFINE S == {n \in Nat : \A s \in Text : Len(s) = n => IsHex(s, ToHex(s))}
<1>1. \A s \in Text : ToHex(s) = FlattenSeq([i \in 1..Len(s) |-> Digits(s[i])])
                      /\ [i \in 1..Len(s) |-> Digits(s[i])] \in Seq(Seq(Nat))
  <2> TAKE s \in Text
  <2>1. DOMAIN s = 1..Len(s) /\ Len(s) \in Nat
    BY DEF Text
  <2>2. ToHex(s) = FlattenSeq([i \in 1..Len(s) |-> Digits(s[i])])
    BY <2>1 DEF ToHex, Digits
  <2>3. \A i \in 1..Len(s) : Digits(s[i]) \in Seq(Nat)
    <3> TAKE i \in 1..Len(s)
    <3>1. s[i] \in Byte
      BY DEF Text
    <3>2. QED BY <3>1, DigitsIn
  <2>4. PICK m \in Nat : m = Len(s)
    BY <2>1
  <2>5. [i \in 1..m |-> Digits(s[i])] \in [1..m -> Seq(Nat)]
    BY <2>3, <2>4
  <2>6. [i \in 1..m |-> Digits(s[i])] \in Seq(Seq(Nat))
    BY <2>5
  <2>7. QED BY <2>2, <2>4, <2>6
<1>2. 0 \in S
  <2> SUFFICES ASSUME NEW s \in Text, Len(s) = 0 PROVE IsHex(s, ToHex(s))
    OBVIOUS
  <2>1. [i \in 1..Len(s) |-> Digits(s[i])] = <<>>
    OBVIOUS
  <2>2. ToHex(s) = <<>>
    BY <1>1, <2>1 DEF FlattenSeq
  <2>3. QED BY <2>2 DEF IsHex
<1>3. ASSUME NEW n \in Nat, n \in S
      PROVE  n + 1 \in S
  <2> SUFFICES ASSUME NEW s \in Text, Len(s) = n + 1 PROVE IsHex(s, ToHex(s))
    OBVIOUS
  <2>1. PICK t \in Text, b \in Byte : Len(t) = n /\ b = s[n + 1] /\ \A i \in 1..n : t[i] = s[i]
    <3>1. SubSeq(s, 1, n) \in Text /\ Len(SubSeq(s, 1, n)) = n /\ \A i \in 1..n :
             SubSeq(s, 1, n)[i] = s[i]
      BY DEF Text
    <3>2. s[n + 1] \in Byte
      BY DEF Text
    <3>3. QED BY <3>1, <3>2
  <2>2. PICK g \in Seq(Seq(Nat)) : g = [i \in 1..Len(t) |-> Digits(t[i])] /\ ToHex(t) = FlattenSeq(g)
    BY <1>1
  <2>3. PICK h \in Seq(Seq(Nat)) : h = [i \in 1..Len(s) |-> Digits(s[i])] /\ ToHex(s) = FlattenSeq(h)
    BY <1>1
  <2>4. Len(g) = n /\ Len(h) = n + 1
    BY <2>1, <2>2, <2>3
  <2>5. Digits(b) \in Seq(Nat)
    BY DigitsIn
  <2>6. PICK a \in Seq(Seq(Nat)) : a = Append(g, Digits(b)) /\ Len(a) = n + 1 /\ a[n + 1] = Digits(b)
                                   /\ \A i \in 1..n : a[i] = g[i]
    <3>1. /\ Append(g, Digits(b)) \in Seq(Seq(Nat)) /\ Len(Append(g, Digits(b))) = Len(g) + 1
          /\ Append(g, Digits(b))[Len(g) + 1] = Digits(b)
          /\ \A i \in 1..Len(g) : Append(g, Digits(b))[i] = g[i]
      BY <2>5, AppendProperties
    <3>2. QED BY <2>4, <3>1
  <2>7. ASSUME NEW i \in 1..n + 1
        PROVE  a[i] = h[i]
    <3>1. h[i] = Digits(s[i])
      BY <2>3
    <3>2. CASE i = n + 1
      BY <2>1, <2>6, <3>1, <3>2
    <3>3. CASE i # n + 1
      <4>1. i \in 1..n
        BY <3>3
      <4>2. g[i] = Digits(t[i])
        BY <2>1, <2>2, <4>1
      <4>3. QED BY <2>1, <2>6, <3>1, <4>1, <4>2
    <3>4. QED BY <3>2, <3>3
  <2>8. a = h
    BY <2>4, <2>6, <2>7, SeqEqual
  <2>9. ToHex(s) = ToHex(t) \o Digits(b)
    <3>1. FlattenSeq(Append(g, Digits(b))) = FlattenSeq(g) \o Digits(b)
      BY <2>5, FlattenAppend
    <3>2. QED BY <2>2, <2>3, <2>6, <2>8, <3>1
  <2>10. PICK e \in Seq(Nat) : /\ e = ToHex(t) /\ Len(e) = 2 * n
                               /\ \A i \in 1..n : e[2 * i - 1] = t[i] \div 16 /\ e[2 * i] = t[i] % 16
    <3>1. IsHex(t, ToHex(t))
      BY <1>3, <2>1
    <3>2. QED BY <2>1, <3>1 DEF IsHex
  <2>11. PICK f \in Seq(Nat) : /\ f = e \o Digits(b) /\ Len(f) = 2 * n + 2
                               /\ \A i \in 1..2 * n + 2 : f[i] = IF i <= 2 * n THEN e[i]
                                        ELSE Digits(b)[i - 2 * n]
    <3>1. Len(Digits(b)) = 2
      BY DigitsIn
    <3>2. /\ e \o Digits(b) \in Seq(Nat) /\ Len(e \o Digits(b)) = Len(e) + Len(Digits(b))
          /\ \A i \in 1..Len(e) + Len(Digits(b)) : (e \o Digits(b))[i] = IF i <= Len(e) THEN e[i]
                   ELSE Digits(b)[i - Len(e)]
      BY <2>5, ConcatProperties
    <3>3. Len(e) + Len(Digits(b)) = 2 * n + 2
      BY <2>10, <3>1
    <3>4. PICK l \in Nat : l = Len(e) + Len(Digits(b)) /\ l = 2 * n + 2
      BY <2>1, <3>3
    <3>5. Len(e \o Digits(b)) = 2 * n + 2
      BY <3>2, <3>3
    <3>6. \A i \in 1..2 * n + 2 : (e \o Digits(b))[i] = IF i <= Len(e) THEN e[i]
             ELSE Digits(b)[i - Len(e)]
      BY <3>2, <3>4
    <3>7. \A i \in 1..2 * n + 2 : (e \o Digits(b))[i] = IF i <= 2 * n THEN e[i]
             ELSE Digits(b)[i - 2 * n]
      BY <2>10, <3>6
    <3>8. QED BY <3>2, <3>5, <3>7
  <2>12. ASSUME NEW i \in 1..n + 1
         PROVE  f[2 * i - 1] = s[i] \div 16 /\ f[2 * i] = s[i] % 16
    <3>1. CASE i = n + 1
      <4>1. 2 * i - 1 \in 1..2 * n + 2 /\ ~(2 * i - 1 <= 2 * n) /\ 2 * i - 1 - 2 * n = 1
        BY <3>1
      <4>2. 2 * i \in 1..2 * n + 2 /\ ~(2 * i <= 2 * n) /\ 2 * i - 2 * n = 2
        BY <3>1
      <4>3. f[2 * i - 1] = Digits(b)[1] /\ f[2 * i] = Digits(b)[2]
        BY <2>11, <4>1, <4>2
      <4>4. QED BY <2>1, <3>1, <4>3 DEF Digits
    <3>2. CASE i # n + 1
      <4>1. i \in 1..n
        BY <3>2
      <4>2. 2 * i - 1 \in 1..2 * n + 2 /\ 2 * i - 1 <= 2 * n /\ 2 * i \in 1..2 * n + 2 /\ 2 * i <= 2 * n
        BY <4>1
      <4>3. f[2 * i - 1] = e[2 * i - 1] /\ f[2 * i] = e[2 * i]
        BY <2>11, <4>2
      <4>4. QED BY <2>1, <2>10, <4>1, <4>3
    <3>3. QED BY <3>1, <3>2
  <2>13. ToHex(s) = f /\ 2 * (n + 1) = 2 * n + 2
    BY <2>9, <2>10, <2>11
  <2>14. IsHex(s, f)
    BY <2>11, <2>12, <2>13 DEF IsHex
  <2>15. QED BY <2>13, <2>14
<1> HIDE DEF S
<1>4. PICK k \in Nat : k = Len(w)
  BY DEF Text
<1>5. k \in S
  BY <1>2, <1>3, Induction
<1>6. QED BY <1>4, <1>5 DEF S

\* What goes down as digits comes back.
LEMMA FromHexBack ==
    ASSUME NEW w \in Text
    PROVE  FromHex(ToHex(w)) = {w}
<1>1. PICK n \in Nat : n = Len(w)
  BY DEF Text
<1>2. PICK hex \in Seq(Nat) : /\ hex = ToHex(w) /\ Len(hex) = 2 * n
                              /\ \A i \in 1..n : hex[2 * i - 1] = w[i] \div 16 /\ hex[2 * i] = w[i] % 16
  BY <1>1, ToHexIs DEF IsHex
<1>3. ~(Len(hex) % 2 = 1) /\ Len(hex) \div 2 = n
  BY <1>2
<1>4. ASSUME NEW i \in 1..n
      PROVE  16 * hex[2 * i - 1] + hex[2 * i] = w[i]
  <2>1. w[i] \in Byte
    BY <1>1 DEF Text
  <2>2. PICK q, r \in Nat : q = w[i] \div 16 /\ r = w[i] % 16 /\ 16 * q + r = w[i]
    BY <2>1, DigitsOf
  <2>3. hex[2 * i - 1] = q /\ hex[2 * i] = r
    BY <1>2, <2>2
  <2>4. PICK high \in Nat, low \in Nat : high = hex[2 * i - 1] /\ low = hex[2 * i]
    BY <2>3
  <2>5. 16 * high + low = w[i]
    BY <2>2, <2>3, <2>4
  <2>6. QED BY <2>4, <2>5
<1>5. w = [i \in 1..n |-> w[i]]
  BY <1>1 DEF Text
<1>6. [i \in 1..n |-> 16 * hex[2 * i - 1] + hex[2 * i]] = w
  BY <1>4, <1>5
<1>7. FromHex(hex) = {[i \in 1..n |-> 16 * hex[2 * i - 1] + hex[2 * i]]}
  BY <1>3 DEF FromHex
<1>8. QED BY <1>2, <1>6, <1>7

-----------------------------------------------------------------------------
(* The mark, and what the host answers.                                    *)

\* Marked, by the first two bytes.
MarkedBy(encoding, w) ==
    /\ Wide(encoding)
    /\ Len(w) >= 2
    /\ w[1] = Mark(encoding)[1] /\ w[2] = Mark(encoding)[2]

\* A marked text by its first two bytes.
LEMMA MarkedIs ==
    ASSUME NEW encoding, NEW w \in Text
    PROVE  Marked(encoding, w) <=> MarkedBy(encoding, w)
<1>1. Len(w) \in Nat
  BY DEF Text
<1>2. CASE Wide(encoding)
  <2>1. PICK a \in Byte, b \in Byte : Mark(encoding) = <<a, b>>
    <3>1. 254 \in Byte /\ 255 \in Byte
      BY SMT DEF Byte
    <3>2. CASE encoding = "UTF-16LE"
      BY <3>1, <3>2 DEF Mark
    <3>3. CASE encoding = "UTF-16BE"
      BY <3>1, <3>3 DEF Mark
    <3>4. QED BY <1>2, <3>2, <3>3 DEF Wide
  <2>2. PICK m \in Text : m = <<a, b>> /\ Len(m) = 2 /\ m[1] = a /\ m[2] = b
    <3>1. <<a, b>> \in Seq(Byte) /\ Len(<<a, b>>) = 2 /\ <<a, b>>[1] = a /\ <<a, b>>[2] = b
      OBVIOUS
    <3>2. QED BY <3>1 DEF Text
  <2>3. m # <<>> /\ SubSeq(m, 1, 2) = m
    <3>1. m # <<>>
      BY <2>2
    <3>2. SubSeq(m, 1, Len(m)) = m
      BY SubSeqFull DEF Text
    <3>3. QED BY <2>2, <3>1, <3>2
  <2>4. CASE Len(w) >= 2
    <3>1. PICK s \in Text : s = SubSeq(w, 1, 2) /\ Len(s) = 2 /\ s[1] = w[1] /\ s[2] = w[2]
      <4>1. /\ SubSeq(w, 1, 2) \in Text /\ Len(SubSeq(w, 1, 2)) = 2
            /\ SubSeq(w, 1, 2)[1] = w[1] /\ SubSeq(w, 1, 2)[2] = w[2]
        BY <1>1, <2>4 DEF Text
      <4>2. QED BY <4>1
    <3>2. m = s <=> m[1] = s[1] /\ m[2] = s[2]
      <4>1. \A i \in 1..2 : i = 1 \/ i = 2
        OBVIOUS
      <4>2. ASSUME m[1] = s[1], m[2] = s[2]
            PROVE  m = s
        <5>1. Len(m) = Len(s) /\ \A i \in 1..Len(m) : m[i] = s[i]
          BY <2>2, <3>1, <4>1, <4>2
        <5>2. QED BY <5>1, TextsEqual
      <4>3. QED BY <4>2
    <3>3. Marked(encoding, w) <=> SubSeq(m, 1, 2) = SubSeq(w, 1, 2)
      BY <2>1, <2>2, <2>3, <2>4 DEF Marked, IsPrefix
    <3>4. QED BY <1>2, <2>1, <2>2, <2>3, <2>4, <3>1, <3>2, <3>3 DEF MarkedBy
  <2>5. CASE ~(Len(w) >= 2)
    <3>1. ~(Len(m) <= Len(w))
      BY <1>1, <2>2, <2>5
    <3>2. QED BY <2>1, <2>2, <2>5, <3>1 DEF Marked, IsPrefix, MarkedBy
  <2>6. QED BY <2>4, <2>5
<1>3. CASE ~Wide(encoding)
  <2>1. Mark(encoding) = <<>>
    BY <1>3 DEF Mark, Wide
  <2>2. QED BY <1>3, <2>1 DEF Marked, MarkedBy
<1>4. QED BY <1>2, <1>3

\* The mark is a character of its own.
LEMMA MarkFirst ==
    ASSUME NEW encoding, NEW w \in Text, Marked(encoding, w)
    PROVE  /\ Wide(encoding) /\ Len(w) >= 2
           /\ First(encoding, w) = [size |-> 2, point |-> {BOM}]
<1>1. MarkedBy(encoding, w)
  BY MarkedIs
<1>2. PICK n \in Nat, u \in Nat, v \in Nat : UnitIs(w, encoding, n, u, v)
  BY Units
<1>3. n = Len(w) /\ n >= 2 /\ u = Unit(encoding, w[1], w[2]) /\ Wide(encoding)
  BY <1>1, <1>2 DEF UnitIs, MarkedBy
<1>4. u = 65279
  <2>1. CASE encoding = "UTF-16LE"
    <3>1. Mark(encoding) = <<255, 254>>
      BY <2>1 DEF Mark
    <3>2. w[1] = 255 /\ w[2] = 254
      BY <1>1, <3>1 DEF MarkedBy
    <3>3. u = 255 + 256 * 254
      BY <1>3, <2>1, <3>2 DEF Unit
    <3>4. QED BY <3>3
  <2>2. CASE encoding = "UTF-16BE"
    <3>1. Mark(encoding) = <<254, 255>>
      BY <2>2 DEF Mark
    <3>2. w[1] = 254 /\ w[2] = 255
      BY <1>1, <3>1 DEF MarkedBy
    <3>3. u = 256 * 254 + 255
      BY <1>3, <2>2, <3>2 DEF Unit
    <3>4. QED BY <3>3
  <2>3. QED BY <1>3, <2>1, <2>2 DEF Wide
<1>5. u \notin Lows /\ u \notin Highs
  <2>1. /\ u \in Lows <=> 56320 <= u /\ u <= 57343
        /\ u \in Highs <=> 55296 <= u /\ u <= 56319
    BY HighsLows
  <2>2. ~(u <= 57343) /\ ~(u <= 56319)
    BY <1>4, SMT
  <2>3. QED BY <2>1, <2>2
<1>6. First16(encoding, w) = [size |-> 2, point |-> {u}]
  <2>1. Wide16(First16(encoding, w), n, u, v)
    BY <1>2, First16Is
  <2>2. QED BY <1>3, <1>5, <2>1 DEF Wide16
<1>7. First(encoding, w) = First16(encoding, w)
  BY <1>3, FirstOf
<1>8. QED BY <1>3, <1>4, <1>6, <1>7 DEF BOM

\* What a call that throws nothing returns.
Answer(encoding, w) ==
    LET points == Replaced(LegacyPieces(encoding, w))
    IN  IF ~ignoreBOM /\ Marked(encoding, w) THEN Tail(points) ELSE points

\* The first piece put before others, and dropped from what they are decoded
\* to.
LEMMA Untailed ==
    ASSUME NEW p \in Piece, NEW q \in Seq(Piece)
    PROVE  /\ Replaced(<<p>> \o q) = <<PointFor(p)>> \o Replaced(q)
           /\ Tail(Replaced(<<p>> \o q)) = Replaced(q)
<1>1. PICK one \in Seq(Piece) : one = <<p>> /\ Len(one) = 1 /\ one[1] = p
  <2>1. <<p>> \in Seq(Piece) /\ Len(<<p>>) = 1 /\ <<p>>[1] = p
    OBVIOUS
  <2>2. QED BY <2>1
<1>2. Replaced(one) = <<PointFor(p)>>
  <2>1. /\ Replaced(one) \in Seq(Nat)
        /\ Len(Replaced(one)) = Len(one)
        /\ \A i \in 1..Len(one) : Replaced(one)[i] = PointFor(one[i])
    BY ReplacedIs
  <2>2. Len(Replaced(one)) = 1 /\ Replaced(one)[1] = PointFor(p)
    BY <1>1, <2>1
  <2>3. PICK r \in Seq(Nat) : r = Replaced(one) /\ Len(r) = 1 /\ r[1] = PointFor(p)
    BY <2>1, <2>2
  <2>4. r = <<r[1]>>
    BY <2>3
  <2>5. QED BY <2>3, <2>4
<1>3. Replaced(one \o q) = Replaced(one) \o Replaced(q)
  BY ReplacedConcat
<1>4. PICK n \in Nat, s \in Seq(Nat) : n = PointFor(p) /\ s = Replaced(q)
  BY PointForNat, ReplacedIs
<1>5. Tail(<<n>> \o s) = s
  <2>1. <<n>> \o s \in Seq(Nat) /\ Len(<<n>> \o s) = Len(s) + 1 /\ \A i \in 1..Len(s) :
           (<<n>> \o s)[i + 1] = s[i]
    BY Consed
  <2>2. PICK t \in Seq(Nat) : t = <<n>> \o s /\ Len(t) = Len(s) + 1 /\ \A i \in 1..Len(s) :
           t[i + 1] = s[i]
    BY <2>1
  <2>3. t # <<>>
    BY <2>2
  <2>4. PICK u \in Seq(Nat) : u = Tail(t) /\ Len(u) = Len(t) - 1 /\ \A i \in 1..Len(u) : u[i] = t[i + 1]
    BY <2>3, HeadTailProperties
  <2>5. Len(u) = Len(s) /\ \A i \in 1..Len(u) : u[i] = s[i]
    BY <2>2, <2>4
  <2>6. u = s
    BY <2>5, SeqEqual
  <2>7. QED BY <2>2, <2>4, <2>6
<1>6. QED BY <1>1, <1>2, <1>3, <1>4, <1>5

\* A chunk without its mark is malformed when the chunk is, and decoded to
\* what the chunk is but for the mark.
LEMMA BareParts ==
    ASSUME NEW encoding, NEW w \in Text
    PROVE  /\ IsMalformed(LegacyPieces(encoding, Bare(encoding, w))) <=>
             IsMalformed(LegacyPieces(encoding, w))
           /\ Replaced(LegacyPieces(encoding, Bare(encoding, w))) = Answer(encoding, w)
           /\ Answer(encoding, w) \in Seq(Nat)
           /\ IsMalformed(LegacyPieces(encoding, w)) =>
                 \E i \in DOMAIN Answer(encoding, w) : Answer(encoding, w)[i] = REPLACEMENT
<1>1. CASE Marked(encoding, w) /\ ~ignoreBOM
  <2>1. First(encoding, w) = [size |-> 2, point |-> {BOM}] /\ Len(w) >= 2
    BY <1>1, MarkFirst
  <2>2. w # <<>> /\ Len(w) \in Nat
    BY <2>1 DEF Text
  <2>3. PICK p, t : Peels(encoding, w, p, t)
    BY <2>2, Peel
  <2>4. p = [size |-> 2, point |-> {BOM}] /\ p \in Piece /\ t = After(w, p.size) /\ t \in Text
    BY <2>1, <2>3 DEF Peels
  <2>5. t = After(w, 2) /\ p.point # {}
    BY <2>4
  <2>6. Bare(encoding, w) = t
    <3>1. Bare(encoding, w) = SubSeq(w, 3, Len(w))
      BY <1>1 DEF Bare
    <3>2. 2 + 1 = 3
      OBVIOUS
    <3>3. QED BY <2>5, <3>1, <3>2 DEF After
  <2>7. PICK q \in Seq(Piece) : q = LegacyPieces(encoding, t)
    BY <2>4, LegacyIn
  <2>8. LegacyPieces(encoding, w) = <<p>> \o q
    BY <2>3, <2>7 DEF Peels
  <2>9. IsMalformed(<<p>> \o q) <=> IsMalformed(q)
    <3>1. <<p>> \in Seq(Piece)
      BY <2>4
    <3>2. IsMalformed(<<p>> \o q) <=> IsMalformed(<<p>>) \/ IsMalformed(q)
      BY <3>1, MalformedConcat
    <3>3. IsMalformed(<<p>>) <=> p.point = {}
      BY MalformedOne
    <3>4. QED BY <2>5, <3>2, <3>3
  <2>10. Tail(Replaced(<<p>> \o q)) = Replaced(q)
    BY <2>4, Untailed
  <2>11. Answer(encoding, w) = Replaced(q)
    BY <1>1, <2>8, <2>10 DEF Answer
  <2>12. Replaced(q) \in Seq(Nat) /\ (IsMalformed(q) => \E i \in DOMAIN Replaced(q) :
           Replaced(q)[i] = REPLACEMENT)
    BY ReplacedIs, MalformedShows
  <2>13. QED BY <2>6, <2>7, <2>8, <2>9, <2>11, <2>12
<1>2. CASE ~(Marked(encoding, w) /\ ~ignoreBOM)
  <2>1. Bare(encoding, w) = w
    BY <1>2 DEF Bare
  <2>2. PICK q \in Seq(Piece) : q = LegacyPieces(encoding, w)
    BY LegacyIn
  <2>3. Answer(encoding, w) = Replaced(q)
    BY <1>2, <2>2 DEF Answer
  <2>4. Replaced(q) \in Seq(Nat) /\ (IsMalformed(q) => \E i \in DOMAIN Replaced(q) :
           Replaced(q)[i] = REPLACEMENT)
    BY ReplacedIs, MalformedShows
  <2>5. QED BY <2>1, <2>2, <2>3, <2>4
<1>3. QED BY <1>1, <1>2

\* What the host returns for a chunk, or {} when a fatal decoder throws.
LEMMA Decoded ==
    ASSUME NEW encoding, NEW w \in Text
    PROVE  NativeDecode(encoding, ToHex(w)) =
              IF fatal /\ IsMalformed(LegacyPieces(encoding, w)) THEN {} ELSE {Answer(encoding, w)}
<1>1. FromHex(ToHex(w)) = {w}
  BY FromHexBack
<1>2. PICK bad : bad = (fatal /\ IsMalformed(LegacyPieces(encoding, Bare(encoding, w))))
  OBVIOUS
<1>3. NativeDecode(encoding, ToHex(w)) =
        {Replaced(LegacyPieces(encoding, Bare(encoding, b))) :
           b \in {a \in {w} : ~(fatal /\ IsMalformed(LegacyPieces(encoding, Bare(encoding, a))))}}
  BY <1>1 DEF NativeDecode
<1>4. CASE fatal /\ IsMalformed(LegacyPieces(encoding, Bare(encoding, w)))
  <2>1. {a \in {w} : ~(fatal /\ IsMalformed(LegacyPieces(encoding, Bare(encoding, a))))} = {}
    BY <1>4
  <2>2. NativeDecode(encoding, ToHex(w)) = {}
    BY <1>3, <2>1
  <2>3. QED BY <1>4, <2>2, BareParts
<1>5. CASE ~(fatal /\ IsMalformed(LegacyPieces(encoding, Bare(encoding, w))))
  <2>1. {a \in {w} : ~(fatal /\ IsMalformed(LegacyPieces(encoding, Bare(encoding, a))))} = {w}
    BY <1>5
  <2>2. NativeDecode(encoding, ToHex(w)) = {Replaced(LegacyPieces(encoding, Bare(encoding, w)))}
    BY <1>3, <2>1
  <2>3. QED BY <1>5, <2>2, BareParts
<1>6. QED BY <1>4, <1>5

-----------------------------------------------------------------------------
(* The chunks of a stream and what its calls returned.                     *)

\* Cuts, Returns and Threw of any chunks and texts.
CutsOf(cs) == {Len(FlattenSeq(SubSeq(cs, 1, k))) : k \in DOMAIN cs}

\* A chunk more leaves the chunks before it.
LEMMA FirstOnes ==
    ASSUME NEW cs \in Seq(Text), NEW c \in Text, NEW k \in 1..Len(cs)
    PROVE  SubSeq(Append(cs, c), 1, k) = SubSeq(cs, 1, k)
<1>1. PICK n \in Nat : n = Len(cs) /\ k <= n
  OBVIOUS
<1>2. PICK all \in Seq(Text) : all = Append(cs, c) /\ Len(all) = n + 1 /\ \A i \in 1..n : all[i] = cs[i]
  <2>1. /\ Append(cs, c) \in Seq(Text) /\ Len(Append(cs, c)) = Len(cs) + 1
        /\ \A i \in 1..Len(cs) : Append(cs, c)[i] = cs[i]
    BY AppendProperties
  <2>2. QED BY <1>1, <2>1
<1>3. PICK a \in Seq(Text) : a = SubSeq(all, 1, k) /\ Len(a) = k /\ \A i \in 1..k : a[i] = all[i]
  <2>1. \A i \in 1..k : all[i] \in Text
    BY <1>1, <1>2
  <2>2. /\ SubSeq(all, 1, k) \in Seq(Text)
        /\ Len(SubSeq(all, 1, k)) = (IF 1 <= k THEN k - 1 + 1 ELSE 0)
        /\ \A i \in 1..k - 1 + 1 : SubSeq(all, 1, k)[i] = all[1 + i - 1]
    BY <2>1, SubSeqProperties
  <2>3. k - 1 + 1 = k /\ 1 <= k /\ \A i \in 1..k : 1 + i - 1 = i
    OBVIOUS
  <2>4. Len(SubSeq(all, 1, k)) = k /\ \A i \in 1..k : SubSeq(all, 1, k)[i] = all[i]
    BY <2>2, <2>3
  <2>5. QED BY <2>2, <2>4
<1>4. PICK b \in Seq(Text) : b = SubSeq(cs, 1, k) /\ Len(b) = k /\ \A i \in 1..k : b[i] = cs[i]
  <2>1. \A i \in 1..k : cs[i] \in Text
    BY <1>1
  <2>2. /\ SubSeq(cs, 1, k) \in Seq(Text)
        /\ Len(SubSeq(cs, 1, k)) = (IF 1 <= k THEN k - 1 + 1 ELSE 0)
        /\ \A i \in 1..k - 1 + 1 : SubSeq(cs, 1, k)[i] = cs[1 + i - 1]
    BY <2>1, SubSeqProperties
  <2>3. k - 1 + 1 = k /\ 1 <= k /\ \A i \in 1..k : 1 + i - 1 = i
    OBVIOUS
  <2>4. Len(SubSeq(cs, 1, k)) = k /\ \A i \in 1..k : SubSeq(cs, 1, k)[i] = cs[i]
    BY <2>2, <2>3
  <2>5. QED BY <2>2, <2>4
<1>5. \A i \in 1..k : a[i] = b[i]
  BY <1>1, <1>2, <1>3, <1>4
<1>6. a = b
  BY <1>3, <1>4, <1>5, SeqEqual
<1>7. QED BY <1>2, <1>3, <1>4, <1>6

\* A chunk more is put after the whole.
LEMMA WholeAppend ==
    ASSUME NEW cs \in Seq(Text), NEW c \in Text
    PROVE  /\ FlattenSeq(cs) \in Text
           /\ FlattenSeq(Append(cs, c)) = FlattenSeq(cs) \o c
           /\ FlattenSeq(cs) \o c \in Text
           /\ Len(FlattenSeq(cs) \o c) = Len(FlattenSeq(cs)) + Len(c)
<1>1. cs \in Seq(Seq(Byte)) /\ c \in Seq(Byte)
  BY DEF Text
<1>2. FlattenSeq(cs) \in Seq(Byte)
  BY <1>1, FlattenIs
<1>3. FlattenSeq(Append(cs, c)) = FlattenSeq(cs) \o c
  BY <1>1, FlattenAppend
<1>4. FlattenSeq(cs) \o c \in Seq(Byte) /\ Len(FlattenSeq(cs) \o c) = Len(FlattenSeq(cs)) + Len(c)
  BY <1>1, <1>2, ConcatProperties
<1>5. QED BY <1>2, <1>3, <1>4 DEF Text

\* It is one cut more, at the new end.
LEMMA CutsAppend ==
    ASSUME NEW cs \in Seq(Text), NEW c \in Text
    PROVE  CutsOf(Append(cs, c)) = CutsOf(cs) \cup {Len(FlattenSeq(cs) \o c)}
<1>1. PICK n \in Nat : n = Len(cs) /\ DOMAIN cs = 1..n
  OBVIOUS
<1>2. PICK all \in Seq(Text) : all = Append(cs, c) /\ Len(all) = n + 1 /\ DOMAIN all = 1..n + 1
  <2>1. Append(cs, c) \in Seq(Text) /\ Len(Append(cs, c)) = Len(cs) + 1
    BY AppendProperties
  <2>2. DOMAIN Append(cs, c) = 1..Len(cs) + 1
    BY <2>1
  <2>3. QED BY <1>1, <2>1, <2>2
<1>3. SubSeq(all, 1, n + 1) = all
  <2>1. SubSeq(all, 1, Len(all)) = all
    BY SubSeqFull
  <2>2. QED BY <1>2, <2>1
<1>4. \A k \in 1..n : SubSeq(all, 1, k) = SubSeq(cs, 1, k)
  BY <1>1, <1>2, FirstOnes
<1>5. FlattenSeq(all) = FlattenSeq(cs) \o c
  BY <1>2, WholeAppend
<1>6. n + 1 \in 1..n + 1 /\ 1..n + 1 = 1..n \cup {n + 1}
  OBVIOUS
<1>7. CutsOf(all) = {Len(FlattenSeq(SubSeq(all, 1, k))) : k \in 1..n + 1}
  BY <1>2 DEF CutsOf
<1>8. CutsOf(cs) = {Len(FlattenSeq(SubSeq(cs, 1, k))) : k \in 1..n}
  BY <1>1 DEF CutsOf
<1> DEFINE At(k) == Len(FlattenSeq(SubSeq(all, 1, k)))
<1>9. CutsOf(all) = {At(k) : k \in 1..n} \cup {At(n + 1)}
  <2>1. CutsOf(all) = {At(k) : k \in 1..n + 1}
    BY <1>7
  <2> HIDE DEF At
  <2>2. QED BY <1>6, <2>1
<1>10. {At(k) : k \in 1..n} = CutsOf(cs)
  BY <1>4, <1>8
<1>11. At(n + 1) = Len(FlattenSeq(cs) \o c)
  BY <1>3, <1>5
<1> HIDE DEF At
<1>12. QED BY <1>2, <1>9, <1>10, <1>11

\* The cuts lie within the stream, and its end is one; a stream that is not
\* empty has a chunk that is not.
CutsIn(cs) ==
    /\ CutsOf(cs) \subseteq 0..Len(FlattenSeq(cs))
    /\ FlattenSeq(cs) = <<>> \/ Len(FlattenSeq(cs)) \in CutsOf(cs)
    /\ FlattenSeq(cs) = <<>> \/ \E k \in DOMAIN cs : cs[k] # <<>>

\* The cuts stay within the stream.
LEMMA CutsInAppend ==
    ASSUME NEW cs \in Seq(Text), NEW c \in Text, CutsIn(cs)
    PROVE  CutsIn(Append(cs, c))
<1>1. PICK w \in Text : w = FlattenSeq(cs)
  BY WholeAppend
<1>2. PICK m \in Nat, h \in Nat : m = Len(w) /\ h = Len(c)
  BY DEF Text
<1>3. FlattenSeq(Append(cs, c)) = w \o c /\ w \o c \in Text /\ Len(w \o c) = m + h
  BY <1>1, <1>2, WholeAppend
<1>4. CutsOf(Append(cs, c)) = CutsOf(cs) \cup {m + h}
  BY <1>1, <1>3, CutsAppend
<1>5. CutsOf(cs) \subseteq 0..m
  BY <1>1, <1>2 DEF CutsIn
<1>6. CutsOf(Append(cs, c)) \subseteq 0..m + h
  <2>1. 0..m \subseteq 0..m + h /\ m + h \in 0..m + h
    OBVIOUS
  <2>2. QED BY <1>4, <1>5, <2>1
<1>7. w \o c = <<>> \/ \E k \in DOMAIN Append(cs, c) : Append(cs, c)[k] # <<>>
  <2>1. PICK n \in Nat : n = Len(cs) /\ DOMAIN cs = 1..n
    OBVIOUS
  <2>2. /\ DOMAIN Append(cs, c) = 1..n + 1
        /\ \A i \in 1..n : Append(cs, c)[i] = cs[i]
        /\ Append(cs, c)[n + 1] = c
    <3>1. /\ Append(cs, c) \in Seq(Text) /\ Len(Append(cs, c)) = Len(cs) + 1
          /\ \A i \in 1..Len(cs) : Append(cs, c)[i] = cs[i]
          /\ Append(cs, c)[Len(cs) + 1] = c
      BY AppendProperties
    <3>2. DOMAIN Append(cs, c) = 1..Len(cs) + 1
      BY <3>1
    <3>3. QED BY <2>1, <3>1, <3>2
  <2>3. CASE w = <<>>
    <3>1. w \o c = c
      BY <2>3 DEF Text
    <3>2. n + 1 \in DOMAIN Append(cs, c)
      BY <2>2
    <3>3. QED BY <2>2, <3>1, <3>2
  <2>4. CASE w # <<>>
    <3>1. PICK k \in 1..n : cs[k] # <<>>
      BY <1>1, <2>1, <2>4 DEF CutsIn
    <3>2. k \in 1..n + 1
      OBVIOUS
    <3>3. QED BY <2>2, <3>1, <3>2
  <2>5. QED BY <2>3, <2>4
<1>8. m + h \in CutsOf(Append(cs, c))
  BY <1>4
<1>9. QED BY <1>3, <1>6, <1>7, <1>8 DEF CutsIn

\* Cuts between the pieces of the whole are cuts between those of its parts.
LEMMA CutsTogether ==
    ASSUME NEW encoding, NEW x \in Text, NEW y \in Text, NEW D, D \subseteq 0..Len(x)
    PROVE  LET p == LegacyPieces(encoding, x)
               q == LegacyPieces(encoding, y)
               all == LegacyPieces(encoding, x \o y)
           IN  /\ Len(x) \in Ends(all) /\ D \subseteq Ends(all) => all = p \o q /\ D \subseteq Ends(p)
               /\ all = p \o q /\ D \subseteq Ends(p) => D \subseteq Ends(all)
<1>1. PICK m \in Nat : m = Len(x)
  BY DEF Text
<1>2. PICK p \in Seq(Piece), q \in Seq(Piece) : p = LegacyPieces(encoding, x) /\ q =
         LegacyPieces(encoding, y)
  BY LegacyIn
<1>3. m \in Ends(p)
  BY <1>1, <1>2, EndsWithin
<1>4. ASSUME NEW d \in 0..m
      PROVE  d \in Ends(p \o q) <=> d \in Ends(p)
  <2>1. d \in Nat
    BY <1>4
  <2>2. d \in Ends(p \o q) <=> d \in Ends(p) \/ (d >= m /\ d - m \in Ends(q))
    BY <1>1, <1>2, <2>1, EndsParts
  <2>3. d >= m => d = m
    BY <1>4
  <2>4. QED BY <1>3, <2>2, <2>3
<1>5. ASSUME m \in Ends(LegacyPieces(encoding, x \o y))
      PROVE  LegacyPieces(encoding, x \o y) = p \o q
  BY <1>1, <1>2, <1>5, CutParts
<1>6. QED BY <1>1, <1>2, <1>4, <1>5

(* What the calls returned. *)

\* What one call contributes.
ValueOf(text) == IF text = {} THEN <<>> ELSE CHOOSE t \in text : TRUE

ReturnsOf(ts) == FlattenSeq([k \in DOMAIN ts |-> ValueOf(ts[k])])

ThrewIn(ts) == \E k \in DOMAIN ts : ts[k] = {}

\* A call more is returned after the others, and the stream threw when it did
\* or one of them.
LEMMA ReturnsAppend ==
    ASSUME NEW ts \in Seq(SUBSET Seq(Nat)), NEW text \in SUBSET Seq(Nat)
    PROVE  /\ ReturnsOf(ts) \in Seq(Nat)
           /\ ValueOf(text) \in Seq(Nat)
           /\ ReturnsOf(Append(ts, text)) = ReturnsOf(ts) \o ValueOf(text)
           /\ ThrewIn(Append(ts, text)) <=> ThrewIn(ts) \/ text = {}
<1>1. PICK n \in Nat : n = Len(ts) /\ DOMAIN ts = 1..n
  OBVIOUS
<1>2. PICK all \in Seq(SUBSET Seq(Nat)) : /\ all = Append(ts, text) /\ Len(all) = n + 1
                                          /\ DOMAIN all = 1..n + 1
                                          /\ all[n + 1] = text /\ \A i \in 1..n : all[i] = ts[i]
  <2>1. /\ Append(ts, text) \in Seq(SUBSET Seq(Nat)) /\ Len(Append(ts, text)) = Len(ts) + 1
        /\ Append(ts, text)[Len(ts) + 1] = text /\ \A i \in 1..Len(ts) : Append(ts, text)[i] = ts[i]
    BY AppendProperties
  <2>2. DOMAIN Append(ts, text) = 1..Len(ts) + 1
    BY <2>1
  <2>3. QED BY <1>1, <2>1, <2>2
<1>3. \A v \in SUBSET Seq(Nat) : ValueOf(v) \in Seq(Nat)
  <2> TAKE v \in SUBSET Seq(Nat)
  <2>1. CASE v = {}
    BY <2>1 DEF ValueOf
  <2>2. CASE v # {}
    <3>1. (CHOOSE t \in v : TRUE) \in v
      BY <2>2
    <3>2. QED BY <2>2, <3>1 DEF ValueOf
  <2>3. QED BY <2>1, <2>2
<1>4. PICK g \in Seq(Seq(Nat)) : g = [k \in 1..n |-> ValueOf(ts[k])] /\ Len(g) = n /\
         \A i \in 1..n : g[i] = ValueOf(ts[i])
  <2>1. \A i \in 1..n : ValueOf(ts[i]) \in Seq(Nat)
    BY <1>1, <1>3
  <2>2. PICK f : f = [k \in 1..n |-> ValueOf(ts[k])]
    OBVIOUS
  <2>3. f \in [1..n -> Seq(Nat)]
    BY <2>1, <2>2
  <2>4. f \in Seq(Seq(Nat)) /\ Len(f) = n
    BY <2>2, <2>3
  <2>5. QED BY <2>2, <2>4
<1>5. PICK h \in Seq(Seq(Nat)) : h = [k \in 1..n + 1 |-> ValueOf(all[k])] /\ Len(h) = n + 1 /\
         \A i \in 1..n + 1 : h[i] = ValueOf(all[i])
  <2>1. \A i \in 1..n + 1 : ValueOf(all[i]) \in Seq(Nat)
    BY <1>2, <1>3
  <2>2. PICK f : f = [k \in 1..n + 1 |-> ValueOf(all[k])]
    OBVIOUS
  <2>3. f \in [1..n + 1 -> Seq(Nat)]
    BY <2>1, <2>2
  <2>4. f \in Seq(Seq(Nat)) /\ Len(f) = n + 1
    BY <2>2, <2>3
  <2>5. QED BY <2>2, <2>4
<1>6. ValueOf(text) \in Seq(Nat)
  BY <1>3
<1>7. PICK a \in Seq(Seq(Nat)) : /\ a = Append(g, ValueOf(text)) /\ Len(a) = n + 1
                                 /\ a[n + 1] = ValueOf(text) /\ \A i \in 1..n : a[i] = g[i]
  <2>1. /\ Append(g, ValueOf(text)) \in Seq(Seq(Nat)) /\ Len(Append(g, ValueOf(text))) = Len(g) + 1
        /\ Append(g, ValueOf(text))[Len(g) + 1] = ValueOf(text)
        /\ \A i \in 1..Len(g) : Append(g, ValueOf(text))[i] = g[i]
    BY <1>6, AppendProperties
  <2>2. QED BY <1>4, <2>1
<1>8. ASSUME NEW i \in 1..n + 1
      PROVE  a[i] = h[i]
  <2>1. CASE i = n + 1
    BY <1>2, <1>5, <1>7, <2>1
  <2>2. CASE i # n + 1
    <3>1. i \in 1..n
      BY <2>2
    <3>2. a[i] = g[i] /\ all[i] = ts[i]
      BY <1>2, <1>7, <3>1
    <3>3. g[i] = ValueOf(ts[i]) /\ h[i] = ValueOf(all[i])
      BY <1>4, <1>5, <3>1
    <3>4. QED BY <3>2, <3>3
  <2>3. QED BY <2>1, <2>2
<1>9. a = h
  BY <1>5, <1>7, <1>8, SeqEqual
<1>10. FlattenSeq(Append(g, ValueOf(text))) = FlattenSeq(g) \o ValueOf(text)
  BY <1>6, FlattenAppend
<1>11. ReturnsOf(ts) = FlattenSeq(g) /\ ReturnsOf(all) = FlattenSeq(h)
  BY <1>1, <1>2, <1>4, <1>5 DEF ReturnsOf
<1>12. FlattenSeq(g) \in Seq(Nat)
  BY FlattenIs
<1>13. ThrewIn(all) <=> ThrewIn(ts) \/ text = {}
  <2>1. ASSUME ThrewIn(all) PROVE ThrewIn(ts) \/ text = {}
    <3>1. PICK k \in 1..n + 1 : all[k] = {}
      BY <1>2, <2>1 DEF ThrewIn
    <3>2. CASE k = n + 1
      BY <1>2, <3>1, <3>2
    <3>3. CASE k # n + 1
      <4>1. k \in 1..n
        BY <3>3
      <4>2. QED BY <1>1, <1>2, <3>1, <4>1 DEF ThrewIn
    <3>4. QED BY <3>2, <3>3
  <2>2. ASSUME ThrewIn(ts) PROVE ThrewIn(all)
    <3>1. PICK k \in 1..n : ts[k] = {}
      BY <1>1, <2>2 DEF ThrewIn
    <3>2. k \in 1..n + 1 /\ all[k] = {}
      BY <1>2, <3>1
    <3>3. QED BY <1>2, <3>2 DEF ThrewIn
  <2>3. ASSUME text = {} PROVE ThrewIn(all)
    <3>1. n + 1 \in 1..n + 1
      OBVIOUS
    <3>2. QED BY <1>2, <2>3, <3>1 DEF ThrewIn
  <2>4. QED BY <2>1, <2>2, <2>3
<1>14. QED BY <1>2, <1>6, <1>7, <1>9, <1>10, <1>11, <1>12, <1>13

-----------------------------------------------------------------------------
(* The invariant of a stream, and a chunk more.                            *)

\* A chunk is malformed by itself.
ChunkMalformed(encoding, cs) == \E k \in DOMAIN cs : IsMalformed(LegacyPieces(encoding, cs[k]))

\* None but the first chunk with anything in it begins with the mark.
MarksFirst(encoding, cs) ==
    \A k \in DOMAIN cs : Marked(encoding, cs[k]) => ignoreBOM \/ \A j \in 1..k - 1 : cs[j] = <<>>

\* How the calls so far relate to the whole: what threw, what was malformed, and, when
\* nothing did and the cuts are between characters, what was returned.
Streamed(encoding, cs, ts) ==
    LET whole == FlattenSeq(cs)
        pieces == LegacyPieces(encoding, whole)
    IN  /\ ThrewIn(ts) <=> fatal /\ ChunkMalformed(encoding, cs)
        /\ ChunkMalformed(encoding, cs) <=> IsMalformed(pieces) \/ ~(CutsOf(cs) \subseteq Ends(pieces))
        /\ ~fatal /\ ChunkMalformed(encoding, cs) => \E i \in DOMAIN ReturnsOf(ts) :
                 ReturnsOf(ts)[i] = REPLACEMENT
        /\ ~ThrewIn(ts) /\ CutsOf(cs) \subseteq Ends(pieces) /\ MarksFirst(encoding, cs)
              => ReturnsOf(ts) = Answer(encoding, whole)

\* A chunk is malformed when one of the earlier ones is, or the new one.
LEMMA ChunkMalformedAppend ==
    ASSUME NEW encoding, NEW cs \in Seq(Text), NEW c \in Text
    PROVE  ChunkMalformed(encoding, Append(cs, c))
              <=> ChunkMalformed(encoding, cs) \/ IsMalformed(LegacyPieces(encoding, c))
<1>1. PICK n \in Nat : n = Len(cs) /\ DOMAIN cs = 1..n
  OBVIOUS
<1>2. PICK all : all = Append(cs, c)
  OBVIOUS
<1>3. DOMAIN all = 1..n + 1 /\ all[n + 1] = c /\ \A i \in 1..n : all[i] = cs[i]
  <2>1. /\ Append(cs, c) \in Seq(Text) /\ Len(Append(cs, c)) = Len(cs) + 1
        /\ Append(cs, c)[Len(cs) + 1] = c /\ \A i \in 1..Len(cs) : Append(cs, c)[i] = cs[i]
    BY AppendProperties
  <2>2. DOMAIN Append(cs, c) = 1..Len(cs) + 1
    BY <2>1
  <2>3. QED BY <1>1, <1>2, <2>1, <2>2
<1>4. ASSUME ChunkMalformed(encoding, all)
      PROVE  ChunkMalformed(encoding, cs) \/ IsMalformed(LegacyPieces(encoding, c))
  <2>1. PICK k \in 1..n + 1 : IsMalformed(LegacyPieces(encoding, all[k]))
    BY <1>3, <1>4 DEF ChunkMalformed
  <2>2. CASE k = n + 1
    BY <1>3, <2>1, <2>2
  <2>3. CASE k # n + 1
    <3>1. k \in 1..n
      BY <2>3
    <3>2. QED BY <1>1, <1>3, <2>1, <3>1 DEF ChunkMalformed
  <2>4. QED BY <2>2, <2>3
<1>5. ASSUME ChunkMalformed(encoding, cs)
      PROVE  ChunkMalformed(encoding, all)
  <2>1. PICK k \in 1..n : IsMalformed(LegacyPieces(encoding, cs[k]))
    BY <1>1, <1>5 DEF ChunkMalformed
  <2>2. k \in 1..n + 1 /\ all[k] = cs[k]
    BY <1>3
  <2>3. QED BY <1>3, <2>1, <2>2 DEF ChunkMalformed
<1>6. ASSUME IsMalformed(LegacyPieces(encoding, c))
      PROVE  ChunkMalformed(encoding, all)
  <2>1. n + 1 \in 1..n + 1
    OBVIOUS
  <2>2. QED BY <1>3, <1>6, <2>1 DEF ChunkMalformed
<1>7. QED BY <1>2, <1>4, <1>5, <1>6

\* The condition on the marks, for the earlier chunks and for the new one.
LEMMA MarksFirstAppend ==
    ASSUME NEW encoding, NEW cs \in Seq(Text), NEW c \in Text, MarksFirst(encoding, Append(cs, c))
    PROVE  /\ MarksFirst(encoding, cs)
           /\ Marked(encoding, c) => ignoreBOM \/ \A j \in DOMAIN cs : cs[j] = <<>>
<1>1. PICK n \in Nat : n = Len(cs) /\ DOMAIN cs = 1..n
  OBVIOUS
<1>2. PICK all : all = Append(cs, c)
  OBVIOUS
<1>3. DOMAIN all = 1..n + 1 /\ all[n + 1] = c /\ \A i \in 1..n : all[i] = cs[i]
  <2>1. /\ Append(cs, c) \in Seq(Text) /\ Len(Append(cs, c)) = Len(cs) + 1
        /\ Append(cs, c)[Len(cs) + 1] = c /\ \A i \in 1..Len(cs) : Append(cs, c)[i] = cs[i]
    BY AppendProperties
  <2>2. DOMAIN Append(cs, c) = 1..Len(cs) + 1
    BY <2>1
  <2>3. QED BY <1>1, <1>2, <2>1, <2>2
<1>4. \A k \in 1..n + 1 : Marked(encoding, all[k]) => ignoreBOM \/ \A j \in 1..k - 1 : all[j] = <<>>
  BY <1>2, <1>3 DEF MarksFirst
<1>5. ASSUME NEW k \in 1..n, Marked(encoding, cs[k])
      PROVE  ignoreBOM \/ \A j \in 1..k - 1 : cs[j] = <<>>
  <2>1. k \in 1..n + 1 /\ all[k] = cs[k]
    BY <1>3
  <2>2. ignoreBOM \/ \A j \in 1..k - 1 : all[j] = <<>>
    BY <1>4, <1>5, <2>1
  <2>3. \A j \in 1..k - 1 : j \in 1..n
    OBVIOUS
  <2>4. QED BY <1>3, <2>2, <2>3
<1>6. ASSUME Marked(encoding, c)
      PROVE  ignoreBOM \/ \A j \in 1..n : cs[j] = <<>>
  <2>1. n + 1 \in 1..n + 1 /\ n + 1 - 1 = n
    OBVIOUS
  <2>2. ignoreBOM \/ \A j \in 1..n : all[j] = <<>>
    BY <1>3, <1>4, <1>6, <2>1
  <2>3. QED BY <1>3, <2>2
<1>7. QED BY <1>1, <1>5, <1>6 DEF MarksFirst

\* What two parts decode as, the second without a mark of its own.
LEMMA AnswerParts ==
    ASSUME NEW encoding, NEW x \in Text, x # <<>>, NEW y \in Text,
           Len(x) \in Ends(LegacyPieces(encoding, x \o y)),
           LegacyPieces(encoding, x \o y) = LegacyPieces(encoding, x) \o LegacyPieces(encoding, y),
           ~Marked(encoding, y) \/ ignoreBOM
    PROVE  Answer(encoding, x \o y) = Answer(encoding, x) \o Answer(encoding, y)
<1>1. PICK z \in Text : Joins(z, x, y)
  BY JoinExists
<1>2. PICK m \in Nat, h \in Nat : m = Len(x) /\ h = Len(y) /\ m >= 1
  BY DEF Text
<1>3. z = x \o y /\ Len(z) = m + h /\ \A i \in 1..m + h : z[i] = IF i <= m THEN x[i] ELSE y[i - m]
  BY <1>1, <1>2 DEF Joins
<1>4. PICK p \in Seq(Piece), q \in Seq(Piece) : p = LegacyPieces(encoding, x) /\ q =
         LegacyPieces(encoding, y)
  BY LegacyIn
<1>5. LegacyPieces(encoding, z) = p \o q /\ Replaced(p \o q) = Replaced(p) \o Replaced(q)
  BY <1>3, <1>4, ReplacedConcat
<1>6. Answer(encoding, y) = Replaced(q)
  BY <1>4 DEF Answer
<1>7. CASE ignoreBOM
  BY <1>3, <1>4, <1>5, <1>6, <1>7 DEF Answer
<1>8. CASE ~ignoreBOM
  <2>1. Marked(encoding, z) <=> Marked(encoding, x)
    <3>1. CASE m >= 2
      <4>1. z[1] = x[1] /\ z[2] = x[2] /\ Len(z) >= 2
        <5>1. 1 \in 1..m + h /\ 1 <= m /\ 2 \in 1..m + h /\ 2 <= m /\ m + h >= 2
          BY <3>1
        <5>2. QED BY <1>3, <3>1, <5>1
      <4>2. MarkedBy(encoding, z) <=> MarkedBy(encoding, x)
        BY <1>2, <3>1, <4>1 DEF MarkedBy
      <4>3. QED BY <4>2, MarkedIs
    <3>2. CASE m = 1
      <4>1. ~Marked(encoding, x)
        <5>1. ~MarkedBy(encoding, x)
          BY <1>2, <3>2 DEF MarkedBy
        <5>2. QED BY <5>1, MarkedIs
      <4>2. ASSUME Marked(encoding, z)
            PROVE  FALSE
        <5>1. First(encoding, z) = [size |-> 2, point |-> {BOM}] /\ Len(z) >= 2
          BY <4>2, MarkFirst
        <5>2. z # <<>>
          BY <1>2, <1>3, <5>1
        <5>3. PICK f, t : Peels(encoding, z, f, t)
          BY <5>2, Peel
        <5>4. f \in Piece /\ f.size = 2 /\ t \in Text /\ LegacyPieces(encoding, z) = <<f>> \o
                 LegacyPieces(encoding, t)
          BY <5>1, <5>3 DEF Peels
        <5>5. LegacyPieces(encoding, t) \in Seq(Piece)
          BY <5>4, LegacyIn
        <5>6. 1 \in Ends(<<f>> \o LegacyPieces(encoding, t))
          BY <1>2, <1>3, <3>2, <5>4
        <5>7. 1 = 0 \/ 1 >= f.size
          BY <5>4, <5>5, <5>6, EndsAt
        <5>8. QED BY <5>4, <5>7
      <4>3. QED BY <4>1, <4>2
    <3>3. m >= 2 \/ m = 1
      BY <1>2
    <3>4. QED BY <3>1, <3>2, <3>3
  <2>2. CASE Marked(encoding, x)
    <3>1. PICK f, t : Peels(encoding, x, f, t)
      BY Peel
    <3>2. PICK r \in Seq(Piece) : r = LegacyPieces(encoding, t) /\ f \in Piece /\ p = <<f>> \o r
      BY <1>4, <3>1, LegacyIn DEF Peels
    <3>3. <<f>> \in Seq(Piece) /\ p \o q = <<f>> \o (r \o q) /\ r \o q \in Seq(Piece)
      BY <3>2, ConcatAssociative, ConcatProperties
    <3>4. Tail(Replaced(p)) = Replaced(r)
      BY <3>2, Untailed
    <3>5. Tail(Replaced(p \o q)) = Replaced(r \o q)
      BY <3>2, <3>3, Untailed
    <3>6. Replaced(r \o q) = Replaced(r) \o Replaced(q)
      BY ReplacedConcat
    <3>7. Answer(encoding, z) = Replaced(r \o q) /\ Answer(encoding, x) = Replaced(r)
      BY <1>4, <1>5, <1>8, <2>1, <2>2, <3>4, <3>5 DEF Answer
    <3>8. QED BY <1>3, <1>6, <3>6, <3>7
  <2>3. CASE ~Marked(encoding, x)
    <3>1. Answer(encoding, z) = Replaced(p \o q) /\ Answer(encoding, x) = Replaced(p)
      BY <1>4, <1>5, <2>1, <2>3 DEF Answer
    <3>2. QED BY <1>3, <1>5, <1>6, <3>1
  <2>4. QED BY <2>2, <2>3
<1>9. QED BY <1>7, <1>8

\* The answer to no bytes.
LEMMA NoAnswer == \A encoding : Answer(encoding, <<>>) = <<>>
<1> TAKE encoding
<1>1. PICK w \in Text : w = <<>>
  BY NothingToCut
<1>2. PICK p \in Seq(Piece) : p = <<>>
  BY NothingToCut
<1>3. LegacyPieces(encoding, w) = p
  BY <1>1, <1>2, NothingToCut
<1>4. ~Marked(encoding, w)
  <2>1. ~MarkedBy(encoding, w)
    <3>1. Len(w) = 0
      BY <1>1
    <3>2. QED BY <3>1 DEF MarkedBy
  <2>2. QED BY <2>1, MarkedIs
<1>5. Replaced(p) = <<>>
  <2>1. Replaced(p) \in Seq(Nat) /\ Len(Replaced(p)) = Len(p)
    BY ReplacedIs
  <2>2. Len(p) = 0
    BY <1>2
  <2>3. QED BY <2>1, <2>2
<1>6. Answer(encoding, w) = <<>>
  BY <1>3, <1>4, <1>5 DEF Answer
<1>7. QED BY <1>1, <1>6

\* The host is given one chunk more: the step of the induction along a
\* stream.
LEMMA StreamedAppend ==
    ASSUME NEW encoding, NEW cs \in Seq(Text), NEW ts \in Seq(SUBSET Seq(Nat)), NEW c \in Text,
           CutsIn(cs), Streamed(encoding, cs, ts)
    PROVE  Streamed(encoding, Append(cs, c), Append(ts, NativeDecode(encoding, ToHex(c))))
<1>1. PICK w \in Text : w = FlattenSeq(cs)
  BY WholeAppend
<1>2. PICK z \in Text : z = w \o c /\ FlattenSeq(Append(cs, c)) = z /\ Len(z) = Len(w) + Len(c)
  BY <1>1, WholeAppend
<1>3. PICK p \in Seq(Piece), q \in Seq(Piece), all \in Seq(Piece) :
          p = LegacyPieces(encoding, w) /\ q = LegacyPieces(encoding, c) /\ all =
                   LegacyPieces(encoding, z)
  BY LegacyIn
<1>4. PICK D, E : D = CutsOf(cs) /\ E = CutsOf(Append(cs, c))
  OBVIOUS
<1>5. E = D \cup {Len(z)} /\ D \subseteq 0..Len(w) /\ (w = <<>> \/ Len(w) \in D)
  <2>1. CutsOf(Append(cs, c)) = CutsOf(cs) \cup {Len(FlattenSeq(cs) \o c)}
    BY CutsAppend
  <2>2. QED BY <1>1, <1>2, <1>4, <2>1 DEF CutsIn
<1>6. Len(z) \in Ends(all) /\ 0 \in Ends(all)
  <2>1. Len(z) \in Ends(all)
    BY <1>3, EndsWithin
  <2>2. PICK k : k = [size |-> 1, point |-> {}]
    OBVIOUS
  <2>3. 1 \in Nat \ {0} /\ {} \in SUBSET Nat
    OBVIOUS
  <2>4. k \in Piece
    BY <2>2, <2>3 DEF Piece
  <2>5. 0 \in Ends(all)
    BY <2>4, EndsCons
  <2>6. QED BY <2>1, <2>5
<1>7. E \subseteq Ends(all) => Len(w) \in Ends(all)
  <2>1. w = <<>> => Len(w) = 0
    OBVIOUS
  <2>2. QED BY <1>5, <1>6, <2>1
<1>8. ASSUME E \subseteq Ends(all)
      PROVE  all = p \o q /\ D \subseteq Ends(p)
  <2>1. Len(w) \in Ends(all) /\ D \subseteq Ends(all)
    BY <1>5, <1>7, <1>8
  <2>2. Len(w) \in Ends(LegacyPieces(encoding, w \o c)) /\
           D \subseteq Ends(LegacyPieces(encoding, w \o c))
    BY <1>2, <1>3, <2>1
  <2>3. LegacyPieces(encoding, w \o c) = LegacyPieces(encoding, w) \o LegacyPieces(encoding, c)
        /\ D \subseteq Ends(LegacyPieces(encoding, w))
    BY <1>5, <2>2, CutsTogether
  <2>4. QED BY <1>2, <1>3, <2>3
<1>9. ASSUME all = p \o q, D \subseteq Ends(p)
      PROVE  E \subseteq Ends(all)
  <2>1. LegacyPieces(encoding, w \o c) = LegacyPieces(encoding, w) \o LegacyPieces(encoding, c)
        /\ D \subseteq Ends(LegacyPieces(encoding, w))
    BY <1>2, <1>3, <1>9
  <2>2. D \subseteq Ends(LegacyPieces(encoding, w \o c))
    BY <1>5, <2>1, CutsTogether
  <2>3. QED BY <1>2, <1>3, <1>5, <1>6, <2>2
<1>10. PICK text \in SUBSET Seq(Nat) :
           /\ text = NativeDecode(encoding, ToHex(c))
           /\ text = {} <=> fatal /\ IsMalformed(q)
           /\ text # {} => text = {Answer(encoding, c)}
  <2>1. NativeDecode(encoding, ToHex(c)) = IF fatal /\ IsMalformed(q) THEN {} ELSE {Answer(encoding, c)}
    BY <1>3, Decoded
  <2>2. Answer(encoding, c) \in Seq(Nat)
    BY BareParts
  <2>3. QED BY <2>1, <2>2
<1>11. PICK returns \in Seq(Nat), value \in Seq(Nat), next \in Seq(Nat) :
           returns = ReturnsOf(ts) /\ value = ValueOf(text) /\ next =
                    ReturnsOf(Append(ts, text)) /\ next = returns \o value
  <2>1. ReturnsOf(ts) \in Seq(Nat) /\ ValueOf(text) \in Seq(Nat) /\ ReturnsOf(Append(ts, text)) =
           ReturnsOf(ts) \o ValueOf(text)
    BY ReturnsAppend
  <2>2. ReturnsOf(ts) \o ValueOf(text) \in Seq(Nat)
    BY <2>1, ConcatProperties
  <2>3. QED BY <2>1, <2>2
<1>12. text # {} => value = Answer(encoding, c)
  <2>1. text = {Answer(encoding, c)} => (CHOOSE t \in text : TRUE) = Answer(encoding, c)
    OBVIOUS
  <2>2. QED BY <1>10, <1>11, <2>1 DEF ValueOf
<1>13. ThrewIn(Append(ts, text)) <=> ThrewIn(ts) \/ text = {}
  BY ReturnsAppend
<1>14. ChunkMalformed(encoding, Append(cs, c)) <=> ChunkMalformed(encoding, cs) \/ IsMalformed(q)
  BY <1>3, ChunkMalformedAppend
<1>15. /\ ThrewIn(ts) <=> fatal /\ ChunkMalformed(encoding, cs)
       /\ ChunkMalformed(encoding, cs) <=> IsMalformed(p) \/ ~(D \subseteq Ends(p))
       /\ ~fatal /\ ChunkMalformed(encoding, cs) => \E i \in DOMAIN returns : returns[i] = REPLACEMENT
       /\ ~ThrewIn(ts) /\ D \subseteq Ends(p) /\ MarksFirst(encoding, cs) => returns =
                Answer(encoding, w)
  BY <1>1, <1>3, <1>4, <1>11 DEF Streamed
<1>16. ThrewIn(Append(ts, text)) <=> fatal /\ ChunkMalformed(encoding, Append(cs, c))
  BY <1>10, <1>13, <1>14, <1>15
<1>17. ChunkMalformed(encoding, Append(cs, c)) <=> IsMalformed(all) \/ ~(E \subseteq Ends(all))
  <2>1. IsMalformed(p \o q) <=> IsMalformed(p) \/ IsMalformed(q)
    BY MalformedConcat
  <2>2. ASSUME ~IsMalformed(all), E \subseteq Ends(all)
        PROVE  ~ChunkMalformed(encoding, Append(cs, c))
    BY <1>8, <1>14, <1>15, <2>1, <2>2
  <2>3. ASSUME ~ChunkMalformed(encoding, Append(cs, c))
        PROVE  ~IsMalformed(all) /\ E \subseteq Ends(all)
    <3>1. ~IsMalformed(p) /\ ~IsMalformed(q) /\ D \subseteq Ends(p)
      BY <1>14, <1>15, <2>3
    <3>2. all = p \o q
      <4>1. ~IsMalformed(LegacyPieces(encoding, w))
        BY <1>3, <3>1
      <4>2. LegacyPieces(encoding, w \o c) = LegacyPieces(encoding, w) \o LegacyPieces(encoding, c)
        BY <4>1, CleanParts
      <4>3. QED BY <1>2, <1>3, <4>2
    <3>3. QED BY <1>9, <2>1, <3>1, <3>2
  <2>4. QED BY <2>2, <2>3
<1>18. ASSUME ~fatal, ChunkMalformed(encoding, Append(cs, c))
       PROVE  \E i \in DOMAIN next : next[i] = REPLACEMENT
  <2>1. PICK m \in Nat, n \in Nat : m = Len(returns) /\ n = Len(value)
    OBVIOUS
  <2>2. Len(next) = m + n /\ \A i \in 1..m + n : next[i] = IF i <= m THEN returns[i] ELSE value[i - m]
    <3>1. /\ Len(returns \o value) = Len(returns) + Len(value)
          /\ \A i \in 1..Len(returns) + Len(value) :
                (returns \o value)[i] = IF i <= Len(returns) THEN returns[i]
                         ELSE value[i - Len(returns)]
      BY ConcatProperties
    <3>2. QED BY <1>11, <2>1, <3>1
  <2>3. DOMAIN next = 1..m + n /\ DOMAIN returns = 1..m /\ DOMAIN value = 1..n
    BY <2>1, <2>2
  <2>4. CASE ChunkMalformed(encoding, cs)
    <3>1. PICK i \in 1..m : returns[i] = REPLACEMENT
      BY <1>15, <1>18, <2>3, <2>4
    <3>2. i \in 1..m + n /\ next[i] = returns[i]
      <4>1. i \in 1..m + n /\ i <= m
        OBVIOUS
      <4>2. QED BY <2>2, <4>1
    <3>3. QED BY <2>3, <3>1, <3>2
  <2>5. CASE IsMalformed(q)
    <3>1. value = Answer(encoding, c)
      BY <1>10, <1>12, <1>18
    <3>2. PICK i \in 1..n : value[i] = REPLACEMENT
      <4>1. \E i \in DOMAIN Answer(encoding, c) : Answer(encoding, c)[i] = REPLACEMENT
        BY <1>3, <2>5, BareParts
      <4>2. QED BY <2>3, <3>1, <4>1
    <3>3. m + i \in 1..m + n /\ next[m + i] = value[i]
      <4>1. m + i \in 1..m + n /\ ~(m + i <= m) /\ m + i - m = i
        OBVIOUS
      <4>2. PICK j \in 1..m + n : j = m + i
        BY <4>1
      <4>3. next[j] = IF j <= m THEN returns[j] ELSE value[j - m]
        BY <2>2
      <4>4. next[m + i] = IF m + i <= m THEN returns[m + i] ELSE value[m + i - m]
        BY <4>2, <4>3
      <4>5. QED BY <4>1, <4>4
    <3>4. QED BY <2>3, <3>2, <3>3
  <2>6. QED BY <1>14, <1>18, <2>4, <2>5
<1>19. ASSUME ~ThrewIn(Append(ts, text)), E \subseteq Ends(all), MarksFirst(encoding, Append(cs, c))
       PROVE  next = Answer(encoding, z)
  <2>1. all = p \o q /\ D \subseteq Ends(p)
    BY <1>8, <1>19
  <2>2. /\ MarksFirst(encoding, cs)
        /\ Marked(encoding, c) => ignoreBOM \/ \A j \in DOMAIN cs : cs[j] = <<>>
    BY <1>19, MarksFirstAppend
  <2>3. returns = Answer(encoding, w) /\ value = Answer(encoding, c)
    BY <1>12, <1>13, <1>15, <1>19, <2>1, <2>2
  <2>4. CASE w = <<>>
    <3>1. z = c
      BY <1>2, <2>4 DEF Text
    <3>2. returns = <<>>
      BY <2>3, <2>4, NoAnswer
    <3>3. next = value
      BY <1>11, <3>2
    <3>4. QED BY <2>3, <3>1, <3>3
  <2>5. CASE w # <<>>
    <3>1. ~Marked(encoding, c) \/ ignoreBOM
      BY <1>1, <2>2, <2>5 DEF CutsIn
    <3>2. Len(w) \in Ends(LegacyPieces(encoding, w \o c))
      BY <1>2, <1>3, <1>7, <1>19
    <3>3. LegacyPieces(encoding, w \o c) = LegacyPieces(encoding, w) \o LegacyPieces(encoding, c)
      BY <1>2, <1>3, <2>1
    <3>4. Answer(encoding, w \o c) = Answer(encoding, w) \o Answer(encoding, c)
      BY <2>5, <3>1, <3>2, <3>3, AnswerParts
    <3>5. QED BY <1>2, <1>11, <2>3, <3>4
  <2>6. QED BY <2>4, <2>5
<1>20. Streamed(encoding, Append(cs, c), Append(ts, text))
  BY <1>2, <1>3, <1>4, <1>11, <1>16, <1>17, <1>18, <1>19 DEF Streamed
<1>21. QED BY <1>10, <1>20

-----------------------------------------------------------------------------
(* Every step keeps it.                                                    *)

\* The invariant. Nothing of it is about fields: the decoder keeps none between calls.
LegacyInv ==
    /\ legacy \in {{}} \cup {{e} : e \in Encodings}
    /\ chunks \in Seq(Text)
    /\ texts \in Seq(SUBSET Seq(Nat))
    /\ CutsIn(chunks)
    /\ \A encoding \in legacy : Streamed(encoding, chunks, texts)

\* Before the first chunk.
LEMMA NoChunks ==
    ASSUME NEW encoding
    PROVE  CutsIn(<<>>) /\ Streamed(encoding, <<>>, <<>>)
<1>1. PICK cs \in Seq(Text), ts \in Seq(SUBSET Seq(Nat)), w \in Text, r \in Seq(Nat), p \in Seq(Piece) :
          cs = <<>> /\ ts = <<>> /\ w = <<>> /\ r = <<>> /\ p = <<>>
  <2>1. <<>> \in Seq(Text) /\ <<>> \in Seq(SUBSET Seq(Nat)) /\ <<>> \in Text /\
           <<>> \in Seq(Nat) /\ <<>> \in Seq(Piece)
    BY DEF Text
  <2>2. QED BY <2>1
<1>2. DOMAIN cs = {} /\ DOMAIN ts = {} /\ DOMAIN p = {}
  BY <1>1
<1>3. FlattenSeq(cs) = w
  BY <1>1 DEF FlattenSeq
<1>4. CutsOf(cs) = {}
  BY <1>2 DEF CutsOf
<1>5. CutsIn(cs)
  BY <1>1, <1>3, <1>4 DEF CutsIn
<1>6. LegacyPieces(encoding, w) = p
  BY <1>1, NothingToCut
<1>7. ~IsMalformed(p) /\ ~ChunkMalformed(encoding, cs) /\ ~ThrewIn(ts)
  BY <1>2 DEF IsMalformed, ChunkMalformed, ThrewIn
<1>8. ReturnsOf(ts) = r
  <2>1. PICK f : f = [k \in DOMAIN ts |-> ValueOf(ts[k])]
    OBVIOUS
  <2>2. f = <<>>
    BY <1>1, <2>1
  <2>3. QED BY <1>1, <2>1, <2>2 DEF ReturnsOf, FlattenSeq
<1>9. Answer(encoding, w) = r
  BY <1>1, NoAnswer
<1>10. Streamed(encoding, cs, ts)
  BY <1>3, <1>4, <1>6, <1>7, <1>8, <1>9 DEF Streamed
<1>11. QED BY <1>1, <1>5, <1>10

\* The constructor.
LEMMA LegacyInit == DecoderInit => LegacyInv
<1> SUFFICES ASSUME DecoderInit PROVE LegacyInv
  OBVIOUS
<1>1. legacy \in {{}} \cup {{e} : e \in Encodings} /\ chunks = <<>> /\ texts = <<>>
  BY DEF DecoderInit
<1>2. chunks \in Seq(Text) /\ texts \in Seq(SUBSET Seq(Nat))
  BY <1>1
<1>3. CutsIn(chunks)
  BY <1>1, NoChunks
<1>4. ASSUME NEW encoding \in legacy
      PROVE  Streamed(encoding, chunks, texts)
  BY <1>1, NoChunks
<1>5. QED BY <1>1, <1>2, <1>3, <1>4 DEF LegacyInv

\* The options are those of the constructor.
LEMMA StreamedNext ==
    ASSUME UNCHANGED <<fatal, ignoreBOM>>, NEW encoding, Streamed(encoding, chunks', texts')
    PROVE  Streamed(encoding, chunks, texts)'
BY DEF Streamed, MarksFirst, Answer, CutsOf, ReturnsOf, ThrewIn, ChunkMalformed

\* Nothing that concerns the host happens.
LEMMA LegacyStutter ==
    LegacyInv /\ UNCHANGED <<fatal, ignoreBOM, legacy, chunks, texts>> => LegacyInv'
<1> SUFFICES ASSUME LegacyInv, UNCHANGED <<fatal, ignoreBOM, legacy, chunks, texts>> PROVE LegacyInv'
  OBVIOUS
<1>1. ASSUME NEW encoding \in legacy'
      PROVE  Streamed(encoding, chunks, texts)'
  <2>1. Streamed(encoding, chunks', texts')
    BY DEF LegacyInv
  <2>2. QED BY <2>1, StreamedNext
<1>2. CutsIn(chunks)'
  BY DEF LegacyInv, CutsIn, CutsOf
<1>3. QED BY <1>1, <1>2 DEF LegacyInv

\* A call of decode().
LEMMA LegacyNext ==
    ASSUME LegacyInv, DecodeLegacy
    PROVE  LegacyInv'
<1>1. PICK encoding \in legacy, chunk \in SeqOf(LegacyBytes, MaxLegacy - Len(FlattenSeq(chunks))) :
          /\ chunks' = Append(chunks, chunk)
          /\ texts' = Append(texts, NativeDecode(encoding, ToHex(chunk)))
  BY DEF DecodeLegacy
<1>2. UNCHANGED <<fatal, ignoreBOM>> /\ legacy' = legacy
  BY DEF DecodeLegacy, vars
<1>3. chunk \in Text
  <2>1. LegacyBytes \subseteq Byte
    BY TextDecoderAssumption DEF Byte
  <2>2. chunk \in Seq(Byte)
    BY <2>1, ChunkIs
  <2>3. QED BY <2>2 DEF Text
<1>4. /\ legacy \in {{}} \cup {{e} : e \in Encodings}
      /\ chunks \in Seq(Text) /\ texts \in Seq(SUBSET Seq(Nat))
      /\ CutsIn(chunks) /\ Streamed(encoding, chunks, texts)
  BY DEF LegacyInv
<1>5. legacy = {encoding}
  BY <1>4
<1>6. Streamed(encoding, chunks', texts')
  BY <1>1, <1>3, <1>4, StreamedAppend
<1>7. chunks' \in Seq(Text) /\ CutsIn(chunks')
  <2>1. Append(chunks, chunk) \in Seq(Text)
    BY <1>3, <1>4, AppendProperties
  <2>2. CutsIn(Append(chunks, chunk))
    BY <1>3, <1>4, CutsInAppend
  <2>3. QED BY <1>1, <2>1, <2>2
<1>8. texts' \in Seq(SUBSET Seq(Nat))
  <2>1. NativeDecode(encoding, ToHex(chunk)) \subseteq {Answer(encoding, chunk)}
    BY <1>3, Decoded
  <2>2. Answer(encoding, chunk) \in Seq(Nat)
    BY <1>3, BareParts
  <2>3. NativeDecode(encoding, ToHex(chunk)) \in SUBSET Seq(Nat)
    BY <2>1, <2>2
  <2>4. Append(texts, NativeDecode(encoding, ToHex(chunk))) \in Seq(SUBSET Seq(Nat))
    BY <1>4, <2>3, AppendProperties
  <2>5. QED BY <1>1, <2>4
<1>9. ASSUME NEW e \in legacy'
      PROVE  Streamed(e, chunks, texts)'
  <2>1. Streamed(e, chunks', texts')
    BY <1>2, <1>5, <1>6
  <2>2. QED BY <1>2, <2>1, StreamedNext
<1>10. CutsIn(chunks)'
  BY <1>7 DEF CutsIn, CutsOf
<1>11. QED BY <1>2, <1>4, <1>7, <1>8, <1>9, <1>10 DEF LegacyInv

\* The next stream.
LEMMA LegacyAnother ==
    ASSUME LegacyInv, AnotherStream
    PROVE  LegacyInv'
<1>1. UNCHANGED <<fatal, ignoreBOM>> /\ legacy' = legacy /\ chunks' = <<>> /\ texts' = <<>>
  BY DEF AnotherStream, vars
<1>2. legacy' \in {{}} \cup {{e} : e \in Encodings}
  BY <1>1 DEF LegacyInv
<1>3. chunks' \in Seq(Text) /\ texts' \in Seq(SUBSET Seq(Nat))
  BY <1>1
<1>4. CutsIn(chunks')
  BY <1>1, NoChunks
<1>5. ASSUME NEW e \in legacy'
      PROVE  Streamed(e, chunks, texts)'
  <2>1. Streamed(e, chunks', texts')
    BY <1>1, NoChunks
  <2>2. QED BY <1>1, <2>1, StreamedNext
<1>6. CutsIn(chunks)'
  BY <1>4 DEF CutsIn, CutsOf
<1>7. QED BY <1>2, <1>3, <1>5, <1>6 DEF LegacyInv

\* For the four encodings modelled the invariant holds: what the calls have
\* returned is what the chunks are decoded to one by one, and that relates to
\* the whole of them by where they are cut (encoding.rs).  It is not said of
\* the others encoding.rs:45 accepts: a decoder of ISO-2022-JP is in a state
\* between two characters, and starts each chunk afresh.
THEOREM LegacyHolds == DecoderSpec => []LegacyInv
<1>1. LegacyInv /\ [DecoderNext]_decoderVars => LegacyInv'
  <2> SUFFICES ASSUME LegacyInv, [DecoderNext]_decoderVars PROVE LegacyInv'
    OBVIOUS
  <2>1. CASE DecodeUtf8
    <3>1. UNCHANGED <<legacy, chunks, texts>> /\ UNCHANGED <<fatal, ignoreBOM>>
      BY <2>1 DEF DecodeUtf8, Next, NewStream, DecodeBytes, DecodeText, Call
    <3>2. QED BY <3>1, LegacyStutter
  <2>2. CASE DecodeLegacy
    BY <2>2, LegacyNext
  <2>3. CASE AnotherStream
    BY <2>3, LegacyAnother
  <2>4. CASE UNCHANGED decoderVars
    BY <2>4, LegacyStutter DEF decoderVars, vars
  <2>5. QED BY <2>1, <2>2, <2>3, <2>4 DEF DecoderNext
<1>2. QED BY <1>1, LegacyInit, PTL DEF DecoderSpec

\* The history variables, as the lemmas name what they hold.
LEMMA StreamedMeans ==
    /\ Whole = FlattenSeq(chunks)
    /\ Cuts = CutsOf(chunks)
    /\ Returns = ReturnsOf(texts)
    /\ Threw <=> ThrewIn(texts)
BY DEF Whole, Cuts, CutsOf, Returns, ReturnsOf, ValueOf, Threw, ThrewIn

\* A stream cut between its characters decodes as the whole of it, its mark
\* dropped at the front and nowhere else (encoding.rs:6, "A single-byte
\* encoding is exact").
THEOREM CutsBetweenAsOneShot == DecoderSpec => []LegacyAsOneShot
<1>1. LegacyInv => LegacyAsOneShot
  <2> SUFFICES ASSUME LegacyInv, NEW encoding \in legacy,
                      ~Threw, CutBetween(LegacyPieces(encoding, Whole)),
                      \A k \in DOMAIN chunks : Marked(encoding, chunks[k]) =>
                          ignoreBOM \/ \A j \in 1..k - 1 : chunks[j] = <<>>
               PROVE  Returns = IF ~ignoreBOM /\ Marked(encoding, Whole)
                                THEN Tail(Replaced(LegacyPieces(encoding, Whole)))
                                ELSE Replaced(LegacyPieces(encoding, Whole))
    BY DEF LegacyAsOneShot
  <2>1. Streamed(encoding, chunks, texts)
    BY DEF LegacyInv
  <2>2. ~ThrewIn(texts) /\ CutsOf(chunks) \subseteq Ends(LegacyPieces(encoding, FlattenSeq(chunks)))
    BY StreamedMeans DEF CutBetween
  <2>3. MarksFirst(encoding, chunks)
    BY DEF MarksFirst
  <2>4. ReturnsOf(texts) = Answer(encoding, FlattenSeq(chunks))
    BY <2>1, <2>2, <2>3 DEF Streamed
  <2>5. QED BY <2>4, StreamedMeans DEF Answer
<1>2. QED BY <1>1, LegacyHolds, PTL

\* A character split across two `stream` calls decodes as U+FFFD, and a fatal
\* decoder throws for that and for what is malformed anyway, and only then
\* (encoding.rs:5).
THEOREM CutsWithinShow == DecoderSpec => []SplitIsReplaced
<1>1. LegacyInv => SplitIsReplaced
  <2> SUFFICES ASSUME LegacyInv, NEW encoding \in legacy
               PROVE  /\ Threw <=> fatal /\ (IsMalformed(LegacyPieces(encoding, Whole))
                                             \/ ~CutBetween(LegacyPieces(encoding, Whole)))
                      /\ ~fatal /\ ~CutBetween(LegacyPieces(encoding, Whole)) =>
                            \E i \in DOMAIN Returns : Returns[i] = REPLACEMENT
    BY DEF SplitIsReplaced
  <2>1. Streamed(encoding, chunks, texts)
    BY DEF LegacyInv
  <2>2. PICK pieces : pieces = LegacyPieces(encoding, FlattenSeq(chunks))
    OBVIOUS
  <2>3. /\ ThrewIn(texts) <=> fatal /\ ChunkMalformed(encoding, chunks)
        /\ ChunkMalformed(encoding, chunks) <=>
                 IsMalformed(pieces) \/ ~(CutsOf(chunks) \subseteq Ends(pieces))
        /\ ~fatal /\ ChunkMalformed(encoding, chunks) =>
              \E i \in DOMAIN ReturnsOf(texts) : ReturnsOf(texts)[i] = REPLACEMENT
    BY <2>1, <2>2 DEF Streamed
  <2>4. CutBetween(pieces) <=> CutsOf(chunks) \subseteq Ends(pieces)
    BY StreamedMeans DEF CutBetween
  <2>5. LegacyPieces(encoding, Whole) = pieces
    BY <2>2, StreamedMeans
  <2>6. QED BY <2>3, <2>4, <2>5, StreamedMeans
<1>2. QED BY <1>1, LegacyHolds, PTL

=============================================================================
