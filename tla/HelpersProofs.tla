--------------------------- MODULE HelpersProofs ---------------------------
(***************************************************************************)
(* The helpers that share no state.  Ciphers: what is encrypted is         *)
(* decrypted again, and nothing else, for every text, key and size.        *)
(* NacosSource: what validate accepts can be used.  Sql: an insert is told *)
(* what became of it, and a page holds the rows of its place, for any      *)
(* table, clients and statements.  HttpZip: the entry that is read is that *)
(* of the archive, whatever its files and sizes.                           *)
(***************************************************************************)
EXTENDS MCHelpers, InductionLemmas, FiniteSetTheorems, SequenceTheorems, TLAPS

(* PKCS#7 padding of neon-crypto/src/lib.rs.                               *)

(* What padding adds to a text of length k: 1 to n bytes, up to a multiple *)
(* of n.                                                                   *)
PadLength(k, n) == n - (k % n)

LEMMA PadLengthBounds ==
  ASSUME NEW k \in Nat, NEW n \in 1..255
  PROVE  PadLength(k, n) \in 1..n
  BY DEF PadLength

(* The rest of a division is unique.                                       *)
LEMMA RestOf ==
  ASSUME NEW n \in 1..255, NEW q \in Nat, NEW r \in 0..(n - 1)
  PROVE  (n * q + r) % n = r /\ (n * q) % n = 0
<1>1. ASSUME NEW a \in Nat, NEW b \in Nat, a < b PROVE n * a + n <= n * b
  <2> DEFINE c == (b - a) - 1
  <2>1. c \in Nat /\ b = (a + 1) + c
    BY <1>1
  <2> HIDE DEF c
  <2>2. n * ((a + 1) + c) = n * a + n + n * c
    BY <2>1, SMTT(30)
  <2>3. n * c \in Nat /\ n * a \in Nat
    BY <2>1, SMTT(30)
  <2> QED
    BY <2>1, <2>2, <2>3
<1>2. ASSUME NEW s \in 0..(n - 1) PROVE (n * q + s) % n = s
  <2> DEFINE x == n * q + s
             d == x \div n
             t == x % n
  <2>1. n * q \in Nat
    BY SMTT(30)
  <2>2. x \in Nat
    BY <2>1
  <2> HIDE DEF x
  <2>3. x = n * d + t /\ d \in Nat /\ t \in 0..(n - 1)
    BY <2>2, SMTT(30)
  <2> HIDE DEF d, t
  <2>4. n * d \in Nat
    BY <2>3, SMTT(30)
  <2>5. ~(d < q)
    BY <1>1, <2>1, <2>3, <2>4 DEF x
  <2>6. ~(q < d)
    BY <1>1, <2>1, <2>3, <2>4 DEF x
  <2>7. d = q
    BY <2>3, <2>5, <2>6
  <2>8. t = s
    BY <2>1, <2>3, <2>7 DEF x
  <2> QED
    BY <2>8 DEF t, x
<1>3. n * q + 0 = n * q /\ 0 \in 0..(n - 1)
  BY SMTT(30)
<1>4. (n * q + 0) % n = 0
  BY <1>2, <1>3
<1> QED
  BY <1>2, <1>3, <1>4

LEMMA PadLengthFills ==
  ASSUME NEW k \in Nat, NEW n \in 1..255
  PROVE  (k + PadLength(k, n)) % n = 0
<1>1. k = n * (k \div n) + (k % n)
  BY SMTT(60)
<1>2. k + PadLength(k, n) = n * ((k \div n) + 1)
  BY <1>1 DEF PadLength
<1>3. \A q \in Nat : (n * q) % n = 0
  <2> TAKE q \in Nat
  <2>1. 0 \in 0..(n - 1)
    OBVIOUS
  <2> QED
    BY <2>1, RestOf
<1> QED
  BY <1>2, <1>3

(* The bytes that were added are found again from the length of the rest.  *)
LEMMA PadLengthOfRest ==
  ASSUME NEW len \in Nat, NEW n \in 1..255, NEW p \in 1..n, n <= len, len % n = 0
  PROVE  PadLength(len - p, n) = p
<1>1. PICK q \in Nat : len = n * q /\ q >= 1
  <2>1. len \div n \in Nat /\ len = n * (len \div n) /\ len \div n >= 1
    BY SMTT(60)
  <2> QED
    BY <2>1
<1>2. CASE p = n
  <2>1. q - 1 \in Nat /\ len - p = n * (q - 1)
    BY <1>1, <1>2, SMTT(60)
  <2>2. \A k \in Nat : (n * k) % n = 0
    <3>1. 0 \in 0..(n - 1)
      OBVIOUS
    <3> QED
      BY <3>1, RestOf
  <2>3. (len - p) % n = 0
    BY <2>1, <2>2
  <2> QED
    BY <2>3, <1>2 DEF PadLength
<1>3. CASE p # n
  <2>1. q - 1 \in Nat /\ len - p = n * (q - 1) + (n - p) /\ n - p \in 0..n - 1
    BY <1>1, <1>3, SMTT(60)
  <2>2. \A k \in Nat, r \in 0..n - 1 : (n * k + r) % n = r
    BY RestOf
  <2>3. (len - p) % n = n - p
    BY <2>1, <2>2, SMTT(60)
  <2> QED
    BY <2>3 DEF PadLength
<1> QED
  BY <1>2, <1>3

(* A padded text, byte by byte.                                            *)
LEMMA PaddedBytes ==
  ASSUME NEW text \in Seq(Byte), NEW n \in 1..255
  PROVE  LET p == PadLength(Len(text), n)
             d == text \o Repeat(p)
         IN  /\ Pkcs7Padding(text, n) = Ok(d)
             /\ d \in Seq(Byte)
             /\ Len(d) = Len(text) + p
             /\ \A i \in 1..Len(text) : d[i] = text[i]
             /\ \A i \in Len(text) + 1..Len(text) + p : d[i] = p
<1> DEFINE p == PadLength(Len(text), n)
           d == text \o Repeat(p)
<1>1. Len(text) \in Nat /\ p \in 1..255
  <2>1. Len(text) \in Nat
    BY LenProperties
  <2>2. p \in 1..n
    BY <2>1, PadLengthBounds
  <2> HIDE DEF p
  <2> QED
    BY <2>1, <2>2
<1>2. Repeat(p) \in Seq(Byte) /\ Len(Repeat(p)) = p
  <2> HIDE DEF p
  <2>1. Repeat(p) = [i \in 1..p |-> p] /\ p \in Nat /\ p \in Byte
    BY <1>1 DEF Repeat, Byte
  <2>2. Repeat(p) \in Seq(Byte)
    BY <2>1
  <2>3. Len(Repeat(p)) = p
    BY <2>1
  <2> QED
    BY <2>2, <2>3
<1>3. \A i \in 1..p : Repeat(p)[i] = p
  BY <1>1 DEF Repeat
<1>4. Pkcs7Padding(text, n) = Ok(d)
  BY DEF Pkcs7Padding, PadLength
<1> HIDE DEF p
<1>5. /\ d \in Seq(Byte)
      /\ Len(d) = Len(text) + p
      /\ \A i \in 1..Len(text) : d[i] = text[i]
  BY <1>1, <1>2, ConcatProperties
<1>6. ASSUME NEW i \in Len(text) + 1..Len(text) + p
      PROVE  d[i] = p
  <2>1. i - Len(text) \in 1..p /\ d[i] = Repeat(p)[i - Len(text)]
    BY <1>1, <1>2, ConcatProperties
  <2> QED
    BY <2>1, <1>3
<1> QED
  BY <1>4, <1>5, <1>6 DEF p

(* Unpadding accepts what padding makes and gives the text back, whatever  *)
(* the text ends with and for every block size (pkcs7_padding,             *)
(* pkcs7_unpadding).                                                       *)
THEOREM PaddingIsUndone ==
  ASSUME NEW text \in Seq(Byte), NEW n \in 1..255
  PROVE  /\ Pkcs7Padding(text, n).ok
         /\ Pkcs7Unpadding(Pkcs7Padding(text, n).bytes, n) = Ok(text)
<1> DEFINE p == PadLength(Len(text), n)
           d == text \o Repeat(p)
<1>1. Len(text) \in Nat /\ p \in 1..n /\ n \in Nat
  <2>1. Len(text) \in Nat
    BY LenProperties
  <2>2. p \in 1..n
    BY <2>1, PadLengthBounds
  <2> HIDE DEF p
  <2> QED
    BY <2>1, <2>2
<1>2. /\ Pkcs7Padding(text, n) = Ok(d)
      /\ d \in Seq(Byte)
      /\ Len(d) = Len(text) + p
      /\ \A i \in 1..Len(text) : d[i] = text[i]
      /\ \A i \in Len(text) + 1..Len(text) + p : d[i] = p
  BY PaddedBytes
<1>3. Len(d) % n = 0
  <2>1. (Len(text) + p) % n = 0
    BY <1>1, PadLengthFills
  <2> HIDE DEF p, d
  <2> QED
    BY <1>2, <2>1
<1> HIDE DEF p, d
<1>4. d[Len(d)] = p /\ Len(d) # 0
  BY <1>1, <1>2, SMTT(60)
<1>5. ~BadPadding(d, n)
  <2>1. p # 0 /\ ~(p > n) /\ Clamp(p, 1, n) = p
    BY <1>1 DEF Clamp
  <2>2. ASSUME NEW i \in 0..n - 1, i + p >= n
        PROVE  d[Len(d) - n + i + 1] = p
    BY <2>2, <1>1, <1>2, SMTT(60)
  <2> QED
    BY <2>1, <2>2, <1>4, SMTT(60) DEF BadPadding
<1>6. SubSeq(d, 1, Len(d) - p) = text
  <2>1. Len(d) - p = Len(text)
    BY <1>1, <1>2
  <2>2. SubSeq(d, 1, Len(text)) \in Seq(Byte) /\ Len(SubSeq(d, 1, Len(text))) = Len(text)
    BY <1>1, <1>2, SubSeqProperties
  <2>3. \A i \in 1..Len(text) : SubSeq(d, 1, Len(text))[i] = text[i]
    BY <1>1, <1>2, SubSeqProperties
  <2> QED
    BY <2>1, <2>2, <2>3, SeqEqual
<1>7. Pkcs7Unpadding(d, n) = Ok(text)
  BY <1>3, <1>4, <1>5, <1>6 DEF Pkcs7Unpadding
<1>8. Pkcs7Padding(text, n).ok /\ Pkcs7Padding(text, n).bytes = d
  BY <1>2 DEF Ok
<1> QED
  BY <1>7, <1>8

(* Unpadding accepts nothing else: what it accepts is its answer, padded   *)
(* again (pkcs7_unpadding; with PaddingIsUndone, padding and unpadding are *)
(* inverse to each other).                                                 *)
THEOREM UnpaddingIsUndone ==
  ASSUME NEW d \in Seq(Byte), NEW n \in 1..255, Pkcs7Unpadding(d, n).ok
  PROVE  LET text == Pkcs7Unpadding(d, n).bytes
         IN  text \in Seq(Byte) /\ Pkcs7Padding(text, n) = Ok(d)
<1> DEFINE len == Len(d)
           p == d[len]
           text == SubSeq(d, 1, len - p)
<1>1. /\ len \in Nat \ {0} /\ len % n = 0 /\ ~BadPadding(d, n)
      /\ Pkcs7Unpadding(d, n) = Ok(text)
  <2>1. len \in Nat
    BY LenProperties
  <2> QED
    BY <2>1 DEF Pkcs7Unpadding, Err
<1>2. p \in 1..n
  <2>1. p \in Byte
    BY <1>1, ElementOfSeq
  <2>2. ~(p = 0) /\ ~(p > n)
    BY <1>1 DEF BadPadding
  <2> HIDE DEF p
  <2> QED
    BY <2>1, <2>2 DEF Byte
<1>3. n <= len
  <2>1. \A k \in 1..n - 1 : k % n = k
    OBVIOUS
  <2> QED
    BY <1>1, <2>1
<1>4. \A i \in len - p + 1..len : d[i] = p
  <2>1. Clamp(p, 1, n) = p
    BY <1>2 DEF Clamp
  <2>2. \A i \in 0..n - 1 : i + p >= n => d[len - n + i + 1] = p
    BY <1>1, <2>1 DEF BadPadding
  <2>3. ASSUME NEW i \in len - p + 1..len
        PROVE  d[i] = p
    <3> HIDE DEF p, len
    <3>1. i - 1 - len + n \in 0..n - 1 /\ (i - 1 - len + n) + p >= n
      BY <1>1, <1>2, <1>3
    <3>2. len - n + (i - 1 - len + n) + 1 = i
      BY <1>1
    <3> QED
      BY <2>2, <3>1, <3>2
  <2> QED
    BY <2>3
<1>5. /\ text \in Seq(Byte) /\ Len(text) = len - p
      /\ \A i \in 1..len - p : text[i] = d[i]
  <2>1. \A i \in 1..len : d[i] \in Byte
    BY ElementOfSeq
  <2> HIDE DEF p, len
  <2>2. len - p \in Nat /\ \A i \in 1..len - p : d[i] \in Byte
    BY <1>1, <1>2, <1>3, <2>1
  <2>3. /\ text \in Seq(Byte)
        /\ Len(text) = IF 1 <= len - p THEN (len - p) - 1 + 1 ELSE 0
        /\ \A i \in 1..(len - p) - 1 + 1 : text[i] = d[1 + i - 1]
    BY <2>2, SubSeqProperties
  <2>4. \A i \in 1..len - p : 1 + i - 1 = i /\ i \in 1..(len - p) - 1 + 1
    BY <2>2
  <2> HIDE DEF text
  <2> QED
    BY <2>2, <2>3, <2>4
<1>6. PadLength(len - p, n) = p
  <2> HIDE DEF p, len
  <2> QED
    BY <1>1, <1>2, <1>3, PadLengthOfRest
<1>7. text \o Repeat(p) = d
  <2> HIDE DEF text
  <2>1. /\ text \o Repeat(p) \in Seq(Byte)
        /\ Len(text \o Repeat(p)) = Len(text) + p
        /\ \A i \in 1..Len(text) : (text \o Repeat(p))[i] = text[i]
        /\ \A i \in Len(text) + 1..Len(text) + p : (text \o Repeat(p))[i] = p
    <3>1. PadLength(Len(text), n) = p
      BY <1>5, <1>6
    <3> HIDE DEF p, len
    <3>2. LET k == PadLength(Len(text), n)
          IN  /\ text \o Repeat(k) \in Seq(Byte)
              /\ Len(text \o Repeat(k)) = Len(text) + k
              /\ \A i \in 1..Len(text) : (text \o Repeat(k))[i] = text[i]
              /\ \A i \in Len(text) + 1..Len(text) + k : (text \o Repeat(k))[i] = k
      BY <1>5, PaddedBytes, ZenonT(60)
    <3> QED
      BY <3>1, <3>2
  <2> HIDE DEF p, len
  <2>2. Len(text \o Repeat(p)) = len
    BY <1>1, <1>2, <1>5, <2>1
  <2>3. ASSUME NEW i \in 1..len PROVE (text \o Repeat(p))[i] = d[i]
    <3> DEFINE u == text \o Repeat(p)
    <3>1. /\ \A j \in 1..len - p : u[j] = d[j]
          /\ \A j \in len - p + 1..len : u[j] = p
      <4> HIDE DEF u
      <4>1. Len(text) = len - p /\ len - p + p = len
        BY <1>1, <1>2, <1>5
      <4>2. /\ \A j \in 1..len - p : u[j] = text[j]
            /\ \A j \in len - p + 1..len - p + p : u[j] = p
        BY <2>1, <4>1 DEF u
      <4> QED
        BY <1>5, <4>1, <4>2
    <3> SUFFICES u[i] = d[i]
      OBVIOUS
    <3> HIDE DEF u
    <3>2. CASE i <= len - p
      BY <1>1, <1>2, <1>3, <3>1, <3>2
    <3>3. CASE i > len - p
      <4>1. d[i] = p
        BY <1>1, <1>2, <1>3, <1>4, <3>3
      <4>2. u[i] = p
        BY <1>1, <1>2, <1>3, <3>1, <3>3
      <4> QED
        BY <4>1, <4>2
    <3> QED
      BY <1>1, <1>2, <1>3, <3>2, <3>3
  <2> DEFINE u == text \o Repeat(p)
  <2>4. /\ u \in Seq(Byte) /\ Len(u) = len /\ Len(d) = len
        /\ \A i \in 1..len : u[i] = d[i]
    BY <2>1, <2>2, <2>3 DEF len
  <2> HIDE DEF u
  <2>5. \A i \in 1..Len(u) : u[i] = d[i]
    BY <2>4
  <2> SUFFICES u = d
    BY DEF u
  <2> QED
    BY <2>4, <2>5, SeqEqual
<1>8. Pkcs7Padding(text, n) = Ok(d)
  <2> HIDE DEF text
  <2>1. Pkcs7Padding(text, n) = Ok(text \o Repeat(PadLength(Len(text), n)))
    BY <1>5, PaddedBytes, ZenonT(60)
  <2> QED
    BY <2>1, <1>5, <1>6, <1>7
<1> QED
  BY <1>1, <1>5, <1>8 DEF Ok

LEMMA OkIsNotErr == \A bytes : Ok(bytes) # Err
<1> TAKE bytes
<1>1. Ok(bytes).ok /\ ~Err.ok
  BY DEF Ok, Err
<1> QED
  BY <1>1

(* A text is the part of its padded buffer before the padding.             *)
LEMMA UnpaddedIs ==
  ASSUME NEW d \in Seq(Byte), NEW n, Pkcs7Unpadding(d, n).ok
  PROVE  /\ n \in 1..255 /\ Len(d) - d[Len(d)] \in 0..Len(d)
         /\ Pkcs7Unpadding(d, n) = Ok(SubSeq(d, 1, Len(d) - d[Len(d)]))
<1>1. /\ n \in 1..255 /\ Len(d) # 0 /\ ~BadPadding(d, n)
      /\ Pkcs7Unpadding(d, n) = Ok(SubSeq(d, 1, Len(d) - d[Len(d)]))
      /\ Len(d) % n = 0
  BY DEF Pkcs7Unpadding, Err
<1>2. Len(d) \in Nat /\ d[Len(d)] \in Nat /\ d[Len(d)] <= n
  <2>1. Len(d) \in Nat
    BY LenProperties
  <2>2. d[Len(d)] \in Byte
    BY <1>1, <2>1, ElementOfSeq
  <2>3. ~ (d[Len(d)] > n) /\ n \in Nat
    BY <1>1 DEF BadPadding
  <2> DEFINE x == d[Len(d)]
  <2> HIDE DEF x
  <2>4. x \in 0..255 /\ ~ (x > n) /\ n \in Nat
    BY <2>2, <2>3 DEF Byte, x
  <2>5. x \in Nat /\ x <= n
    BY <2>4
  <2> QED
    BY <2>1, <2>5 DEF x
<1>3. n <= Len(d)
  <2> DEFINE len == Len(d)
  <2>1. len \in Nat /\ len # 0 /\ len % n = 0 /\ n \in 1..255
    BY <1>1, <1>2
  <2> HIDE DEF len
  <2>2. ~ (len < n)
    <3>1. \A m \in 1..255, k \in Nat : k < m => k % m = k
      BY SMTT(60)
    <3> QED
      BY <2>1, <3>1
  <2> QED
    BY <2>1, <2>2 DEF len
<1> QED
  BY <1>1, <1>2, <1>3

(* The cipher crate unpads what pkcs7_unpadding unpads.                    *)
LEMMA LibUnpadIs ==
  ASSUME NEW d \in Seq(Byte), NEW n \in 1..255
  PROVE  LibUnpad(d, n) = Pkcs7Unpadding(d, n)
<1> DEFINE texts == {k \in 0..Len(d) : LibPad(SubSeq(d, 1, k), n).bytes = d}
<1>1. LibUnpad(d, n) = IF texts = {} THEN Err ELSE Ok(SubSeq(d, 1, CHOOSE k \in texts : TRUE))
  BY DEF LibUnpad
<1>2. ASSUME NEW k \in texts PROVE Pkcs7Unpadding(d, n) = Ok(SubSeq(d, 1, k))
  <2> DEFINE t == SubSeq(d, 1, k)
  <2>1. t \in Seq(Byte)
    <3>1. k \in 0..Len(d) /\ Len(d) \in Nat
      BY LenProperties
    <3>2. k \in Int /\ \A i \in 1..k : d[i] \in Byte
      BY <3>1, ElementOfSeq
    <3> QED
      BY <3>2, SubSeqProperties
  <2>2. LibPad(t, n).bytes = d /\ LibPad(t, n) = Pkcs7Padding(t, n)
    BY DEF LibPad, Pkcs7Padding
  <2> HIDE DEF t
  <2>3. Pkcs7Unpadding(Pkcs7Padding(t, n).bytes, n) = Ok(t)
    BY <2>1, PaddingIsUndone
  <2> QED
    BY <2>2, <2>3 DEF t
<1>3. CASE texts = {}
  <2>1. ~Pkcs7Unpadding(d, n).ok
    <3> SUFFICES ASSUME Pkcs7Unpadding(d, n).ok PROVE FALSE
      OBVIOUS
    <3> DEFINE k == Len(d) - d[Len(d)]
               t == SubSeq(d, 1, k)
    <3>1. k \in 0..Len(d) /\ Pkcs7Unpadding(d, n) = Ok(t)
      BY UnpaddedIs
    <3>2. Pkcs7Padding(t, n) = Ok(d)
      <4>1. Pkcs7Padding(Pkcs7Unpadding(d, n).bytes, n) = Ok(d)
        BY UnpaddingIsUndone
      <4>2. Pkcs7Unpadding(d, n).bytes = t
        BY <3>1 DEF Ok
      <4> QED
        BY <4>1, <4>2
    <3>3. LibPad(t, n).bytes = d
      BY <3>2 DEF LibPad, Pkcs7Padding, Ok
    <3> HIDE DEF k
    <3> QED
      BY <1>3, <3>1, <3>3
  <2>2. Pkcs7Unpadding(d, n) = Err
    <3>1. \A bytes : Ok(bytes).ok
      BY DEF Ok
    <3> QED
      BY <2>1, <3>1 DEF Pkcs7Unpadding
  <2> QED
    BY <1>1, <1>3, <2>2
<1>4. CASE texts # {}
  <2>1. (CHOOSE k \in texts : TRUE) \in texts
    BY <1>4
  <2> HIDE DEF texts
  <2> QED
    BY <1>1, <1>2, <1>4, <2>1
<1> QED
  BY <1>3, <1>4

(* The blocks of a call, and whether it is refused whatever the text.      *)
BlockCall == [alg : {"aes_cbc", "aes_ecb", "des_cbc", "des_ecb"}, key : BOOLEAN, iv : BOOLEAN,
              padding : Nat \cup {None}]

IsAes(c) == c.alg \in {"aes_cbc", "aes_ecb"}

Block(c) == IF IsAes(c) THEN Size(c) ELSE DesBlock

Allowed(c) ==
  /\ c.key /\ (c.alg \in {"aes_cbc", "des_cbc"} => c.iv)
  /\ IsAes(c) => ~BadSize(Size(c))

LEMMA NothingOver == \A n \in 1..255 : n % n = 0
  OBVIOUS

LEMMA MultipleOf ==
  ASSUME NEW k \in Nat, NEW n \in 1..255, NEW m \in 1..255, n % m = 0, k % n = 0
  PROVE  k % m = 0
<1>1. k = n * (k \div n) /\ k \div n \in Nat
  BY SMTT(60)
<1>2. n = m * (n \div m) /\ n \div m \in Nat
  BY SMTT(60)
<1> DEFINE a == k \div n
           b == n \div m
<1> HIDE DEF a, b
<1>3. k = m * (b * a) /\ b * a \in Nat
  <2>1. k = n * a /\ n = m * b /\ a \in Nat /\ b \in Nat
    BY <1>1, <1>2 DEF a, b
  <2> QED
    BY <2>1, SMTT(60)
<1>4. \A q \in Nat : (m * q) % m = 0
  <2>1. 0 \in 0..(m - 1)
    OBVIOUS
  <2> QED
    BY <2>1, RestOf
<1> QED
  BY <1>3, <1>4

LEMMA BlockIs ==
  ASSUME NEW c \in BlockCall
  PROVE  /\ Block(c) \in Nat
         /\ Allowed(c) /\ IsAes(c) => Block(c) # 0 /\ Block(c) % AesBlock = 0
         /\ c.alg \in {"des_cbc", "des_ecb"} => Block(c) = DesBlock
         /\ c.padding \in {None, AesBlock} /\ IsAes(c) => Block(c) = AesBlock /\ ~BadSize(Block(c))
<1>1. AesBlock \in 1..255 /\ DesBlock \in 1..255 /\ AesBlock % AesBlock = 0
  BY CipherAssumption, NothingOver
<1>2. c.padding \in Nat \/ c.padding = None
  BY DEF BlockCall
<1> QED
  BY <1>1, <1>2 DEF Block, IsAes, Size, BadSize, Allowed

LEMMA EncryptIs ==
  ASSUME NEW c \in BlockCall, NEW text \in Seq(Byte)
  PROVE  Encrypt(c, text) = IF Allowed(c) THEN Pkcs7Padding(text, Block(c)) ELSE Err
<1>1. AesBlock \in 1..255 /\ DesBlock \in 1..255
  BY CipherAssumption
<1>2. LibPad(text, AesBlock) = Pkcs7Padding(text, AesBlock)
  BY <1>1 DEF LibPad, Pkcs7Padding
<1>3. LibPad(text, DesBlock) = Pkcs7Padding(text, DesBlock)
  BY <1>1 DEF LibPad, Pkcs7Padding
<1>4. c.alg \in {"aes_cbc", "aes_ecb", "des_cbc", "des_ecb"} /\ (c.padding \in Nat \/ c.padding = None)
  BY DEF BlockCall
<1>5. CASE c.alg = "aes_cbc"
  <2>1. Encrypt(c, text) = AesEncryptCbc(c, text)
    BY <1>5 DEF Encrypt
  <2>2. Allowed(c) <=> c.key /\ c.iv /\ ~BadSize(Size(c))
    BY <1>5 DEF Allowed, IsAes
  <2>3. Block(c) = Size(c)
    BY <1>5 DEF Block, IsAes
  <2>4. CASE c.padding \in {None, AesBlock}
    <3>1. Block(c) = AesBlock /\ ~BadSize(Size(c))
      BY <1>5, <2>3, <2>4, BlockIs DEF IsAes
    <3> QED
      BY <1>2, <2>1, <2>2, <2>4, <3>1 DEF AesEncryptCbc
  <2>5. CASE c.padding \notin {None, AesBlock}
    <3>1. Size(c) = c.padding
      BY <2>5 DEF Size
    <3> QED
      BY <2>1, <2>2, <2>3, <2>5, <3>1 DEF AesEncryptCbc
  <2> QED
    BY <2>4, <2>5
<1>6. CASE c.alg = "aes_ecb"
  BY <1>6 DEF Encrypt, AesEncryptEcb, Allowed, IsAes, Block
<1>7. CASE c.alg = "des_cbc"
  BY <1>3, <1>7 DEF Encrypt, DesEncryptCbc, Allowed, IsAes, Block
<1>8. CASE c.alg = "des_ecb"
  BY <1>8 DEF Encrypt, DesEncryptEcb, Allowed, IsAes, Block
<1> QED
  BY <1>4, <1>5, <1>6, <1>7, <1>8

LEMMA UnpaddingRefuses ==
  ASSUME NEW d \in Seq(Byte), NEW n \in Nat, ~ (n \in 1..255 /\ Len(d) % n = 0)
  PROVE  Pkcs7Unpadding(d, n) = Err
  BY DEF Pkcs7Unpadding

LEMMA DecryptIs ==
  ASSUME NEW c \in BlockCall, NEW d \in Seq(Byte)
  PROVE  Decrypt(c, d) = IF Allowed(c) THEN Pkcs7Unpadding(d, Block(c)) ELSE Err
<1> DEFINE n == Block(c)
<1>1. AesBlock \in 1..255 /\ DesBlock \in 1..255 /\ n \in Nat
  BY CipherAssumption, BlockIs
<1>2. LibUnpad(d, AesBlock) = Pkcs7Unpadding(d, AesBlock)
  BY <1>1, LibUnpadIs
<1>3. LibUnpad(d, DesBlock) = Pkcs7Unpadding(d, DesBlock)
  BY <1>1, LibUnpadIs
<1>4. c.alg \in {"aes_cbc", "aes_ecb", "des_cbc", "des_ecb"} /\ (c.padding \in Nat \/ c.padding = None)
  BY DEF BlockCall
<1>5. Len(d) % n # 0 => Pkcs7Unpadding(d, n) = Err
  BY <1>1, UnpaddingRefuses
<1>6. CASE c.alg = "aes_cbc"
  <2>1. Decrypt(c, d) = AesDecryptCbc(c, d)
    BY <1>6 DEF Decrypt
  <2>2. Allowed(c) <=> c.key /\ c.iv /\ ~BadSize(n)
    BY <1>6 DEF Allowed, IsAes, Block
  <2> DEFINE whole == Len(d) % AesBlock = 0
  <2>6. AesDecryptCbc(c, d) =
          IF ~ (c.iv /\ c.key /\ whole) THEN Err
          ELSE IF c.padding \in {None, AesBlock} THEN LibUnpad(d, AesBlock)
          ELSE IF BadSize(c.padding) THEN Err
          ELSE IF Len(d) % c.padding # 0 THEN Err
          ELSE Pkcs7Unpadding(d, c.padding)
    BY DEF AesDecryptCbc
  <2>3. Allowed(c) /\ ~whole => Pkcs7Unpadding(d, n) = Err
    <3> SUFFICES ASSUME Allowed(c), Len(d) % AesBlock # 0, n \in 1..255, Len(d) % n = 0 PROVE FALSE
      BY <1>1, UnpaddingRefuses
    <3>1. n % AesBlock = 0 /\ Len(d) \in Nat
      BY <1>6, BlockIs, LenProperties DEF IsAes
    <3> HIDE DEF n
    <3> QED
      BY <1>1, <3>1, MultipleOf
  <2> HIDE DEF whole
  <2>4. CASE c.padding \in {None, AesBlock}
    <3>1. n = AesBlock /\ ~BadSize(n)
      BY <1>6, <2>4, BlockIs DEF IsAes
    <3> HIDE DEF n
    <3> QED
      BY <1>2, <2>1, <2>2, <2>3, <2>4, <2>6, <3>1 DEF n
  <2>5. CASE c.padding \notin {None, AesBlock}
    <3>1. n = c.padding
      BY <1>6, <2>5 DEF Block, IsAes, Size
    <3> HIDE DEF n
    <3> QED
      BY <1>5, <2>1, <2>2, <2>3, <2>5, <2>6, <3>1 DEF n
  <2> QED
    BY <2>4, <2>5
<1>7. CASE c.alg = "aes_ecb"
  BY <1>5, <1>7 DEF Decrypt, AesDecryptEcb, Allowed, IsAes, Block
<1>8. CASE c.alg = "des_cbc"
  BY <1>3, <1>5, <1>8 DEF Decrypt, DesDecryptCbc, Allowed, IsAes, Block
<1>9. CASE c.alg = "des_ecb"
  BY <1>5, <1>9 DEF Decrypt, DesDecryptEcb, Allowed, IsAes, Block
<1> QED
  BY <1>4, <1>6, <1>7, <1>8, <1>9

(* In every mode a buffer is decrypted to a text exactly if the text is    *)
(* encrypted to the buffer by the same call; what decrypts is the text     *)
(* before the padding, whichever of the sizes that can decrypt is given.   *)
THEOREM BlockModesInvert ==
  ASSUME NEW c \in BlockCall, NEW d \in Seq(Byte), NEW paddings \in SUBSET (Nat \cup {None})
  PROVE  Inverts(c, d, paddings)
<1> DEFINE n == Block(c)
<1>1. ASSUME NEW k \in 0..Len(d)
      PROVE  LET text == SubSeq(d, 1, k)
             IN  (Decrypt(c, d) = Ok(text)) <=> (Encrypt(c, text) = Ok(d))
  <2> DEFINE text == SubSeq(d, 1, k)
  <2>1. text \in Seq(Byte)
    <3>1. k \in 0..Len(d) /\ Len(d) \in Nat
      BY LenProperties
    <3>2. k \in Int /\ \A i \in 1..k : d[i] \in Byte
      BY <3>1, ElementOfSeq
    <3> QED
      BY <3>2, SubSeqProperties
  <2> HIDE DEF text, n
  <2>2. Encrypt(c, text) = IF Allowed(c) THEN Pkcs7Padding(text, n) ELSE Err
    BY <2>1, EncryptIs DEF n
  <2>3. Decrypt(c, d) = IF Allowed(c) THEN Pkcs7Unpadding(d, n) ELSE Err
    BY DecryptIs DEF n
  <2>4. ASSUME Encrypt(c, text) = Ok(d) PROVE Decrypt(c, d) = Ok(text)
    <3>1. Allowed(c) /\ Pkcs7Padding(text, n) = Ok(d)
      BY <2>2, <2>4, OkIsNotErr
    <3>2. n \in 1..255
      BY <3>1, OkIsNotErr DEF Pkcs7Padding
    <3>3. Pkcs7Padding(text, n).bytes = d
      BY <3>1 DEF Ok
    <3>4. Pkcs7Unpadding(d, n) = Ok(text)
      BY <2>1, <3>2, <3>3, PaddingIsUndone
    <3> QED
      BY <2>3, <3>1, <3>4
  <2>5. ASSUME Decrypt(c, d) = Ok(text) PROVE Encrypt(c, text) = Ok(d)
    <3>1. Allowed(c) /\ Pkcs7Unpadding(d, n) = Ok(text)
      BY <2>3, <2>5, OkIsNotErr
    <3>2. n \in 1..255
      BY <3>1, OkIsNotErr DEF Pkcs7Unpadding
    <3>3. Pkcs7Unpadding(d, n).ok /\ Pkcs7Unpadding(d, n).bytes = text
      BY <3>1 DEF Ok
    <3>4. Pkcs7Padding(text, n) = Ok(d)
      BY <3>2, <3>3, UnpaddingIsUndone
    <3> QED
      BY <2>2, <3>1, <3>4
  <2> QED
    BY <2>4, <2>5 DEF text
<1> DEFINE rest == Len(d) - d[Len(d)]
<1>2. ASSUME NEW b \in BlockCall, Decrypt(b, d).ok
      PROVE  rest \in 0..Len(d) /\ Decrypt(b, d) = Ok(SubSeq(d, 1, rest))
  <2>1. Allowed(b) /\ Decrypt(b, d) = Pkcs7Unpadding(d, Block(b))
    BY <1>2, DecryptIs DEF Err
  <2> QED
    BY <1>2, <2>1, UnpaddedIs
<1>3. ASSUME Decrypt(c, d).ok PROVE \E k \in 0..Len(d) : Decrypt(c, d).bytes = SubSeq(d, 1, k)
  <2>1. rest \in 0..Len(d) /\ Decrypt(c, d).bytes = SubSeq(d, 1, rest)
    BY <1>2, <1>3 DEF Ok
  <2> HIDE DEF rest
  <2> QED
    BY <2>1
<1>4. ASSUME NEW p \in paddings
      PROVE  LET e == [c EXCEPT !.padding = p]
             IN  Decrypt(c, d).ok /\ Decrypt(e, d).ok => Decrypt(c, d) = Decrypt(e, d)
  <2> DEFINE e == [c EXCEPT !.padding = p]
  <2>1. e \in BlockCall
    BY DEF BlockCall
  <2> HIDE DEF e, rest
  <2>2. Decrypt(c, d).ok /\ Decrypt(e, d).ok => Decrypt(c, d) = Decrypt(e, d)
    BY <1>2, <2>1
  <2> QED
    BY <2>2 DEF e
<1> QED
  BY <1>1, <1>3, <1>4 DEF Inverts

-----------------------------------------------------------------------------
(* AES-GCM: the bytes that are sealed.                                     *)
IsSealed(b, c, text, t) ==
  /\ \E Y : b \in Seq(Y)
  /\ Len(b) = Len(text) + t /\ Len(text) \in Nat
  /\ SubSeq(b, 1, Len(text)) = text
  /\ b[Len(text) + t] = <<c.key, c.nonce, c.aad, text, t>>
  /\ Len(SubSeq(b, Len(text) + 1, Len(b))) = t

LEMMA SealIs ==
  ASSUME NEW c, NEW X, NEW text \in Seq(X), NEW t \in Nat \ {0}
  PROVE  IsSealed(Seal(c, text, t), c, text, t)
<1> DEFINE tag == [i \in 1..t |-> <<c.key, c.nonce, c.aad, text, i>>]
           Y == X \cup {<<c.key, c.nonce, c.aad, text, i>> : i \in 1..t}
           n == Len(text)
           b == Seal(c, text, t)
<1>1. tag \in Seq(Y) /\ Len(tag) = t /\ tag[t] = <<c.key, c.nonce, c.aad, text, t>>
  <2>1. \A i \in 1..t : <<c.key, c.nonce, c.aad, text, i>> \in Y
    OBVIOUS
  <2> HIDE DEF Y
  <2>2. tag \in [1..t -> Y]
    BY <2>1
  <2>3. tag[t] = <<c.key, c.nonce, c.aad, text, t>>
    OBVIOUS
  <2> HIDE DEF tag
  <2>4. tag \in Seq(Y) /\ Len(tag) = t
    BY <2>2
  <2> QED
    BY <2>3, <2>4
<1>2. text \in Seq(Y) /\ n \in Nat
  BY LenProperties
<1>3. b = text \o tag
  BY DEF Seal
<1> HIDE DEF tag, Y, b
<1>4. /\ b \in Seq(Y) /\ Len(b) = n + t
      /\ \A i \in 1..(n + t) : b[i] = IF i <= n THEN text[i] ELSE tag[i - n]
  <2>1. Len(tag) = t
    BY <1>1
  <2> QED
    BY <1>1, <1>2, <1>3, <2>1, ConcatProperties
<1>5. b[n + t] = <<c.key, c.nonce, c.aad, text, t>>
  <2>1. n + t \in 1..(n + t) /\ ~ (n + t <= n) /\ (n + t) - n = t
    BY <1>2
  <2> QED
    BY <1>1, <1>4, <2>1
<1>6. \A i \in 1..(n + t) : b[i] \in Y
  BY <1>4, <1>2, ElementOfSeq
<1>7. SubSeq(b, 1, n) = text
  <2> DEFINE u == SubSeq(b, 1, n)
  <2>1. \A i \in 1..n : b[i] \in Y /\ b[i] = text[i]
    BY <1>2, <1>4, <1>6
  <2>2. /\ u \in Seq(Y) /\ Len(u) = (IF 1 <= n THEN n - 1 + 1 ELSE 0)
        /\ \A i \in 1..(n - 1 + 1) : u[i] = b[1 + i - 1]
    BY <1>2, <2>1, SubSeqProperties
  <2> HIDE DEF u
  <2>3. Len(u) = n
    BY <1>2, <2>2
  <2>4. \A i \in 1..n : u[i] = text[i]
    <3> SUFFICES ASSUME NEW i \in 1..n PROVE u[i] = text[i]
      OBVIOUS
    <3>1. i \in 1..(n - 1 + 1) /\ 1 + i - 1 = i
      BY <1>2
    <3> QED
      BY <2>1, <2>2, <3>1
  <2>5. u = text
    BY <1>2, <2>2, <2>3, <2>4, SeqEqual
  <2> QED
    BY <2>5 DEF u
<1>8. Len(SubSeq(b, n + 1, Len(b))) = t
  <2>1. n + 1 \in Int /\ n + t \in Int /\ \A i \in (n + 1)..(n + t) : b[i] \in Y
    BY <1>2, <1>6
  <2>2. Len(SubSeq(b, n + 1, n + t)) = (IF n + 1 <= n + t THEN (n + t) - (n + 1) + 1 ELSE 0)
    BY <2>1, SubSeqProperties
  <2> QED
    BY <1>2, <1>4, <2>2
<1> QED
  BY <1>2, <1>4, <1>5, <1>7, <1>8 DEF b, IsSealed

LEMMA UnsealIs ==
  ASSUME NEW c, NEW d, NEW X, NEW text \in Seq(X), NEW t \in Nat \ {0}, NEW u \in Nat \ {0}
  PROVE  Unseal(d, Seal(c, text, t), u)
           = IF d.key = c.key /\ d.nonce = c.nonce /\ d.aad = c.aad /\ u = t THEN Ok(text) ELSE Err
<1> DEFINE b == Seal(c, text, t)
           rest == SubSeq(b, 1, Len(b) - u)
           n == Len(text)
<1>0. IsSealed(b, c, text, t)
  BY SealIs
<1>1. PICK Y : b \in Seq(Y)
  BY <1>0 DEF IsSealed
<1>2. /\ Len(b) = n + t /\ n \in Nat
      /\ SubSeq(b, 1, n) = text
      /\ b[n + t] = <<c.key, c.nonce, c.aad, text, t>>
  BY <1>0 DEF IsSealed
<1>3. Unseal(d, b, u) = IF Len(b) >= u /\ Seal(d, rest, u) = b THEN Ok(rest) ELSE Err
  BY DEF Unseal
<1>4. CASE d.key = c.key /\ d.nonce = c.nonce /\ d.aad = c.aad /\ u = t
  <2>1. Len(b) - u = n /\ Len(b) >= u
    BY <1>2, <1>4
  <2>2. rest = text
    BY <1>2, <2>1
  <2>3. Seal(d, text, t) = b
    BY <1>4 DEF Seal
  <2> HIDE DEF b
  <2> QED
    BY <1>3, <1>4, <2>1, <2>2, <2>3 DEF b
<1>5. CASE ~ (d.key = c.key /\ d.nonce = c.nonce /\ d.aad = c.aad /\ u = t)
  <2>1. ~ (Len(b) >= u /\ Seal(d, rest, u) = b)
    <3> SUFFICES ASSUME Len(b) >= u, Seal(d, rest, u) = b PROVE FALSE
      OBVIOUS
    <3> DEFINE m == Len(b) - u
    <3>1. m \in 0..Len(b)
      BY <1>2
    <3>2. rest \in Seq(Y)
      <4>1. m \in Int /\ \A i \in 1..m : b[i] \in Y
        <5> HIDE DEF b
        <5>1. \A i \in 1..m : i \in 1..Len(b)
          BY <1>2, <3>1
        <5> QED
          BY <1>1, <3>1, <5>1, ElementOfSeq
      <4> HIDE DEF m, b
      <4> QED
        BY <4>1, SubSeqProperties DEF m
    <3> HIDE DEF rest, b
    <3>3. /\ Len(b) = Len(rest) + u
          /\ b[Len(rest) + u] = <<d.key, d.nonce, d.aad, rest, u>>
      <4>1. IsSealed(b, d, rest, u)
        BY <3>2, SealIs
      <4> QED
        BY <4>1 DEF IsSealed
    <3>4. b[Len(b)] = <<d.key, d.nonce, d.aad, rest, u>> /\ b[Len(b)] = <<c.key, c.nonce, c.aad, text, t>>
      BY <1>2, <3>3
    <3>5. d.key = c.key /\ d.nonce = c.nonce /\ d.aad = c.aad /\ u = t
      BY <3>4
    <3> QED
      BY <1>5, <3>5
  <2> HIDE DEF b, rest
  <2> QED
    BY <1>3, <1>5, <2>1 DEF b
<1> QED
  BY <1>4, <1>5

GcmOptions == [nonce_size : Nat, tag_size : Nat]

(* The rows of the tables of sizes.                                        *)
LEMMA TypesOfSizes ==
  \A n \in 12..16 : GcmNonceType(n) = n /\ GcmTagType(n) = n /\ n # NoType
<1> SUFFICES ASSUME NEW n \in 12..16
             PROVE  GcmNonceType(n) = n /\ GcmTagType(n) = n /\ n # NoType
  OBVIOUS
<1>1. n \in {12, 13, 14, 15, 16}
  OBVIOUS
<1> QED
  BY <1>1 DEF GcmNonceType, GcmTagType, NoType

(* What one call of AES-GCM seals, another opens exactly if it has the     *)
(* same key, nonce, aad and sizes, a default spelled out or not, and it    *)
(* refuses everything else, for any text, key and sizes.                   *)
THEOREM GcmInvertsAll ==
  ASSUME NEW keys, NEW nonces, NEW aads, NEW c \in GcmCalls(keys, GcmOptions, nonces, aads),
         NEW calls \in SUBSET GcmCalls(keys, GcmOptions, nonces, aads),
         NEW X, NEW text \in Seq(X)
  PROVE  GcmInverts(c, text, calls)
<1> DEFINE sealed == AesEncryptGcm(c, text)
           Size0(n, default) == IF n = 0 THEN default ELSE n
           tag == Size0(c.opt.tag_size, 16)
           Alike(d) == /\ d.key = c.key /\ d.nonce = c.nonce /\ d.aad = c.aad
                       /\ Size0(d.opt.nonce_size, 12) = c.nonce.len
                       /\ Size0(d.opt.tag_size, 16) = tag
           All == GcmCalls(keys, GcmOptions, nonces, aads)
           N(d) == ResolveGcmSizes(d.opt).nonce
           G(d) == ResolveGcmSizes(d.opt).tag
           Works(d) == /\ N(d) \in 12..16 /\ G(d) \in 12..16
                       /\ d.key.len \in {16, 24, 32} /\ d.nonce.len = N(d)
<1>1. \A d \in All : N(d) = Size0(d.opt.nonce_size, 12) /\ G(d) = Size0(d.opt.tag_size, 16)
  BY DEF ResolveGcmSizes
<1>2. \A d : /\ GcmOp(d, ResolveGcmSizes(d.opt)) <=> Works(d)
             /\ Works(d) => GcmTagType(G(d)) = G(d)
  <2> SUFFICES ASSUME NEW d PROVE /\ GcmOp(d, ResolveGcmSizes(d.opt)) <=> Works(d)
                                  /\ Works(d) => GcmTagType(G(d)) = G(d)
    OBVIOUS
  <2> DEFINE sizes == ResolveGcmSizes(d.opt)
  <2>1. d.key.len \in {16, 24, 32} <=> GcmKeyType(d.key.len) = d.key.len /\ GcmKeyType(d.key.len) # NoType
    BY DEF GcmKeyType, NoType
  <2>2. sizes.nonce \in 12..16 => GcmNonceType(sizes.nonce) = sizes.nonce /\ sizes.nonce # NoType
    BY TypesOfSizes
  <2>3. sizes.tag \in 12..16 => GcmTagType(sizes.tag) = sizes.tag /\ sizes.tag # NoType
    BY TypesOfSizes
  <2> HIDE DEF sizes
  <2> QED
    BY <2>1, <2>2, <2>3 DEF GcmOp, GcmSizesOK, sizes
<1>3. sealed = IF Works(c) THEN [ok |-> TRUE, bytes |-> Seal(c, text, G(c)), tag |-> G(c)] ELSE Err
  BY <1>2 DEF AesEncryptGcm
<1>4. \A d, b : AesDecryptGcm(d, b) = IF Works(d) THEN Unseal(d, b, G(d)) ELSE Err
  BY <1>2 DEF AesDecryptGcm
<1>5. G(c) = tag /\ N(c) = Size0(c.opt.nonce_size, 12)
  BY <1>1
<1>6. \A d \in All : Alike(d) <=> d.key = c.key /\ d.nonce = c.nonce /\ d.aad = c.aad
                                  /\ N(d) = c.nonce.len /\ G(d) = G(c)
  BY <1>1, <1>5
<1> HIDE DEF N, G, Size0, sealed
<1>7. sealed.ok <=> Works(c)
  BY <1>3 DEF Err
<1>8. sealed.ok <=>
        Alike(c) /\ c.key.len \in {16, 24, 32} /\ {c.nonce.len, tag} \subseteq 12..16
  BY <1>5, <1>6, <1>7
<1>9. ASSUME sealed.ok
      PROVE  /\ DataOf(sealed) = text /\ Len(TagOf(sealed)) = tag
             /\ \A d \in calls :
                  AesDecryptGcm(d, sealed.bytes) = IF Alike(d) THEN Ok(text) ELSE Err
  <2> DEFINE b == Seal(c, text, G(c))
  <2>1. Works(c) /\ sealed.bytes = b /\ sealed.tag = G(c) /\ G(c) \in Nat \ {0}
    BY <1>3, <1>7, <1>9
  <2>2. /\ Len(b) = Len(text) + G(c) /\ Len(text) \in Nat
        /\ SubSeq(b, 1, Len(text)) = text
        /\ Len(SubSeq(b, Len(text) + 1, Len(b))) = G(c)
    <3>1. IsSealed(b, c, text, G(c))
      BY <2>1, SealIs
    <3> QED
      BY <3>1 DEF IsSealed
  <2>3. Len(b) - G(c) = Len(text)
    BY <2>1, <2>2
  <2>4. DataOf(sealed) = text
    BY <2>1, <2>2, <2>3 DEF DataOf
  <2>5. Len(TagOf(sealed)) = tag
    BY <1>5, <2>1, <2>2, <2>4 DEF TagOf
  <2>6. ASSUME NEW d \in calls
        PROVE  AesDecryptGcm(d, b) = IF Alike(d) THEN Ok(text) ELSE Err
    <3>1. Alike(d) <=> d.key = c.key /\ d.nonce = c.nonce /\ d.aad = c.aad
                       /\ N(d) = c.nonce.len /\ G(d) = G(c)
      BY <1>6
    <3> HIDE DEF Alike, b
    <3>2. CASE Works(d)
      <4>1. G(d) \in Nat \ {0}
        BY <3>2
      <4>2. Unseal(d, b, G(d))
              = IF d.key = c.key /\ d.nonce = c.nonce /\ d.aad = c.aad /\ G(d) = G(c) THEN Ok(text) ELSE Err
        BY <2>1, <4>1, UnsealIs DEF b
      <4>3. Alike(d) <=> d.key = c.key /\ d.nonce = c.nonce /\ d.aad = c.aad /\ G(d) = G(c)
        BY <3>1, <3>2
      <4> QED
        BY <1>4, <3>2, <4>2, <4>3
    <3>3. CASE ~Works(d)
      <4>1. ~Alike(d)
        BY <2>1, <3>1, <3>3
      <4> QED
        BY <1>4, <3>3, <4>1
    <3> QED
      BY <3>2, <3>3
  <2> QED
    BY <2>1, <2>4, <2>5, <2>6
<1> QED
  <2> HIDE DEF All, Works
  <2> USE DEF sealed, Size0
  <2>1. SUFFICES /\ sealed.ok <=>
                      /\ Alike(c) /\ c.key.len \in {16, 24, 32}
                      /\ {c.nonce.len, tag} \subseteq 12..16
                 /\ sealed.ok =>
                      /\ DataOf(sealed) = text /\ Len(TagOf(sealed)) = tag
                      /\ \A d \in calls :
                           AesDecryptGcm(d, sealed.bytes) = IF Alike(d) THEN Ok(text) ELSE Err
    BY Zenon DEF GcmInverts
  <2> QED
    BY <1>8, <1>9

-----------------------------------------------------------------------------
(* NacosSource.                                                            *)
(* Any source: any data-ids, addresses and formats.                        *)
Sources(ids, formats, maps) ==
  [server_addr : Seq({"blank", "set"}), endpoint : Texts, data_id : Seq(ids),
   group : {"blank", "set"}, startup_timeout : Nat, format : formats,
   data_id_formats : maps, username : Texts, password : Texts,
   access_key : Texts, secret_key : Texts, region_id : Texts]

Secrets == {"username", "password", "access_key", "secret_key", "region_id"}

LEMMA SetOfFour ==
  ASSUME NEW S \in SUBSET Secrets
  PROVE  S \in {{}, {"username", "password"}, {"access_key", "secret_key"},
                {"access_key", "secret_key", "region_id"}}
           <=> \/ /\ "username" \in S <=> "password" \in S
                  /\ "access_key" \notin S /\ "secret_key" \notin S /\ "region_id" \notin S
               \/ /\ "username" \notin S /\ "password" \notin S
                  /\ "access_key" \in S /\ "secret_key" \in S
<1>1. S = {} <=> /\ "username" \notin S /\ "password" \notin S /\ "access_key" \notin S
                 /\ "secret_key" \notin S /\ "region_id" \notin S
  BY DEF Secrets
<1>2. S = {"username", "password"} <=>
        /\ "username" \in S /\ "password" \in S /\ "access_key" \notin S
        /\ "secret_key" \notin S /\ "region_id" \notin S
  BY DEF Secrets
<1>3. S = {"access_key", "secret_key"} <=>
        /\ "username" \notin S /\ "password" \notin S /\ "access_key" \in S
        /\ "secret_key" \in S /\ "region_id" \notin S
  BY DEF Secrets
<1>4. S = {"access_key", "secret_key", "region_id"} <=>
        /\ "username" \notin S /\ "password" \notin S /\ "access_key" \in S
        /\ "secret_key" \in S /\ "region_id" \in S
  BY DEF Secrets
<1> QED
  BY <1>1, <1>2, <1>3, <1>4

LEMMA FieldsOf ==
  ASSUME NEW ids, NEW formats, NEW maps, NEW s \in Sources(ids, formats, maps)
  PROVE  /\ s["username"] = s.username /\ s["password"] = s.password
         /\ s["access_key"] = s.access_key /\ s["secret_key"] = s.secret_key
         /\ s["region_id"] = s.region_id
  OBVIOUS

LEMMA AuthIs ==
  ASSUME NEW ids, NEW formats, NEW maps, NEW s \in Sources(ids, formats, maps)
  PROVE  AuthOK(s) <=>
           /\ "blank" \notin {s.username, s.password}
           /\ {f \in Secrets : s[f] = "set"}
                \in {{}, {"username", "password"}, {"access_key", "secret_key"},
                     {"access_key", "secret_key", "region_id"}}
<1> DEFINE S == {f \in Secrets : s[f] = "set"}
<1>1. /\ "username" \in S <=> s.username = "set"
      /\ "password" \in S <=> s.password = "set"
      /\ "access_key" \in S <=> s.access_key = "set"
      /\ "secret_key" \in S <=> s.secret_key = "set"
      /\ "region_id" \in S <=> s.region_id = "set"
  BY FieldsOf DEF Secrets
<1>2. s.username \in Texts /\ s.password \in Texts
  BY DEF Sources
<1>3. AuthOK(s) <=>
        /\ s.username # "blank" /\ s.password # "blank"
        /\ \/ /\ s.username = "set" <=> s.password = "set"
              /\ s.access_key # "set" /\ s.secret_key # "set" /\ s.region_id # "set"
           \/ /\ s.username # "set" /\ s.password # "set"
              /\ s.access_key = "set" /\ s.secret_key = "set"
  BY <1>2 DEF AuthOK, HasHttpAuth, HasAliyunAuth, Filled, Given, Texts
<1>4. S \in SUBSET Secrets
  OBVIOUS
<1> HIDE DEF S
<1>5. S \in {{}, {"username", "password"}, {"access_key", "secret_key"},
             {"access_key", "secret_key", "region_id"}}
        <=> \/ /\ "username" \in S <=> "password" \in S
               /\ "access_key" \notin S /\ "secret_key" \notin S /\ "region_id" \notin S
            \/ /\ "username" \notin S /\ "password" \notin S
               /\ "access_key" \in S /\ "secret_key" \in S
  BY <1>4, SetOfFour
<1> QED
  BY <1>1, <1>3, <1>5 DEF S

LEMMA AddressIs ==
  ASSUME NEW ids, NEW formats, NEW maps, NEW s \in Sources(ids, formats, maps)
  PROVE  AddressOK(s) <=> /\ s.server_addr # <<>> \/ s.endpoint = "set"
                          /\ "blank" \notin ToSet(s.server_addr)
<1> DEFINE a == s.server_addr
<1>1. a \in Seq({"blank", "set"})
  BY DEF Sources
<1> HIDE DEF a
<1>2. \A i \in DOMAIN a : a[i] \in {"blank", "set"}
  BY <1>1
<1>3. a # <<>> <=> \E i \in DOMAIN a : TRUE
  <2>1. Len(a) \in Nat /\ DOMAIN a = 1..Len(a)
    BY <1>1, LenProperties
  <2>2. a = <<>> <=> Len(a) = 0
    BY <1>1, EmptySeq
  <2>3. CASE Len(a) = 0
    BY <2>1, <2>2, <2>3
  <2>4. CASE Len(a) # 0
    <3>1. 1 \in DOMAIN a
      BY <2>1, <2>4
    <3> QED
      BY <2>2, <2>4, <3>1
  <2> QED
    BY <2>3, <2>4
<1>4. "blank" \notin ToSet(a) <=> \A i \in DOMAIN a : a[i] # "blank"
  BY DEF ToSet
<1>5. ("blank" \notin ToSet(a)) => (a # <<>> <=> \E i \in DOMAIN a : a[i] = "set")
  BY <1>2, <1>3, <1>4
<1> DEFINE filled == \E i \in DOMAIN a : a[i] = "set"
<1>6. AddressOK(s) <=> (s.endpoint = "set" \/ filled) /\ "blank" \notin ToSet(a)
  BY DEF AddressOK, Filled, a
<1> HIDE DEF filled
<1>7. ("blank" \notin ToSet(a)) => (a # <<>> <=> filled)
  BY <1>5 DEF filled
<1>8. AddressOK(s) <=> (a # <<>> \/ s.endpoint = "set") /\ "blank" \notin ToSet(a)
  BY <1>6, <1>7
<1> QED
  BY <1>8 DEF a

LEMMA ValidateIsUsable ==
  ASSUME NEW ids, NEW formats, NEW maps, NEW s \in Sources(ids, formats, maps)
  PROVE  Validate(s) <=> Usable(s)
<1>1. s.startup_timeout # 0 <=> s.startup_timeout > 0
  BY DEF Sources
<1>2. ValidateDataIdList(s.data_id) <=>
        /\ s.data_id # <<>> /\ "blank" \notin ToSet(s.data_id)
        /\ \A i, j \in DOMAIN s.data_id : s.data_id[i] = s.data_id[j] => i = j
  BY DEF ValidateDataIdList, IsInjective
<1>3. AuthOK(s) <=>
        /\ "blank" \notin {s.username, s.password}
        /\ {f \in Secrets : s[f] = "set"}
             \in {{}, {"username", "password"}, {"access_key", "secret_key"},
                  {"access_key", "secret_key", "region_id"}}
  BY AuthIs
<1>4. AddressOK(s) <=> /\ s.server_addr # <<>> \/ s.endpoint = "set"
                       /\ "blank" \notin ToSet(s.server_addr)
  BY AddressIs
<1> DEFINE inSets == {f \in Secrets : s[f] = "set"}
                       \in {{}, {"username", "password"}, {"access_key", "secret_key"},
                            {"access_key", "secret_key", "region_id"}}
<1>5. Usable(s) <=>
        /\ s.data_id # <<>> /\ \A i, j \in DOMAIN s.data_id : s.data_id[i] = s.data_id[j] => i = j
        /\ "blank" \notin ToSet(s.data_id) \cup ToSet(s.server_addr) \cup {s.username, s.password}
        /\ s.server_addr # <<>> \/ s.endpoint = "set"
        /\ s.group = "set" /\ s.startup_timeout > 0
        /\ inSets
  BY DEF Usable, Secrets
<1> HIDE DEF inSets
<1>6. "blank" \notin ToSet(s.data_id) \cup ToSet(s.server_addr) \cup {s.username, s.password}
        <=> /\ "blank" \notin ToSet(s.data_id) /\ "blank" \notin ToSet(s.server_addr)
            /\ "blank" \notin {s.username, s.password}
  OBVIOUS
<1> DEFINE noBlank == "blank" \notin {s.username, s.password}
           ownIds == \A i, j \in DOMAIN s.data_id : s.data_id[i] = s.data_id[j] => i = j
           blankIds == "blank" \in ToSet(s.data_id)
           blankAddr == "blank" \in ToSet(s.server_addr)
<1>7. AuthOK(s) <=> noBlank /\ inSets
  BY <1>3 DEF inSets
<1>8. Validate(s) <=>
        /\ ValidateDataIdList(s.data_id) /\ s.group = "set"
        /\ AddressOK(s) /\ s.startup_timeout # 0 /\ AuthOK(s)
  BY DEF Validate, Filled
<1> QED
  BY <1>1, <1>2, <1>4, <1>5, <1>6, <1>7, <1>8

(* A remote configuration is built from the usable sources and no others,  *)
(* with at most one plugin of the SDK and credentials for it, and pushed   *)
(* contents are parsed like loaded ones, for any source.                   *)
THEOREM SourcesAreUsable ==
  ASSUME NEW ids, NEW formats, NEW maps, NEW s \in Sources(ids, formats, maps), NEW types
  PROVE  SourceIsUsable(s, types)
<1>1. ASSUME NEW local \in {"none", "inline", "file"}
      PROVE  /\ Build("remote", local, <<s>>) = "remote" <=> Usable(s)
             /\ Build("local", local, <<s>>) = "local" <=> local # "none"
  <2>1. <<s>> # <<>> /\ <<s>>[1] = s
    OBVIOUS
  <2>2. Build("remote", local, <<s>>) = IF Validate(s) THEN "remote" ELSE "invalid"
    BY <2>1 DEF Build
  <2>3. Build("local", local, <<s>>) = IF local = "none" THEN "missing" ELSE "local"
    BY DEF Build
  <2> QED
    BY <2>2, <2>3, ValidateIsUsable
<1>2. ASSUME Validate(s)
      PROVE  /\ ClientProps(s).endpoint \/ ClientProps(s).server_addr # <<>>
             /\ s.access_key # "blank" =>
                  /\ \A p, q \in Plugins(s) : p = q
                  /\ \A p \in Plugins(s) : Credentials(s, p) = <<"set", "set">>
  <2>1. ClientProps(s).endpoint \/ ClientProps(s).server_addr # <<>>
    <3>1. /\ ClientProps(s).endpoint = Filled(s.endpoint)
          /\ ClientProps(s).server_addr = s.server_addr
      BY DEF ClientProps
    <3>2. s.endpoint = "set" \/ s.server_addr # <<>>
      BY <1>2, AddressIs DEF Validate
    <3> QED
      BY <3>1, <3>2 DEF Filled
  <2>2. ASSUME s.access_key # "blank"
        PROVE  /\ \A p, q \in Plugins(s) : p = q
               /\ \A p \in Plugins(s) : Credentials(s, p) = <<"set", "set">>
    <3>1. s.username \in Texts /\ s.password \in Texts /\ s.access_key \in Texts
      BY DEF Sources
    <3>2. /\ s.username # "none" => /\ s.username = "set" /\ s.password = "set"
                                    /\ s.access_key = "none"
          /\ s.access_key # "none" => s.access_key = "set" /\ s.secret_key = "set"
      BY <1>2, <2>2, <3>1
      DEF Validate, AuthOK, HasHttpAuth, HasAliyunAuth, Filled, Given, Texts
    <3>3. /\ Plugins(s) \subseteq {"http", "aliyun"}
          /\ "http" \in Plugins(s) <=> s.username # "none"
          /\ "aliyun" \in Plugins(s) <=> s.access_key # "none"
      BY DEF Plugins, Given
    <3>4. /\ Credentials(s, "http") = Both(s.username, s.password)
          /\ Credentials(s, "aliyun") = Both(s.access_key, s.secret_key)
      BY DEF Credentials, ClientProps
    <3>5. \A p, q \in Plugins(s) : p = q
      BY <3>2, <3>3
    <3>6. Both("set", "set") = <<"set", "set">>
      BY DEF Both, Given
    <3>7. ASSUME NEW p \in Plugins(s) PROVE Credentials(s, p) = <<"set", "set">>
      BY <3>2, <3>3, <3>4, <3>6
    <3> QED
      BY <3>5, <3>7
  <2> QED
    BY <2>1, <2>2
<1>3. \A i \in DOMAIN s.data_id, type \in types :
        ResolveFormat(s, s.data_id[i], type) = NotifyFormat(Listener(s), s.data_id[i], type)
  BY DEF ResolveFormat, NotifyFormat, Listener, ExplicitFormatFor
<1> QED
  BY <1>1, <1>2, <1>3 DEF SourceIsUsable
-----------------------------------------------------------------------------
(* The calls that an application makes.                                    *)
LEMMA BlockCallsOf ==
  ASSUME NEW c \in Calls(Paddings)
  PROVE  c \in BlockCall /\ c.alg # "aes_gcm"
  BY BufferAssumption DEF Calls, BlockCall, None

GcmKeys == [len : Nat, id : {1, 2}]

LEMMA GcmCallsOf ==
  /\ MCGcmCalls \subseteq GcmCalls(GcmKeys, GcmOptions, GcmKeys, {1, 2})
  /\ \A c \in MCGcmCalls : c.alg = "aes_gcm"
  /\ MCTexts \subseteq Seq({<<1>>, <<2>>})
<1> DEFINE sizes == {0} \cup 11..17
<1>1. /\ [nonce_size : sizes, tag_size : sizes] \subseteq GcmOptions
      /\ [nonce_size : {0}, tag_size : {0}] \subseteq GcmOptions
  BY DEF GcmOptions
<1>2. /\ [len : {16}, id : {1}] \subseteq GcmKeys /\ [len : 11..17, id : {1}] \subseteq GcmKeys
      /\ [len : {0, 16, 24, 32}, id : {1, 2}] \subseteq GcmKeys
      /\ [len : {12, 16}, id : {1, 2}] \subseteq GcmKeys
  BY DEF GcmKeys
<1>3. MCGcmCalls \subseteq GcmCalls(GcmKeys, GcmOptions, GcmKeys, {1, 2})
  BY <1>1, <1>2 DEF MCGcmCalls, GcmCalls
<1>4. \A c \in MCGcmCalls : c.alg = "aes_gcm"
  BY DEF MCGcmCalls, GcmCalls
<1>5. MCTexts \subseteq Seq({<<1>>, <<2>>})
  <2> DEFINE x == <<1>>
             y == <<2>>
  <2> HIDE DEF x, y
  <2>1. <<>> \in Seq({x, y}) /\ <<x>> \in Seq({x, y}) /\ <<x, y>> \in Seq({x, y})
    OBVIOUS
  <2> QED
    BY <2>1 DEF MCTexts, x, y
<1> QED
  BY <1>3, <1>4, <1>5

LEMMA SourcesOf ==
  MCSources \subseteq Sources({"app.yml", "shared", "blank"}, {"none", "json"},
                             {<<>>, [d \in {"shared"} |-> "ron"]})
<1> DEFINE ids == {"app.yml", "shared", "blank"}
           formats == {"none", "json"}
           given == [d \in {"shared"} |-> "ron"]
           maps == {<<>>, given}
           All == Sources(ids, formats, maps)
           base == [server_addr |-> <<"set">>, endpoint |-> "none", data_id |-> <<"app.yml", "shared">>,
                    group |-> "set", startup_timeout |-> 1, format |-> "none", data_id_formats |-> <<>>,
                    username |-> "none", password |-> "none", access_key |-> "none",
                    secret_key |-> "none", region_id |-> "none"]
           withKeys(u, w, a, k, r) ==
             [base EXCEPT !.username = u, !.password = w, !.access_key = a, !.secret_key = k,
                          !.region_id = r]
           first == {withKeys(u, w, a, k, r) : u, w, a, k, r \in Texts}
           withIds(d, addrs, e, g, t) ==
             [base EXCEPT !.data_id = d, !.server_addr = addrs, !.endpoint = e, !.group = g,
                          !.startup_timeout = t]
           second == {withIds(d, addrs, e, g, t) :
                        d \in {<<>>, <<"shared">>, <<"shared", "shared">>, <<"blank", "shared">>},
                        addrs \in {<<>>, <<"set", "blank">>, <<"set", "set">>},
                        e \in Texts, g \in {"blank", "set"}, t \in 0..1}
           third == {[base EXCEPT !.format = f, !.data_id_formats = fs] :
                       f \in {"none", "json"}, fs \in {<<>>, given}}
<1>1. MCSources = first \cup second \cup third
  BY DEF MCSources
<1>2. /\ <<"set">> \in Seq({"blank", "set"}) /\ <<"app.yml", "shared">> \in Seq(ids)
      /\ "none" \in Texts /\ <<>> \in maps
  BY DEF Texts
<1> HIDE DEF given
<1>3. base \in All
  BY <1>2 DEF Sources
<1> HIDE DEF base
<1>4. first \subseteq All
  <2>1. ASSUME NEW u \in Texts, NEW w \in Texts, NEW a \in Texts, NEW k \in Texts, NEW r \in Texts
        PROVE  withKeys(u, w, a, k, r) \in All
    <3> HIDE DEF ids, formats, maps
    <3> QED
      BY <1>3 DEF Sources
  <2> HIDE DEF withKeys, All
  <2> QED
    BY <2>1
<1>5. second \subseteq All
  <2> DEFINE Ids == {<<>>, <<"shared">>, <<"shared", "shared">>, <<"blank", "shared">>}
             Addrs == {<<>>, <<"set", "blank">>, <<"set", "set">>}
  <2>1. Ids \subseteq Seq(ids)
    <3>1. /\ <<>> \in Seq(ids) /\ <<"shared">> \in Seq(ids)
          /\ <<"shared", "shared">> \in Seq(ids) /\ <<"blank", "shared">> \in Seq(ids)
      OBVIOUS
    <3> QED
      BY <3>1
  <2>2. Addrs \subseteq Seq({"blank", "set"})
    <3>1. /\ <<>> \in Seq({"blank", "set"}) /\ <<"set", "blank">> \in Seq({"blank", "set"})
          /\ <<"set", "set">> \in Seq({"blank", "set"})
      OBVIOUS
    <3> QED
      BY <3>1
  <2>3. ASSUME NEW d \in Ids, NEW addrs \in Addrs, NEW e \in Texts, NEW g \in {"blank", "set"},
               NEW t \in 0..1
        PROVE  withIds(d, addrs, e, g, t) \in All
    <3>1. t \in Nat
      OBVIOUS
    <3> HIDE DEF ids, formats, maps, Ids, Addrs
    <3> QED
      BY <1>3, <2>1, <2>2, <3>1 DEF Sources
  <2> HIDE DEF withIds, All
  <2> QED
    BY <2>3
<1>6. third \subseteq All
  <2> SUFFICES ASSUME NEW f \in formats, NEW fs \in maps
               PROVE  [base EXCEPT !.format = f, !.data_id_formats = fs] \in All
    OBVIOUS
  <2> HIDE DEF ids, formats, maps
  <2> QED
    BY <1>3 DEF Sources
<1> HIDE DEF first, second, third
<1>7. MCSources \subseteq All
  BY <1>1, <1>4, <1>5, <1>6
<1> QED
  BY <1>7 DEF given

HelpersInv ==
  /\ part = "source" /\ call # <<>> => call \in MCSources
  /\ part = "cipher" /\ call # <<>> =>
       \/ call \in Calls(Paddings) /\ data \in Buffers
       \/ call \in MCGcmCalls /\ data \in MCTexts

LEMMA HelpersStart == Init => HelpersInv
  BY DEF Init, HelpersInv

LEMMA HelpersSteps == HelpersInv /\ [Next]_vars => HelpersInv'
<1> SUFFICES ASSUME HelpersInv, [Next]_vars PROVE HelpersInv'
  OBVIOUS
<1>1. CASE UNCHANGED <<call, data, part>>
  BY <1>1 DEF HelpersInv
<1>2. CASE UNCHANGED part /\ part = "cipher" /\ DecryptCall
  BY <1>2 DEF HelpersInv, DecryptCall
<1>3. CASE UNCHANGED part /\ part = "source" /\ SourceGiven
  BY <1>3 DEF HelpersInv, SourceGiven
<1>4. \/ UNCHANGED <<call, data, part>>
      \/ UNCHANGED part /\ part = "cipher" /\ DecryptCall
      \/ UNCHANGED part /\ part = "source" /\ SourceGiven
  BY DEF Next, Finished, vars
<1> QED
  BY <1>1, <1>2, <1>3, <1>4

(* Whatever call an application makes of the ciphers, what it decrypts is  *)
(* what was encrypted, and what is not the image of a text is refused.     *)
THEOREM CallsInvert == Spec => []DecryptIsInverse
<1>1. HelpersInv => DecryptIsInverse
  <2> SUFFICES ASSUME HelpersInv, part = "cipher", call # <<>>
               PROVE  IF call.alg = "aes_gcm" THEN GcmInverts(call, data, MCGcmCalls)
                      ELSE Inverts(call, data, Paddings)
    BY DEF DecryptIsInverse
  <2>1. CASE call \in Calls(Paddings) /\ data \in Buffers
    <3>1. call \in BlockCall /\ call.alg # "aes_gcm"
      BY <2>1, BlockCallsOf
    <3>2. data \in Seq(Byte) /\ Paddings \in SUBSET (Nat \cup {None})
      BY <2>1, BufferAssumption
    <3>3. Inverts(call, data, Paddings)
      BY <3>1, <3>2, BlockModesInvert
    <3> QED
      BY <3>1, <3>3
  <2>2. CASE call \in MCGcmCalls /\ data \in MCTexts
    <3> DEFINE X == {<<1>>, <<2>>}
    <3>1. /\ call \in GcmCalls(GcmKeys, GcmOptions, GcmKeys, {1, 2})
          /\ MCGcmCalls \in SUBSET GcmCalls(GcmKeys, GcmOptions, GcmKeys, {1, 2})
          /\ data \in Seq(X) /\ call.alg = "aes_gcm"
      BY <2>2, GcmCallsOf
    <3> HIDE DEF X
    <3>2. GcmInverts(call, data, MCGcmCalls)
      BY <3>1, GcmInvertsAll
    <3> QED
      BY <3>1, <3>2
  <2> QED
    BY <2>1, <2>2 DEF HelpersInv
<1> QED
  BY <1>1, HelpersStart, HelpersSteps, PTL DEF Spec

(* Whatever source an application gives, what validate accepts is usable.  *)
THEOREM AcceptedAreUsable == Spec => []AcceptedIsUsable
<1>1. HelpersInv => AcceptedIsUsable
  <2> SUFFICES ASSUME HelpersInv, part = "source", call # <<>>
               PROVE  SourceIsUsable(call, {"text", "yaml", "properties"})
    BY DEF AcceptedIsUsable
  <2>1. call \in MCSources
    BY DEF HelpersInv
  <2>2. \A ids, formats, maps : MCSources \subseteq Sources(ids, formats, maps)
                                 => SourceIsUsable(call, {"text", "yaml", "properties"})
    BY <2>1, SourcesAreUsable
  <2> QED
    BY <2>2, SourcesOf
<1> QED
  BY <1>1, HelpersStart, HelpersSteps, PTL DEF Spec

-----------------------------------------------------------------------------
(* The helpers of neon-sql.  The rows of a table.                          *)

Row == [id : Nat, name : Name]

KeptStages(f, table, names) ==
  /\ f[0] = <<>>
  /\ \A k \in 1..Len(table) :
       f[k] = IF table[k].name \in names THEN Append(f[k - 1], table[k]) ELSE f[k - 1]
  /\ Kept(table, names) = f[Len(table)]

LEMMA KeptHasStages ==
  ASSUME NEW table \in Seq(Row), NEW names
  PROVE  \E f \in [0..Len(table) -> Seq(Row)] : KeptStages(f, table, names)
<1> DEFINE n == Len(table)
           X == Seq(Row)
           step == [k \in 1..n |-> [q \in X |->
                      IF table[k].name \in names THEN Append(q, table[k]) ELSE q]]
           Runs(f) == f = [k \in 0..n |->
                             IF k = 0 THEN <<>>
                             ELSE IF table[k].name \in names THEN Append(f[k - 1], table[k])
                             ELSE f[k - 1]]
<1>1. n \in Nat /\ \A k \in 1..n : table[k] \in Row
  BY LenProperties, ElementOfSeq
<1>2. \A q \in X, k \in 1..n :
        (IF table[k].name \in names THEN Append(q, table[k]) ELSE q) \in X
  <2> SUFFICES ASSUME NEW q \in X, NEW k \in 1..n
               PROVE  (IF table[k].name \in names THEN Append(q, table[k]) ELSE q) \in X
    OBVIOUS
  <2>1. Append(q, table[k]) \in X
    BY <1>1, AppendProperties
  <2> QED
    BY <2>1
<1>3. step \in [1..n -> [X -> X]]
  BY <1>2
<1>4. PICK f \in [0..n -> X] : IsRecursion(f, n, <<>>, step)
  <2>1. <<>> \in X
    OBVIOUS
  <2> HIDE DEF X, step, n
  <2> QED
    BY <1>1, <1>3, <2>1, RecursionExists
<1> DEFINE e(g, k) == IF table[k].name \in names THEN Append(g[k - 1], table[k]) ELSE g[k - 1]
<1>5. \A k \in 1..n : step[k][f[k - 1]] = e(f, k)
  <2> SUFFICES ASSUME NEW k \in 1..n PROVE step[k][f[k - 1]] = e(f, k)
    OBVIOUS
  <2>1. k - 1 \in 0..n
    BY <1>1
  <2>2. f[k - 1] \in X
    BY <2>1
  <2> QED
    BY <2>2
<1>6. f[0] = <<>> /\ \A k \in 1..n : f[k] = e(f, k)
  <2> HIDE DEF step, n, e
  <2>1. f = [k \in 0..n |-> IF k = 0 THEN <<>> ELSE step[k][f[k - 1]]]
    BY <1>4 DEF IsRecursion
  <2>2. 0 \in 0..n /\ \A k \in 1..n : k \in 0..n /\ k # 0
    BY <1>1
  <2> QED
    BY <1>5, <2>1, <2>2
<1>7. Runs(f)
  <2> DEFINE r(k) == IF k = 0 THEN <<>> ELSE e(f, k)
  <2>1. \A k \in 0..n : k = 0 \/ k \in 1..n
    BY <1>1
  <2>2. ASSUME NEW k \in 0..n PROVE f[k] = r(k)
    <3> HIDE DEF e, n
    <3> QED
      BY <1>6, <2>1
  <2>3. f = [k \in 0..n |-> r(k)]
    <3> HIDE DEF r, n
    <3> QED
      BY <2>2
  <2> QED
    BY <2>3
<1>8. \A g : Runs(g) => g = f
  <2> SUFFICES ASSUME NEW g, Runs(g) PROVE g = f
    OBVIOUS
  <2>1. g[0] = <<>> /\ \A k \in 1..n : g[k] = e(g, k)
    <3>1. 0 \in 0..n /\ \A k \in 1..n : k \in 0..n /\ k # 0
      BY <1>1
    <3> QED
      BY <3>1
  <2> HIDE DEF Runs, step, X
  <2>2. ASSUME NEW m \in 0..n PROVE g[m] = f[m]
    <3>1. m \in Nat /\ \A k \in 1..m : k \in 1..n
      BY <1>1
    <3>2. g[0] = f[0]
      BY <1>6, <2>1
    <3>3. \A k \in 1..m : g[k - 1] = f[k - 1] => g[k] = f[k]
      <4> SUFFICES ASSUME NEW k \in 1..m, g[k - 1] = f[k - 1] PROVE g[k] = f[k]
        OBVIOUS
      <4>1. g[k] = e(g, k) /\ f[k] = e(f, k) /\ e(g, k) = e(f, k)
        BY <1>6, <2>1, <3>1
      <4> QED
        BY <4>1
    <3> QED
      BY <3>1, <3>2, <3>3, SameSteps
  <2>3. DOMAIN g = 0..n /\ DOMAIN f = 0..n
    BY DEF Runs
  <2>4. g = [k \in 0..n |-> g[k]]
    BY DEF Runs
  <2>5. f = [k \in 0..n |-> f[k]]
    OBVIOUS
  <2> HIDE DEF n, e
  <2> QED
    BY <2>2, <2>4, <2>5
<1>9. (CHOOSE g : Runs(g)) = f
  <2> HIDE DEF Runs
  <2> QED
    BY <1>7, <1>8
<1>10. Kept(table, names) = f[n]
  BY <1>9 DEF Kept
<1> QED
  BY <1>6, <1>10 DEF KeptStages

LEMMA KeptIs ==
  ASSUME NEW table \in Seq(Row), NEW names
  PROVE  Kept(table, names) \in Seq(Row) /\ Len(Kept(table, names)) <= Len(table)
<1>1. PICK f \in [0..Len(table) -> Seq(Row)] : KeptStages(f, table, names)
  BY KeptHasStages
<1> DEFINE n == Len(table)
           S == {k \in 0..n : Len(f[k]) <= k}
<1>2. n \in Nat /\ \A k \in 1..n : table[k] \in Row
  BY LenProperties, ElementOfSeq
<1>3. 0 \in S
  <2>1. f[0] = <<>> /\ Len(<<>>) = 0
    BY <1>1 DEF KeptStages
  <2> QED
    BY <1>2, <2>1
<1>4. ASSUME NEW k \in 0..(n - 1), k \in S PROVE k + 1 \in S
  <2>1. k + 1 \in 1..n /\ k + 1 \in 0..n /\ (k + 1) - 1 = k /\ k \in 0..n
    BY <1>2
  <2>2. f[k + 1] = (IF table[k + 1].name \in names THEN Append(f[k], table[k + 1]) ELSE f[k])
    BY <1>1, <2>1 DEF KeptStages
  <2>3. f[k] \in Seq(Row) /\ table[k + 1] \in Row
    BY <1>2, <2>1
  <2>4. Len(f[k]) \in Nat /\ Len(Append(f[k], table[k + 1])) = Len(f[k]) + 1
    BY <2>3, AppendProperties, LenProperties
  <2>5. Len(f[k]) <= k
    BY <1>4
  <2>6. Len(f[k + 1]) <= k + 1
    BY <2>1, <2>2, <2>4, <2>5
  <2> QED
    BY <2>1, <2>6
<1>5. n \in S
  <2> HIDE DEF S
  <2>1. 0..n \subseteq S
    BY <1>2, <1>3, <1>4, UpToInduction
  <2> QED
    BY <1>2, <2>1
<1> QED
  BY <1>1, <1>2, <1>5 DEF KeptStages

-----------------------------------------------------------------------------
Stmt == [names : SUBSET Name, limit : Nat \cup {Unset}, offset : Nat \cup {Unset}]

Query == [op : {"none", "insert", "ignore", "batch", "write", "count", "one", "all", "page", "paged"},
          no : Nat, stmt : Stmt, page : 0..MaxUint, size : 0..MaxUint, total : Nat,
          lost : BOOLEAN, quiet : BOOLEAN,
          ans : {"none", "ok", "inserted", "duplicate", "err"}, got : Seq(Nat \cup Row)]

ByCall(m, no) == {id \in DOMAIN m : m[id] = no}

Told(q, m) ==
  q.op \in {"insert", "batch"} =>
    /\ q.ans \in {"inserted", "ok"} => ByCall(m, q.no) = ToSet(q.got) /\ q.got # <<>>
    /\ q.ans = "duplicate" \/ (q.ans = "err" /\ ~q.lost) => ByCall(m, q.no) = {}

FirstRow(page, per) == (IF page = 0 THEN 0 ELSE page - 1) * PageSize(per)

FirstOf(q) == FirstRow(q.page, q.size)

Exact(q, table, b) ==
  LET all == Kept(table, q.stmt.names)
  IN  /\ q.op = "count" /\ ~q.lost /\ q.quiet => q.got = <<Len(all)>>
      /\ q.op = "paged" /\ ~q.lost /\ q.quiet =>
           /\ q.total = Len(all)
           /\ q.ans = "ok" =>
                q.got = SubSeq(all, FirstOf(q) + 1, Min({Len(all), FirstOf(q) + PageSize(q.size)}))
           /\ q.ans # "ok" =>
                all # <<>> /\ b # "mysql" /\ (FirstOf(q) > MaxInt \/ PageSize(q.size) > MaxInt)

Waits(q, table) ==
  q.op = "page" => ~q.lost /\ q.total # 0 /\ (q.quiet => q.total = Len(Kept(table, q.stmt.names)))

Good(q, n, m, table, b) ==
  q \in Query /\ q.no <= n /\ Told(q, m) /\ Exact(q, table, b) /\ Waits(q, table)

SqlInv ==
  /\ backend \in {"pgsql", "mysql", "sqlite"}
  /\ begun \in 0..MaxCalls
  /\ made \in Seq(1..begun)
  /\ rows \in Seq(Row) /\ Len(rows) <= 2 * begun
  /\ query = [c \in Client |-> query[c]]
  /\ \A c \in Client : Good(query[c], begun, made, rows, backend)

LEMMA InvShows == SqlInv => InsertIsTold /\ ReadsAreExact
<1> SUFFICES ASSUME SqlInv PROVE InsertIsTold /\ ReadsAreExact
  OBVIOUS
<1>1. \A c \in Client : Told(query[c], made) /\ Exact(query[c], rows, backend)
  BY DEF SqlInv, Good
<1>2. InsertIsTold
  BY <1>1 DEF InsertIsTold, Told, MadeBy, ByCall
<1>3. ReadsAreExact
  <2> SUFFICES ASSUME NEW c \in Client
               PROVE  LET q     == query[c]
                          all   == Matching(q.stmt)
                          first == (IF q.page = 0 THEN 0 ELSE q.page - 1) * PageSize(q.size)
                      IN  /\ q.op = "count" /\ ~q.lost /\ q.quiet => q.got = <<Len(all)>>
                          /\ q.op = "paged" /\ ~q.lost /\ q.quiet =>
                               /\ q.total = Len(all)
                               /\ q.ans = "ok" =>
                                    q.got = SubSeq(all, first + 1, Min({Len(all), first + PageSize(q.size)}))
                               /\ q.ans # "ok" =>
                                    /\ all # <<>> /\ backend # "mysql"
                                    /\ first > MaxInt \/ PageSize(q.size) > MaxInt
    BY DEF ReadsAreExact
  <2>1. Exact(query[c], rows, backend)
    BY <1>1
  <2> QED
    BY <2>1 DEF Exact, FirstOf, FirstRow, Matching
<1> QED
  BY <1>2, <1>3

-----------------------------------------------------------------------------
LEMMA NoCall == Idle \in Query /\ \A n \in Nat : \A m, table, b : Good(Idle, n, m, table, b)
<1>1. NoStmt \in Stmt
  BY DEF NoStmt, Stmt, Unset
<1>2. 0 \in 0..MaxUint
  BY SqlAssumption
<1>3. <<>> \in Seq(Nat \cup Row)
  OBVIOUS
<1>4. Idle \in Query
  BY <1>1, <1>2, <1>3 DEF Idle, Query
<1>5. Idle.op = "none" /\ Idle.no = 0
  BY DEF Idle
<1> QED
  BY <1>4, <1>5 DEF Good, Told, Exact, Waits

(* The answer of a call without a page, as a record of its parts.          *)
Answered(q, op, s, lost, ans, got) ==
  /\ q \in Query /\ q.no = begun + 1
  /\ q.op = op /\ q.stmt = s /\ q.lost = lost /\ q.ans = ans /\ q.got = got
  /\ q.page = 0 /\ q.size = 0 /\ q.total = 0

LEMMA AnswerIs ==
  ASSUME begun \in Nat, NEW s \in Stmt, NEW lost \in BOOLEAN,
         NEW op \in {"insert", "ignore", "batch", "write", "count", "one", "all", "paged"},
         NEW ans \in {"ok", "inserted", "duplicate", "err"}, NEW got \in Seq(Nat \cup Row)
  PROVE  Answered(Answer(op, s, lost, ans, got), op, s, lost, ans, got)
<1>1. 0 \in 0..MaxUint /\ begun + 1 \in Nat
  BY SqlAssumption
<1>2. Answer(op, s, lost, ans, got) \in Query
  BY <1>1 DEF Query, Answer
<1> QED
  BY <1>2 DEF Answered, Answer

(* The history of other calls does not matter to one that is answered.     *)
LEMMA HistoryGrows ==
  ASSUME NEW n \in Nat, NEW m \in Seq(1..n), NEW more \in Seq({n + 1}), NEW no \in 0..n
  PROVE  ByCall(m \o more, no) = ByCall(m, no)
<1>1. m \in Seq(Nat) /\ more \in Seq(Nat)
  <2>1. 1..n \subseteq Nat /\ {n + 1} \subseteq Nat
    OBVIOUS
  <2> QED
    BY <2>1
<1> DEFINE p == m \o more
<1>2. /\ Len(p) = Len(m) + Len(more) /\ p \in Seq(Nat)
      /\ \A i \in 1..(Len(m) + Len(more)) : p[i] = IF i <= Len(m) THEN m[i] ELSE more[i - Len(m)]
  BY <1>1, ConcatProperties
<1>3. Len(m) \in Nat /\ Len(more) \in Nat /\ DOMAIN m = 1..Len(m)
  BY LenProperties
<1>4. DOMAIN p = 1..(Len(m) + Len(more))
  BY <1>2, LenProperties
<1>5. \A i \in 1..Len(more) : more[i] = n + 1
  BY ElementOfSeq
<1> HIDE DEF p
<1>6. \A id \in DOMAIN p : p[id] = no <=> id \in DOMAIN m /\ m[id] = no
  <2> SUFFICES ASSUME NEW id \in DOMAIN p PROVE p[id] = no <=> id \in DOMAIN m /\ m[id] = no
    OBVIOUS
  <2>1. CASE id <= Len(m)
    BY <1>2, <1>3, <1>4, <2>1
  <2>2. CASE ~ (id <= Len(m))
    <3>1. id - Len(m) \in 1..Len(more) /\ id \notin 1..Len(m)
      BY <1>3, <1>4, <2>2
    <3>2. p[id] = n + 1
      BY <1>2, <1>4, <1>5, <2>2, <3>1
    <3> QED
      BY <1>3, <3>1, <3>2
  <2> QED
    BY <2>1, <2>2
<1>7. DOMAIN m \subseteq DOMAIN p
  BY <1>3, <1>4
<1>8. ByCall(p, no) = ByCall(m, no)
  BY <1>6, <1>7 DEF ByCall
<1> QED
  BY <1>8 DEF p

-----------------------------------------------------------------------------
(* A query that was answered, or is under way, when something else happens. *)
LEMMA GoodLater ==
  ASSUME NEW n \in Nat, NEW m \in Seq(1..n), NEW more \in Seq({n + 1}), NEW table, NEW next,
         NEW b, NEW q, Good(q, n, m, table, b)
  PROVE  /\ Good(q, n + 1, m, table, b)
         /\ Good([q EXCEPT !.quiet = FALSE], n + 1, m \o more, next, b)
<1>1. q \in Query /\ q.no \in 0..n /\ q.no <= n + 1
  BY DEF Good, Query
<1>2. Good(q, n + 1, m, table, b)
  BY <1>1 DEF Good
<1>3. ByCall(m \o more, q.no) = ByCall(m, q.no)
  BY <1>1, HistoryGrows
<1> DEFINE r == [q EXCEPT !.quiet = FALSE]
<1>4. r \in Query
  BY <1>1 DEF Query
<1>5. /\ r.no = q.no /\ r.op = q.op /\ r.lost = q.lost /\ r.ans = q.ans /\ r.got = q.got
      /\ r.total = q.total /\ ~r.quiet
  BY <1>1 DEF Query
<1> HIDE DEF r
<1>6. Told(r, m \o more)
  BY <1>3, <1>5 DEF Told, Good
<1>7. Exact(r, next, b)
  BY <1>5 DEF Exact
<1>8. Waits(r, next)
  BY <1>5 DEF Waits, Good
<1>9. Good(r, n + 1, m \o more, next, b)
  BY <1>1, <1>4, <1>5, <1>6, <1>7, <1>8 DEF Good
<1> QED
  BY <1>2, <1>9 DEF r

LEMMA CallKeeps ==
  ASSUME SqlInv, NEW c \in Client, NEW q, Call(c, q), UNCHANGED <<backend, rows, made>>,
         Good(q, begun + 1, made, rows, backend)
  PROVE  SqlInv'
<1>1. /\ begun \in Nat /\ begun' = begun + 1 /\ begun' \in 0..MaxCalls
      /\ made \in Seq(1..begun) /\ rows \in Seq(Row) /\ Len(rows) <= 2 * begun
  BY SqlAssumption DEF Call, SqlInv
<1>2. made \in Seq(1..(begun + 1))
  <2>1. 1..begun \subseteq 1..(begun + 1)
    BY <1>1
  <2> QED
    BY <1>1, <2>1
<1>3. Len(rows) <= 2 * (begun + 1)
  BY <1>1, LenProperties
<1>4. query' = [query EXCEPT ![c] = q] /\ query = [d \in Client |-> query[d]]
  BY DEF Call, SqlInv
<1>5. query' = [d \in Client |-> query'[d]]
  BY <1>4
<1>6. ASSUME NEW d \in Client PROVE Good(query'[d], begun + 1, made, rows, backend)
  <2>1. CASE d = c
    BY <1>4, <2>1
  <2>2. CASE d # c
    <3>1. query'[d] = query[d] /\ Good(query[d], begun, made, rows, backend)
      BY <1>4, <2>2 DEF SqlInv
    <3>2. <<>> \in Seq({begun + 1})
      OBVIOUS
    <3>3. Good(query[d], begun + 1, made, rows, backend)
      BY <1>1, <3>1, <3>2, GoodLater
    <3> QED
      BY <3>1, <3>3
  <2> QED
    BY <2>1, <2>2
<1>7. \A d \in Client : Good(query'[d], begun', made', rows', backend')
  BY <1>1, <1>6
<1>8. made' \in Seq(1..begun') /\ rows' \in Seq(Row) /\ Len(rows') <= 2 * begun'
  BY <1>1, <1>2, <1>3
<1>9. backend' \in {"pgsql", "mysql", "sqlite"}
  BY DEF SqlInv
<1> QED
  BY <1>1, <1>5, <1>7, <1>8, <1>9 DEF SqlInv

LEMMA WriteKeeps ==
  ASSUME SqlInv, NEW c \in Client, NEW q, NEW table \in Seq(Row), NEW more \in Seq({begun + 1}),
         Write(c, q, table, more), Len(table) <= Len(rows) + 2,
         Good(q, begun + 1, made \o more, table, backend)
  PROVE  SqlInv'
<1>1. /\ begun \in Nat /\ begun' = begun + 1 /\ begun' \in 0..MaxCalls
      /\ made \in Seq(1..begun) /\ rows \in Seq(Row) /\ Len(rows) <= 2 * begun
      /\ rows' = table /\ made' = made \o more /\ backend' = backend
  BY SqlAssumption DEF Write, SqlInv
<1>2. made \o more \in Seq(1..(begun + 1))
  <2>1. 1..begun \subseteq 1..(begun + 1) /\ {begun + 1} \subseteq 1..(begun + 1)
    BY <1>1
  <2>2. made \in Seq(1..(begun + 1)) /\ more \in Seq(1..(begun + 1))
    BY <1>1, <2>1
  <2> QED
    BY <2>2, ConcatProperties
<1>3. Len(table) <= 2 * (begun + 1)
  BY <1>1, LenProperties
<1>4. query' = [d \in Client |-> IF d = c THEN q ELSE [query[d] EXCEPT !.quiet = FALSE]]
  BY DEF Write
<1>5. query' = [d \in Client |-> query'[d]]
  BY <1>4
<1>6. ASSUME NEW d \in Client PROVE Good(query'[d], begun + 1, made \o more, table, backend)
  <2>1. CASE d = c
    BY <1>4, <2>1
  <2>2. CASE d # c
    <3>1. query'[d] = [query[d] EXCEPT !.quiet = FALSE]
      BY <1>4, <2>2
    <3> DEFINE p == query[d]
    <3>2. Good(p, begun, made, rows, backend)
      BY DEF SqlInv
    <3> HIDE DEF p
    <3>3. Good([p EXCEPT !.quiet = FALSE], begun + 1, made \o more, table, backend)
      BY <1>1, <3>2, GoodLater
    <3> QED
      BY <3>1, <3>3 DEF p
  <2> QED
    BY <2>1, <2>2
<1>7. \A d \in Client : Good(query'[d], begun', made', rows', backend')
  BY <1>1, <1>6
<1>8. made' \in Seq(1..begun') /\ rows' \in Seq(Row) /\ Len(rows') <= 2 * begun'
  BY <1>1, <1>2, <1>3
<1>9. backend' \in {"pgsql", "mysql", "sqlite"}
  BY <1>1 DEF SqlInv
<1> QED
  BY <1>1, <1>5, <1>7, <1>8, <1>9 DEF SqlInv

LEMMA TurnKeeps ==
  ASSUME SqlInv, NEW c \in Client, NEW q, query' = [query EXCEPT ![c] = q],
         UNCHANGED <<backend, rows, made, begun>>, Good(q, begun, made, rows, backend)
  PROVE  SqlInv'
<1>1. query = [d \in Client |-> query[d]]
  BY DEF SqlInv
<1>2. query' = [d \in Client |-> query'[d]]
  BY <1>1
<1>3. \A d \in Client : Good(query'[d], begun, made, rows, backend)
  <2> SUFFICES ASSUME NEW d \in Client PROVE Good(query'[d], begun, made, rows, backend)
    OBVIOUS
  <2>1. CASE d = c
    BY <1>1, <2>1
  <2>2. CASE d # c
    <3>1. query'[d] = query[d]
      BY <1>1, <2>2
    <3> QED
      BY <3>1 DEF SqlInv
  <2> QED
    BY <2>1, <2>2
<1>4. \A d \in Client : Good(query'[d], begun', made', rows', backend')
  BY <1>3
<1> QED
  BY <1>2, <1>4 DEF SqlInv

-----------------------------------------------------------------------------
(* What the database returns.                                              *)
LEMMA MinOfTwo ==
  ASSUME NEW a \in Int, NEW b \in Int
  PROVE  Min({a, b}) = IF a <= b THEN a ELSE b
<1> DEFINE x == Min({a, b})
<1>1. \E y \in {a, b} : \A z \in {a, b} : y <= z
  OBVIOUS
<1>2. x \in {a, b} /\ \A z \in {a, b} : x <= z
  BY <1>1 DEF Min
<1> HIDE DEF x
<1>3. x = IF a <= b THEN a ELSE b
  BY <1>2
<1> QED
  BY <1>3 DEF x

LEMMA LimitedIs ==
  ASSUME NEW X, NEW q \in Seq(X), NEW s \in Stmt
  PROVE  Limited(q, s) \in Seq(X)
<1> DEFINE from == IF s.offset = Unset THEN 0 ELSE s.offset
           to   == IF s.limit = Unset THEN Len(q) ELSE Min({Len(q), from + s.limit})
<1>1. from \in Nat /\ (s.limit # Unset => s.limit \in Nat)
  BY DEF Stmt, Unset
<1>2. Len(q) \in Nat
  BY LenProperties
<1>3. to \in Int /\ to <= Len(q)
  <2>1. CASE s.limit = Unset
    BY <1>2, <2>1
  <2>2. CASE s.limit # Unset
    <3> HIDE DEF from
    <3>1. from + s.limit \in Int
      BY <1>1, <2>2
    <3>2. to = IF Len(q) <= from + s.limit THEN Len(q) ELSE from + s.limit
      BY <1>2, <2>2, <3>1, MinOfTwo
    <3> QED
      BY <1>2, <3>1, <3>2
  <2> QED
    BY <2>1, <2>2
<1>4. Limited(q, s) = SubSeq(q, from + 1, to)
  BY DEF Limited
<1> HIDE DEF from, to
<1>5. from + 1 \in Int /\ \A i \in (from + 1)..to : i \in 1..Len(q)
  BY <1>1, <1>2, <1>3
<1>6. \A i \in (from + 1)..to : q[i] \in X
  BY <1>5, ElementOfSeq
<1> QED
  BY <1>3, <1>4, <1>5, <1>6, SubSeqProperties

LEMMA CountedIs ==
  ASSUME SqlInv, NEW s \in Stmt
  PROVE  Counted(CountStmt(s)) = <<Len(Kept(rows, s.names))>> /\ Len(Kept(rows, s.names)) \in Nat
<1> DEFINE r == CountStmt(s)
           n == Len(Kept(rows, s.names))
<1>1. r.limit = Unset /\ r.offset = Unset /\ r.names = s.names
  BY DEF CountStmt, Stmt
<1> HIDE DEF r
<1>2. Counted(r) = SubSeq(<<n>>, 1, Len(<<n>>))
  BY <1>1 DEF Counted, Limited, Matching
<1>3. n \in Nat
  <2>1. Kept(rows, s.names) \in Seq(Row)
    BY KeptIs DEF SqlInv
  <2> QED
    BY <2>1, LenProperties
<1> HIDE DEF n
<1>4. SubSeq(<<n>>, 1, Len(<<n>>)) = <<n>>
  <2> DEFINE t == <<n>>
  <2>1. t \in Seq(Nat) /\ Len(t) = 1 /\ t[1] = n
    BY <1>3
  <2> HIDE DEF t
  <2> DEFINE u == SubSeq(t, 1, 1)
  <2>2. \A i \in 1..1 : t[i] \in Nat
    BY <1>3, <2>1
  <2>3. u \in Seq(Nat) /\ Len(u) = 1 /\ u[1] = t[1]
    BY <2>2, SubSeqProperties
  <2> HIDE DEF u
  <2>4. Len(u) = Len(t) /\ \A i \in 1..Len(u) : u[i] = t[i]
    BY <2>1, <2>3
  <2>5. u = t
    BY <2>1, <2>3, <2>4, SeqEqual
  <2> QED
    BY <2>1, <2>5 DEF t, u
<1> QED
  BY <1>2, <1>3, <1>4 DEF r, n

LEMMA FoundIs ==
  ASSUME SqlInv, NEW s \in Stmt
  PROVE  Found(s) \in Seq(Row) /\ Found(s) \in Seq(Nat \cup Row)
<1>1. Matching(s) \in Seq(Row)
  BY KeptIs DEF SqlInv, Matching
<1>2. Found(s) \in Seq(Row)
  BY <1>1, LimitedIs DEF Found
<1> QED
  BY <1>2

-----------------------------------------------------------------------------
(* The answers of the operations.                                          *)
LEMMA PlainAnswer ==
  ASSUME SqlInv, NEW op \in {"ignore", "write", "one", "all"}, NEW s \in Stmt, NEW lost \in BOOLEAN,
         NEW ans \in {"ok", "inserted", "duplicate", "err"}, NEW got \in Seq(Nat \cup Row),
         NEW m, NEW table
  PROVE  Good(Answer(op, s, lost, ans, got), begun + 1, m, table, backend)
<1> DEFINE q == Answer(op, s, lost, ans, got)
<1>1. begun \in Nat
  BY SqlAssumption DEF SqlInv
<1>2. Answered(q, op, s, lost, ans, got)
  BY <1>1, AnswerIs
<1> HIDE DEF q
<1>3. /\ q \in Query /\ q.no <= begun + 1
      /\ q.op \notin {"insert", "batch", "count", "page", "paged"}
  BY <1>1, <1>2 DEF Answered
<1>4. Good(q, begun + 1, m, table, backend)
  BY <1>3 DEF Good, Told, Exact, Waits
<1> QED
  BY <1>4 DEF q

LEMMA LostAnswer ==
  ASSUME SqlInv, NEW op \in {"insert", "batch", "write", "count", "one", "all", "paged"},
         NEW m, NEW table
  PROVE  Good(Lost(op), begun + 1, m, table, backend)
<1> DEFINE q == Lost(op)
<1>1. begun \in Nat /\ NoStmt \in Stmt /\ <<>> \in Seq(Nat \cup Row)
  BY SqlAssumption DEF SqlInv, NoStmt, Stmt
<1>2. Answered(q, op, NoStmt, TRUE, "err", <<>>)
  BY <1>1, AnswerIs DEF Lost
<1> HIDE DEF q
<1>3. q \in Query /\ q.no <= begun + 1 /\ q.lost /\ q.ans = "err" /\ q.op # "page"
  BY <1>1, <1>2 DEF Answered
<1>4. Good(q, begun + 1, m, table, backend)
  BY <1>3 DEF Good, Told, Exact, Waits
<1> QED
  BY <1>4 DEF q

(* No id was made by a call that comes after all of them.                  *)
LEMMA MadeByNew ==
  ASSUME NEW n \in Nat, NEW m \in Seq(1..n), NEW more \in Seq({n + 1})
  PROVE  ByCall(m \o more, n + 1) = (Len(m) + 1)..(Len(m) + Len(more))
<1> DEFINE p == m \o more
<1>1. m \in Seq(Nat) /\ more \in Seq(Nat)
  <2>1. 1..n \subseteq Nat /\ {n + 1} \subseteq Nat
    OBVIOUS
  <2> QED
    BY <2>1
<1>2. /\ Len(p) = Len(m) + Len(more) /\ p \in Seq(Nat)
      /\ \A i \in 1..(Len(m) + Len(more)) : p[i] = IF i <= Len(m) THEN m[i] ELSE more[i - Len(m)]
  BY <1>1, ConcatProperties
<1>3. Len(m) \in Nat /\ Len(more) \in Nat /\ DOMAIN p = 1..(Len(m) + Len(more))
  BY <1>2, LenProperties
<1>4. \A i \in 1..Len(more) : more[i] = n + 1
  BY ElementOfSeq
<1>5. \A i \in 1..Len(m) : m[i] # n + 1
  <2>1. \A i \in 1..Len(m) : m[i] \in 1..n
    BY ElementOfSeq
  <2> QED
    BY <2>1
<1> HIDE DEF p
<1>6. \A id \in DOMAIN p : p[id] = n + 1 <=> id \in (Len(m) + 1)..(Len(m) + Len(more))
  <2> SUFFICES ASSUME NEW id \in DOMAIN p
               PROVE  p[id] = n + 1 <=> id \in (Len(m) + 1)..(Len(m) + Len(more))
    OBVIOUS
  <2>1. CASE id <= Len(m)
    <3>1. id \in 1..Len(m) /\ p[id] = m[id]
      BY <1>2, <1>3, <2>1
    <3> QED
      BY <1>3, <1>5, <2>1, <3>1
  <2>2. CASE ~ (id <= Len(m))
    <3>1. id - Len(m) \in 1..Len(more) /\ id \in (Len(m) + 1)..(Len(m) + Len(more))
      BY <1>3, <2>2
    <3>2. p[id] = n + 1
      BY <1>2, <1>3, <1>4, <2>2, <3>1
    <3> QED
      BY <3>1, <3>2
  <2> QED
    BY <2>1, <2>2
<1>7. (Len(m) + 1)..(Len(m) + Len(more)) \subseteq DOMAIN p
  BY <1>3
<1>8. ByCall(p, n + 1) = (Len(m) + 1)..(Len(m) + Len(more))
  BY <1>6, <1>7 DEF ByCall
<1> QED
  BY <1>8 DEF p

LEMMA MadeByNone ==
  ASSUME NEW n \in Nat, NEW m \in Seq(1..n)
  PROVE  ByCall(m, n + 1) = {}
<1>1. \A i \in DOMAIN m : m[i] \in 1..n
  BY ElementOfSeq, LenProperties
<1>2. \A i \in DOMAIN m : m[i] # n + 1
  BY <1>1
<1> QED
  BY <1>2 DEF ByCall

-----------------------------------------------------------------------------
(* The operations.                                                         *)
LEMMA SqlStarts == SqlInit => SqlInv
<1> SUFFICES ASSUME SqlInit PROVE SqlInv
  OBVIOUS
<1>1. begun \in 0..MaxCalls /\ made \in Seq(1..begun) /\ rows \in Seq(Row) /\ Len(rows) <= 2 * begun
  BY SqlAssumption DEF SqlInit
<1>2. query = [c \in Client |-> query[c]]
  BY DEF SqlInit
<1>3. \A c \in Client : query[c] = Idle
  BY DEF SqlInit
<1>4. \A c \in Client : Good(query[c], begun, made, rows, backend)
  BY <1>1, <1>3, NoCall
<1> QED
  BY <1>1, <1>2, <1>4 DEF SqlInv, SqlInit

LEMMA NothingAsked == NoStmt \in Stmt /\ <<>> \in Seq(Nat \cup Row)
  BY DEF NoStmt, Stmt

LEMMA NewRows ==
  ASSUME SqlInv, NEW a \in Name
  PROVE  /\ NewRow(a) \in Row /\ [NewRow(a) EXCEPT !.id = @ + 1] \in Row
         /\ Len(made) \in Nat /\ begun \in Nat
<1>1. made \in Seq(1..begun) /\ begun \in Nat
  BY SqlAssumption DEF SqlInv
<1>2. Len(made) \in Nat
  BY <1>1, LenProperties
<1> QED
  BY <1>1, <1>2 DEF NewRow, Row

LEMMA ToleratedKeeps ==
  ASSUME SqlInv, NEW c \in Client, Tolerated(c), UNCHANGED <<backend, rows, made>>
  PROVE  SqlInv'
<1>1. NoStmt \in Stmt
  BY DEF NoStmt, Stmt
<1>2. /\ TraceInsertResult("norow") = "err" /\ TraceInsertResult("ok") = "inserted"
      /\ ("norow" = "io") \in BOOLEAN /\ ("ok" = "io") \in BOOLEAN
  BY DEF TraceInsertResult
<1>3. CASE Call(c, InsertAnswer("ignore", "norow", <<>>))
  <2> DEFINE q == InsertAnswer("ignore", "norow", <<>>)
  <2>1. <<>> \in Seq(Nat \cup Row)
    OBVIOUS
  <2>2. Good(q, begun + 1, made, rows, backend)
    BY <1>1, <1>2, <2>1, PlainAnswer DEF InsertAnswer
  <2> QED
    BY <1>3, <2>2, CallKeeps
<1>4. CASE \E id \in 0..Len(made) : Call(c, InsertAnswer("ignore", "ok", <<id>>))
  <2> PICK id \in 0..Len(made) : Call(c, InsertAnswer("ignore", "ok", <<id>>))
    BY <1>4
  <2> DEFINE q == InsertAnswer("ignore", "ok", <<id>>)
  <2>1. <<id>> \in Seq(Nat \cup Row)
    OBVIOUS
  <2>2. Good(q, begun + 1, made, rows, backend)
    BY <1>1, <1>2, <2>1, PlainAnswer DEF InsertAnswer
  <2> QED
    BY <2>2, CallKeeps
<1> QED
  BY <1>3, <1>4 DEF Tolerated

LEMMA InsertKeeps ==
  ASSUME SqlInv, NEW c \in Client, NEW op \in {"insert", "ignore"}, NEW name \in Name,
         Insert(c, op, name)
  PROVE  SqlInv'
<1> DEFINE n == Len(made)
<1>1. /\ NoStmt \in Stmt /\ <<>> \in Seq(Nat \cup Row) /\ <<n + 1>> \in Seq(Nat \cup Row)
      /\ begun \in Nat /\ n \in Nat /\ NewRow(name) \in Row
  <2>1. begun \in Nat /\ n \in Nat /\ NewRow(name) \in Row
    BY NewRows
  <2>2. <<n + 1>> \in Seq(Nat \cup Row)
    BY <2>1
  <2> QED
    BY <2>1, <2>2, NothingAsked
<1>2. made \in Seq(1..begun) /\ rows \in Seq(Row)
  BY DEF SqlInv
<1>3. ASSUME NEW raw \in {"ok", "io"},
             Write(c, InsertAnswer(op, raw, IF raw = "ok" THEN <<n + 1>> ELSE <<>>),
                   Append(rows, NewRow(name)), <<begun + 1>>)
      PROVE  SqlInv'
  <2> DEFINE got == IF raw = "ok" THEN <<n + 1>> ELSE <<>>
             q == InsertAnswer(op, raw, got)
             table == Append(rows, NewRow(name))
             more == <<begun + 1>>
  <2>1. /\ TraceInsertResult(raw) = (IF raw = "ok" THEN "inserted" ELSE "err")
        /\ (raw = "io") \in BOOLEAN
    BY DEF TraceInsertResult
  <2>2. table \in Seq(Row) /\ Len(table) <= Len(rows) + 2 /\ Len(table) = Len(rows) + 1
    <3>1. Len(rows) \in Nat
      BY <1>2, LenProperties
    <3> QED
      BY <1>1, <1>2, <3>1, AppendProperties
  <2>3. more \in Seq({begun + 1}) /\ Len(more) = 1
    OBVIOUS
  <2>4. got \in Seq(Nat \cup Row)
    BY <1>1
  <2>5. Good(q, begun + 1, made \o more, table, backend)
    <3> HIDE DEF got, table, more
    <3>1. CASE op = "ignore"
      BY <1>1, <2>1, <2>4, <3>1, PlainAnswer DEF InsertAnswer
    <3>2. CASE op = "insert"
      <4> DEFINE ans == TraceInsertResult(raw)
                 lost == raw = "io"
      <4>1. Answered(q, op, NoStmt, lost, ans, got)
        <5>1. q = Answer(op, NoStmt, lost, ans, got)
          BY DEF InsertAnswer
        <5>2. ans \in {"inserted", "err"} /\ lost \in BOOLEAN
          BY <2>1
        <5> HIDE DEF q, ans, lost
        <5> QED
          BY <1>1, <2>4, <5>1, <5>2, AnswerIs
      <4>2. ByCall(made \o more, begun + 1) = (n + 1)..(n + Len(more))
        BY <1>1, <1>2, <2>3, MadeByNew
      <4>3. ByCall(made \o more, begun + 1) = {n + 1}
        BY <1>1, <2>3, <4>2
      <4>4. raw = "ok" => ToSet(got) = {n + 1} /\ got # <<>>
        BY DEF got, ToSet
      <4> HIDE DEF q
      <4>5. /\ q \in Query /\ q.no = begun + 1 /\ q.op = "insert" /\ q.got = got
            /\ q.ans = (IF raw = "ok" THEN "inserted" ELSE "err")
            /\ q.lost = (raw = "io")
        BY <2>1, <3>2, <4>1 DEF Answered
      <4>6. Told(q, made \o more)
        BY <4>3, <4>4, <4>5 DEF Told
      <4>7. Exact(q, table, backend) /\ Waits(q, table) /\ q.no <= begun + 1
        BY <1>1, <4>5 DEF Exact, Waits
      <4> QED
        BY <4>5, <4>6, <4>7 DEF Good
    <3> QED
      BY <3>1, <3>2
  <2> QED
    <3>1. Write(c, q, table, more)
      BY <1>3
    <3> HIDE DEF q, table, more
    <3> QED
      BY <2>2, <2>3, <2>5, <3>1, WriteKeeps
<1>4. CASE op = "insert" /\ Call(c, InsertAnswer(op, "unique", <<>>)) /\ UNCHANGED <<backend, rows, made>>
  <2> DEFINE q == InsertAnswer(op, "unique", <<>>)
  <2>1. TraceInsertResult("unique") = "duplicate" /\ ("unique" = "io") \in BOOLEAN
    BY DEF TraceInsertResult
  <2>2. Answered(q, op, NoStmt, "unique" = "io", "duplicate", <<>>)
    BY <1>1, <2>1, AnswerIs DEF InsertAnswer
  <2>3. ByCall(made, begun + 1) = {}
    BY <1>1, <1>2, MadeByNone
  <2> HIDE DEF q
  <2>4. /\ q \in Query /\ q.no = begun + 1 /\ q.op = "insert" /\ q.ans = "duplicate"
    BY <1>4, <2>2 DEF Answered
  <2>5. Good(q, begun + 1, made, rows, backend)
    BY <1>1, <2>3, <2>4 DEF Good, Told, Exact, Waits
  <2> QED
    BY <1>4, <2>5, CallKeeps DEF q
<1>5. CASE Tolerated(c) /\ UNCHANGED <<backend, rows, made>>
  BY <1>5, ToleratedKeeps
<1> QED
  BY <1>3, <1>4, <1>5 DEF Insert

LEMMA BatchInsertKeeps ==
  ASSUME SqlInv, NEW c \in Client, NEW a \in Name, NEW b \in Name, BatchInsert(c, a, b)
  PROVE  SqlInv'
<1> DEFINE n == Len(made)
           table == rows \o <<NewRow(a), [NewRow(b) EXCEPT !.id = @ + 1]>>
           more == <<begun + 1, begun + 1>>
           got == <<n + 1, n + 2>>
<1>1. /\ NoStmt \in Stmt /\ <<>> \in Seq(Nat \cup Row) /\ begun \in Nat /\ n \in Nat
  <2>1. begun \in Nat /\ n \in Nat
    BY NewRows
  <2> QED
    BY <2>1, NothingAsked
<1>2. made \in Seq(1..begun) /\ rows \in Seq(Row)
  BY DEF SqlInv
<1>3. table \in Seq(Row) /\ Len(table) <= Len(rows) + 2
  <2> DEFINE t == <<NewRow(a), [NewRow(b) EXCEPT !.id = @ + 1]>>
  <2>1. NewRow(a) \in Row /\ [NewRow(b) EXCEPT !.id = @ + 1] \in Row
    BY NewRows
  <2>2. t \in Seq(Row) /\ Len(t) = 2
    BY <2>1
  <2> HIDE DEF t
  <2>3. rows \o t \in Seq(Row) /\ Len(rows \o t) = Len(rows) + Len(t)
    BY <1>2, <2>2, ConcatProperties
  <2> QED
    BY <1>2, <2>2, <2>3, LenProperties DEF t
<1>4. more \in Seq({begun + 1}) /\ Len(more) = 2
  OBVIOUS
<1>5. got \in Seq(Nat \cup Row) /\ got # <<>> /\ ToSet(got) = {n + 1, n + 2}
  <2>1. got \in Seq(Nat \cup Row) /\ got # <<>>
    BY <1>1
  <2>2. DOMAIN got = {1, 2} /\ got[1] = n + 1 /\ got[2] = n + 2
    BY <1>1
  <2> HIDE DEF got
  <2> QED
    BY <2>1, <2>2 DEF ToSet
<1> HIDE DEF table, more, got
<1>6. CASE Call(c, Answer("batch", NoStmt, FALSE, "err", <<>>)) /\ UNCHANGED <<backend, rows, made>>
  <2> DEFINE q == Answer("batch", NoStmt, FALSE, "err", <<>>)
  <2>1. Answered(q, "batch", NoStmt, FALSE, "err", <<>>)
    BY <1>1, AnswerIs
  <2>2. ByCall(made, begun + 1) = {}
    BY <1>1, <1>2, MadeByNone
  <2> HIDE DEF q
  <2>3. /\ q \in Query /\ q.no = begun + 1 /\ q.op = "batch" /\ q.ans = "err"
    BY <2>1 DEF Answered
  <2>4. Good(q, begun + 1, made, rows, backend)
    BY <1>1, <2>2, <2>3 DEF Good, Told, Exact, Waits
  <2> QED
    BY <1>6, <2>4, CallKeeps DEF q
<1>7. CASE Write(c, Lost("batch"), table, more)
  <2>1. Good(Lost("batch"), begun + 1, made \o more, table, backend)
    BY LostAnswer
  <2> QED
    BY <1>3, <1>4, <1>7, <2>1, WriteKeeps
<1>8. CASE Write(c, Answer("batch", NoStmt, FALSE, "ok", got), table, more)
  <2> DEFINE q == Answer("batch", NoStmt, FALSE, "ok", got)
  <2>1. Answered(q, "batch", NoStmt, FALSE, "ok", got)
    BY <1>1, <1>5, AnswerIs
  <2>2. ByCall(made \o more, begun + 1) = (n + 1)..(n + Len(more))
    BY <1>1, <1>2, <1>4, MadeByNew
  <2>3. ByCall(made \o more, begun + 1) = {n + 1, n + 2}
    BY <1>1, <1>4, <2>2
  <2> HIDE DEF q
  <2>4. /\ q \in Query /\ q.no = begun + 1 /\ q.op = "batch" /\ q.ans = "ok" /\ q.got = got
    BY <2>1 DEF Answered
  <2>5. Told(q, made \o more)
    BY <1>5, <2>3, <2>4 DEF Told
  <2>6. Exact(q, table, backend) /\ Waits(q, table) /\ q.no <= begun + 1
    BY <1>1, <2>4 DEF Exact, Waits
  <2>7. Good(q, begun + 1, made \o more, table, backend)
    BY <2>4, <2>5, <2>6 DEF Good
  <2> QED
    BY <1>3, <1>4, <1>8, <2>7, WriteKeeps DEF q
<1> QED
  BY <1>6, <1>7, <1>8 DEF BatchInsert, table, more, got

LEMMA UpdateKeeps ==
  ASSUME SqlInv, NEW c \in Client, NEW from \in Name, NEW to \in Name, Update(c, from, to)
  PROVE  SqlInv'
<1> DEFINE hit == {i \in DOMAIN rows : rows[i].name = from}
           table == [i \in DOMAIN rows |->
                       IF i \in hit THEN [rows[i] EXCEPT !.name = to] ELSE rows[i]]
           got == <<Cardinality(hit)>>
<1>1. rows \in Seq(Row) /\ Len(rows) \in Nat /\ DOMAIN rows = 1..Len(rows)
  BY LenProperties DEF SqlInv
<1>2. table \in Seq(Row) /\ Len(table) = Len(rows)
  <2>1. ASSUME NEW i \in 1..Len(rows)
        PROVE  (IF i \in hit THEN [rows[i] EXCEPT !.name = to] ELSE rows[i]) \in Row
    <3>1. rows[i] \in Row
      BY <1>1, ElementOfSeq
    <3> HIDE DEF hit
    <3> QED
      BY <3>1 DEF Row
  <2> HIDE DEF hit
  <2>2. table \in [1..Len(rows) -> Row]
    BY <1>1, <2>1
  <2> HIDE DEF table
  <2> QED
    BY <1>1, <2>2, LenProperties
<1>3. got \in Seq(Nat \cup Row)
  <2>1. IsFiniteSet(1..Len(rows)) /\ hit \subseteq 1..Len(rows)
    BY <1>1, FS_Interval
  <2> HIDE DEF hit
  <2>2. Cardinality(hit) \in Nat
    BY <2>1, FS_Subset, FS_CardinalityType
  <2> QED
    BY <2>2
<1> HIDE DEF table, got
<1>4. CASE Call(c, Answer("write", NoStmt, FALSE, "err", <<>>)) /\ UNCHANGED <<backend, rows, made>>
  <2>1. Good(Answer("write", NoStmt, FALSE, "err", <<>>), begun + 1, made, rows, backend)
    BY NothingAsked, PlainAnswer
  <2> QED
    BY <1>4, <2>1, CallKeeps
<1>5. ASSUME NEW q \in {Lost("write"), Answer("write", NoStmt, FALSE, "ok", got)},
             Write(c, q, table, <<>>)
      PROVE  SqlInv'
  <2>1. Good(q, begun + 1, made \o <<>>, table, backend)
    BY <1>3, NothingAsked, PlainAnswer, LostAnswer
  <2>2. <<>> \in Seq({begun + 1}) /\ Len(table) <= Len(rows) + 2
    BY <1>1, <1>2
  <2> QED
    BY <1>2, <1>5, <2>1, <2>2, WriteKeeps
<1> QED
  BY <1>4, <1>5 DEF Update, Affected, table, got

LEMMA DeleteKeeps ==
  ASSUME SqlInv, NEW c \in Client, NEW name \in Name, Delete(c, name)
  PROVE  SqlInv'
<1> DEFINE table == Kept(rows, Name \ {name})
           got == <<IF Used(name) THEN 1 ELSE 0>>
<1>1. rows \in Seq(Row) /\ Len(rows) \in Nat
  BY LenProperties DEF SqlInv
<1>2. table \in Seq(Row) /\ Len(table) <= Len(rows)
  BY <1>1, KeptIs
<1>3. got \in Seq(Nat \cup Row)
  OBVIOUS
<1>4. PICK q \in {Lost("write"), Answer("write", NoStmt, FALSE, "ok", got)} :
        Write(c, q, table, <<>>)
  BY DEF Delete, Affected
<1> HIDE DEF table, got
<1>5. Good(q, begun + 1, made \o <<>>, table, backend)
  BY <1>3, NothingAsked, PlainAnswer, LostAnswer
<1>6. <<>> \in Seq({begun + 1}) /\ Len(table) <= Len(rows) + 2
  BY <1>1, <1>2, LenProperties
<1> QED
  BY <1>2, <1>4, <1>5, <1>6, WriteKeeps

LEMMA DisconnectKeeps ==
  ASSUME SqlInv, NEW c \in Client, Disconnect(c)
  PROVE  SqlInv'
<1>1. CASE /\ \E op \in {"insert", "write", "count", "one", "all", "paged"} : Call(c, Lost(op))
           /\ UNCHANGED <<backend, rows, made>>
  <2> PICK op \in {"insert", "write", "count", "one", "all", "paged"} : Call(c, Lost(op))
    BY <1>1
  <2>1. Good(Lost(op), begun + 1, made, rows, backend)
    BY LostAnswer
  <2> QED
    BY <1>1, <2>1, CallKeeps
<1>2. CASE /\ query[c].op = "page"
           /\ query' = [query EXCEPT ![c].op = "paged", ![c].lost = TRUE, ![c].ans = "err"]
           /\ UNCHANGED <<backend, rows, made, begun>>
  <2> DEFINE p == query[c]
             q == [p EXCEPT !.op = "paged", !.lost = TRUE, !.ans = "err"]
  <2>1. query' = [query EXCEPT ![c] = q]
    BY <1>2
  <2>2. Good(p, begun, made, rows, backend)
    BY DEF SqlInv
  <2> HIDE DEF p
  <2>3. p \in Query /\ p.no <= begun
    BY <2>2 DEF Good
  <2>4. q \in Query /\ q.no = p.no /\ q.op = "paged" /\ q.lost
    BY <2>3 DEF Query
  <2> HIDE DEF q
  <2>5. Good(q, begun, made, rows, backend)
    BY <2>3, <2>4 DEF Good, Told, Exact, Waits
  <2> QED
    BY <1>2, <2>1, <2>5, TurnKeeps
<1> QED
  BY <1>1, <1>2 DEF Disconnect

-----------------------------------------------------------------------------
(* The reads.                                                              *)
LEMMA CountKeeps ==
  ASSUME SqlInv, NEW c \in Client, NEW s \in Stmt, Count(c, s)
  PROVE  SqlInv'
<1> DEFINE n == Len(Kept(rows, s.names))
           q == Answer("count", s, FALSE, "ok", <<n>>)
<1>1. Counted(CountStmt(s)) = <<n>> /\ n \in Nat
  BY CountedIs
<1>2. begun \in Nat
  BY SqlAssumption DEF SqlInv
<1> HIDE DEF n
<1>3. <<n>> # <<>> /\ <<n>> \in Seq(Nat \cup Row)
  BY <1>1
<1>4. Call(c, q) /\ UNCHANGED <<backend, rows, made>>
  BY <1>1, <1>3 DEF Count
<1>5. Answered(q, "count", s, FALSE, "ok", <<n>>)
  BY <1>2, <1>3, AnswerIs
<1> HIDE DEF q
<1>6. /\ q \in Query /\ q.no = begun + 1 /\ q.op = "count" /\ q.got = <<n>> /\ q.stmt = s
  BY <1>5 DEF Answered
<1>7. Exact(q, rows, backend)
  BY <1>6 DEF Exact, n
<1>8. Told(q, made) /\ Waits(q, rows) /\ q.no <= begun + 1
  BY <1>2, <1>6 DEF Told, Waits
<1>9. Good(q, begun + 1, made, rows, backend)
  BY <1>6, <1>7, <1>8 DEF Good
<1> QED
  BY <1>4, <1>9, CallKeeps

LEMMA ReadIsGood ==
  ASSUME SqlInv, NEW op \in {"one", "all"}, NEW s \in Stmt, NEW sent \in Stmt
  PROVE  Good(ReadAnswer(op, s, sent), begun + 1, made, rows, backend)
<1>1. Found(sent) \in Seq(Nat \cup Row) /\ <<>> \in Seq(Nat \cup Row)
  BY FoundIs, NothingAsked
<1>2. \A got \in Seq(Nat \cup Row), ans \in {"ok", "err"} :
        Good(Answer(op, s, FALSE, ans, got), begun + 1, made, rows, backend)
  BY PlainAnswer
<1> QED
  BY <1>1, <1>2 DEF ReadAnswer

LEMMA FindKeeps ==
  ASSUME SqlInv, NEW c \in Client, NEW s \in Stmt, FindOne(c, s) \/ FindAll(c, s)
  PROVE  SqlInv'
<1>1. [s EXCEPT !.limit = 1] \in Stmt
  BY DEF Stmt
<1>2. CASE FindOne(c, s)
  <2>1. Good(ReadAnswer("one", s, [s EXCEPT !.limit = 1]), begun + 1, made, rows, backend)
    BY <1>1, ReadIsGood
  <2> QED
    BY <1>2, <2>1, CallKeeps DEF FindOne
<1>3. CASE FindAll(c, s)
  <2>1. Good(ReadAnswer("all", s, s), begun + 1, made, rows, backend)
    BY ReadIsGood
  <2> QED
    BY <1>3, <2>1, CallKeeps DEF FindAll
<1> QED
  BY <1>2, <1>3

(* Where a page begins.                                                    *)
LEMMA PageIs ==
  ASSUME NEW page \in 0..MaxUint, NEW per \in 0..MaxUint
  PROVE  /\ PageSize(per) \in Nat /\ FirstRow(page, per) \in Nat
         /\ PageStart(page, per) = IF FirstRow(page, per) > MaxUint THEN MaxUint
                                     ELSE FirstRow(page, per)
<1> DEFINE n == PageSize(per)
           k == IF page = 0 THEN 0 ELSE page - 1
<1>1. n \in Nat /\ k \in Nat
  BY SqlAssumption DEF PageSize
<1>2. /\ PageStart(page, per) = (IF k * n > MaxUint THEN MaxUint ELSE k * n)
      /\ FirstRow(page, per) = k * n
  BY DEF PageStart, FirstRow
<1> HIDE DEF n, k
<1>3. k * n \in Nat
  BY <1>1
<1> QED
  BY <1>1, <1>2, <1>3 DEF n

(* A page that begins behind the end is empty.                             *)
LEMMA PageBehindEnd ==
  ASSUME NEW all \in Seq(Row), NEW from \in Nat, NEW n \in Nat, from >= Len(all)
  PROVE  SubSeq(all, from + 1, Min({Len(all), from + n})) = <<>>
<1>1. Len(all) \in Nat
  BY LenProperties
<1> DEFINE to == Min({Len(all), from + n})
<1>2. to = IF Len(all) <= from + n THEN Len(all) ELSE from + n
  BY <1>1, MinOfTwo
<1> HIDE DEF to
<1>3. to \in Int /\ to < from + 1
  BY <1>1, <1>2
<1>4. SubSeq(all, from + 1, to) = <<>>
  BY <1>3, SubSeqEmpty
<1> QED
  BY <1>4 DEF to

LEMMA PaginateKeeps ==
  ASSUME SqlInv, NEW c \in Client, NEW s \in Stmt, NEW page \in 0..MaxUint, NEW per \in 0..MaxUint,
         Paginate(c, s, page, per)
  PROVE  SqlInv'
<1> DEFINE all == Kept(rows, s.names)
           n == Len(all)
           q == [Answer("paged", s, FALSE, "ok", <<>>) EXCEPT !.page = page, !.size = per]
           r == [q EXCEPT !.op = "page", !.ans = "none", !.total = n]
<1>1. Counted(CountStmt(s)) = <<n>> /\ n \in Nat
  BY CountedIs
<1>2. begun \in Nat /\ <<>> \in Seq(Nat \cup Row) /\ all \in Seq(Row)
  BY SqlAssumption, NothingAsked, KeptIs DEF SqlInv
<1> HIDE DEF n
<1>3. /\ <<n>> # <<>> /\ (<<n>> = <<0>> <=> n = 0)
      /\ Call(c, IF n = 0 THEN q ELSE r) /\ UNCHANGED <<backend, rows, made>>
  <2>1. <<n>> # <<>> /\ (<<n>> = <<0>> <=> n = 0) /\ <<n>>[1] = n
    BY <1>1
  <2>2. CASE n = 0
    BY <1>1, <2>1, <2>2 DEF Paginate
  <2>3. CASE n # 0
    BY <1>1, <2>1, <2>3 DEF Paginate
  <2> QED
    BY <2>1, <2>2, <2>3
<1>4. /\ q \in Query /\ q.no = begun + 1 /\ q.op = "paged" /\ q.stmt = s /\ ~q.lost
      /\ q.page = page /\ q.size = per /\ q.total = 0 /\ q.got = <<>> /\ q.ans = "ok"
  <2> DEFINE a == Answer("paged", s, FALSE, "ok", <<>>)
  <2>1. Answered(a, "paged", s, FALSE, "ok", <<>>)
    BY <1>2, AnswerIs
  <2> HIDE DEF a
  <2>2. /\ a \in Query /\ a.no = begun + 1 /\ a.op = "paged" /\ a.stmt = s /\ a.lost = FALSE
        /\ a.total = 0 /\ a.got = <<>> /\ a.ans = "ok"
    BY <2>1 DEF Answered
  <2>3. q = [a EXCEPT !.page = page, !.size = per]
    BY DEF a
  <2> HIDE DEF q
  <2> QED
    BY <2>2, <2>3 DEF Query
<1> HIDE DEF q, all
<1>5. CASE n = 0
  <2>1. SubSeq(all, FirstOf(q) + 1, Min({Len(all), FirstOf(q) + PageSize(q.size)})) = <<>>
    <3>1. FirstOf(q) \in Nat /\ PageSize(q.size) \in Nat
      BY <1>4, PageIs DEF FirstOf
    <3>2. FirstOf(q) >= Len(all)
      BY <1>5, <3>1 DEF n
    <3> QED
      BY <1>2, <3>1, <3>2, PageBehindEnd
  <2>2. Exact(q, rows, backend)
    BY <1>4, <1>5, <2>1 DEF Exact, all, n
  <2>3. Told(q, made) /\ Waits(q, rows) /\ q.no <= begun + 1
    BY <1>2, <1>4 DEF Told, Waits
  <2>4. Good(q, begun + 1, made, rows, backend)
    BY <1>4, <2>2, <2>3 DEF Good
  <2> QED
    BY <1>3, <1>5, <2>4, CallKeeps
<1>6. CASE n # 0
  <2>1. /\ r \in Query /\ r.no = begun + 1 /\ r.op = "page" /\ r.stmt = s /\ ~r.lost
        /\ r.total = n
    BY <1>1, <1>4 DEF Query
  <2> HIDE DEF r
  <2>2. Waits(r, rows)
    BY <1>6, <2>1 DEF Waits, n, all
  <2>3. Told(r, made) /\ Exact(r, rows, backend) /\ r.no <= begun + 1
    BY <1>2, <2>1 DEF Told, Exact
  <2>4. Good(r, begun + 1, made, rows, backend)
    BY <2>1, <2>2, <2>3 DEF Good
  <2> QED
    BY <1>3, <1>6, <2>4, CallKeeps
<1> QED
  BY <1>5, <1>6

LEMMA FetchPageKeeps ==
  ASSUME SqlInv, NEW c \in Client, FetchPage(c)
  PROVE  SqlInv'
<1> DEFINE p == query[c]
           all == Kept(rows, p.stmt.names)
           n == PageSize(p.size)
           at == FirstOf(p)
           from == PageStart(p.page, p.size)
           s == [p.stmt EXCEPT !.limit = n, !.offset = from]
           got == Found(s)
           q == [p EXCEPT !.op = "paged", !.ans = "ok", !.got = got]
           r == [p EXCEPT !.op = "paged", !.ans = "err"]
<1>1. /\ p.op = "page" /\ query' = [query EXCEPT ![c] = IF Binds(s) THEN q ELSE r]
      /\ UNCHANGED <<backend, rows, made, begun>>
  BY DEF FetchPage
<1>2. Good(p, begun, made, rows, backend)
  BY DEF SqlInv
<1>3. begun \in Nat /\ rows \in Seq(Row) /\ Len(rows) <= MaxUint /\ MaxUint \in Nat
  <2>1. /\ begun \in 0..MaxCalls /\ rows \in Seq(Row) /\ Len(rows) <= 2 * begun /\ MaxUint \in Nat
        /\ MaxCalls \in Nat /\ 2 * MaxCalls <= MaxUint
    BY SqlAssumption DEF SqlInv
  <2> QED
    BY <2>1, LenProperties
<1> HIDE DEF p
<1>4. p \in Query /\ p.no <= begun /\ p.stmt \in Stmt /\ ~p.lost /\ (p.quiet => p.total = Len(all))
      /\ p.total # 0
  BY <1>1, <1>2 DEF Good, Query, Waits
<1>5. /\ n \in Nat /\ at \in Nat
      /\ from = IF at > MaxUint THEN MaxUint ELSE at
  BY <1>4, PageIs DEF FirstOf, Query
<1>6. all \in Seq(Row) /\ Len(all) \in Nat /\ Len(all) <= MaxUint
  <2>1. all \in Seq(Row) /\ Len(all) <= Len(rows)
    BY <1>3, KeptIs
  <2> HIDE DEF all
  <2> QED
    BY <1>3, <2>1, LenProperties
<1> HIDE DEF n, at, from
<1>7. s \in Stmt /\ s.limit = n /\ s.offset = from /\ s.names = p.stmt.names
  BY <1>3, <1>4, <1>5 DEF Stmt
<1> HIDE DEF s
<1>8. got \in Seq(Nat \cup Row) /\ got = SubSeq(all, from + 1, Min({Len(all), from + n}))
  <2>1. n # Unset /\ from # Unset
    BY <1>3, <1>5 DEF Unset
  <2>2. got = SubSeq(all, from + 1, Min({Len(all), from + n}))
    BY <1>7, <2>1 DEF Found, Limited, Matching
  <2> QED
    BY <1>7, <2>2, FoundIs
<1> HIDE DEF all, got
<1>9. got = SubSeq(all, at + 1, Min({Len(all), at + n}))
  <2>1. CASE at > MaxUint
    <3>1. at >= Len(all) /\ from >= Len(all) /\ from \in Nat
      BY <1>3, <1>5, <1>6, <2>1
    <3>2. /\ SubSeq(all, at + 1, Min({Len(all), at + n})) = <<>>
          /\ SubSeq(all, from + 1, Min({Len(all), from + n})) = <<>>
      BY <1>5, <1>6, <3>1, PageBehindEnd
    <3> QED
      BY <1>8, <3>2
  <2>2. CASE ~ (at > MaxUint)
    BY <1>5, <1>8, <2>2
  <2> QED
    BY <2>1, <2>2
<1>10. CASE Binds(s)
  <2>1. /\ q \in Query /\ q.no = p.no /\ q.op = "paged" /\ q.stmt = p.stmt /\ q.got = got
        /\ q.page = p.page /\ q.size = p.size /\ q.total = p.total /\ q.quiet = p.quiet
        /\ q.ans = "ok"
    BY <1>4, <1>8 DEF Query
  <2> HIDE DEF q
  <2>2. Exact(q, rows, backend)
    <3>1. FirstOf(q) = at /\ PageSize(q.size) = n /\ Kept(rows, q.stmt.names) = all
      BY <2>1 DEF FirstOf, at, n, all
    <3> QED
      BY <1>4, <1>9, <2>1, <3>1 DEF Exact
  <2>3. Told(q, made) /\ Waits(q, rows) /\ q.no <= begun
    BY <1>4, <2>1 DEF Told, Waits
  <2>4. Good(q, begun, made, rows, backend)
    BY <2>1, <2>2, <2>3 DEF Good
  <2> QED
    BY <1>1, <1>10, <2>4, TurnKeeps
<1>11. CASE ~Binds(s)
  <2>1. /\ r \in Query /\ r.no = p.no /\ r.op = "paged" /\ r.stmt = p.stmt /\ r.ans = "err"
        /\ r.page = p.page /\ r.size = p.size /\ r.total = p.total /\ r.quiet = p.quiet
    BY <1>4 DEF Query
  <2> HIDE DEF r
  <2>2. backend # "mysql" /\ (at > MaxInt \/ n > MaxInt)
    <3>1. MaxInt \in Nat /\ MaxInt <= MaxUint
      BY <1>3 DEF MaxInt
    <3>2. backend # "mysql" /\ ~(n <= MaxInt /\ from <= MaxInt)
      BY <1>7, <1>11 DEF Binds
    <3> QED
      BY <1>3, <1>5, <3>1, <3>2
  <2>3. Exact(r, rows, backend)
    <3>1. FirstOf(r) = at /\ PageSize(r.size) = n /\ Kept(rows, r.stmt.names) = all
      BY <2>1 DEF FirstOf, at, n, all
    <3>2. r.quiet => all # <<>>
      BY <1>4, <1>6, <2>1, EmptySeq
    <3> QED
      BY <1>4, <2>1, <2>2, <3>1, <3>2 DEF Exact
  <2>4. Told(r, made) /\ Waits(r, rows) /\ r.no <= begun
    BY <1>4, <2>1 DEF Told, Waits
  <2>5. Good(r, begun, made, rows, backend)
    BY <2>1, <2>3, <2>4 DEF Good
  <2> QED
    BY <1>1, <1>11, <2>5, TurnKeeps
<1> QED
  BY <1>10, <1>11

-----------------------------------------------------------------------------
LEMMA SqlInvSteps == SqlInv /\ [SqlNext]_sqlVars => SqlInv'
<1> SUFFICES ASSUME SqlInv, [SqlNext]_sqlVars PROVE SqlInv'
  OBVIOUS
<1>1. CASE UNCHANGED sqlVars
  <2>1. UNCHANGED <<backend, rows, made, begun, query>>
    BY <1>1 DEF sqlVars
  <2> QED
    BY <2>1 DEF SqlInv
<1>2. CASE SqlNext
  <2> PICK c \in Client :
        \/ WriteStep(c) \/ ReadStep(c) \/ Disconnect(c)
        \/ \E a, b \in Name : BatchInsert(c, a, b)
    BY <1>2 DEF SqlNext
  <2>1. CASE WriteStep(c)
    BY <2>1, InsertKeeps, UpdateKeeps, DeleteKeeps DEF WriteStep
  <2>2. CASE ReadStep(c)
    <3>1. Select \subseteq Stmt /\ Pages \subseteq 0..MaxUint /\ Sizes \subseteq 0..MaxUint
      BY SqlAssumption DEF Stmt
    <3> QED
      BY <2>2, <3>1, CountKeeps, FindKeeps, PaginateKeeps, FetchPageKeeps DEF ReadStep
  <2>3. CASE Disconnect(c)
    BY <2>3, DisconnectKeeps
  <2>4. CASE \E a, b \in Name : BatchInsert(c, a, b)
    BY <2>4, BatchInsertKeeps
  <2> QED
    BY <2>1, <2>2, <2>3, <2>4
<1> QED
  BY <1>1, <1>2

(* What insert and batch_insert answer is what became of the row, whatever *)
(* other calls insert, update or delete and whenever a connection fails.   *)
THEOREM InsertsAreTold == SqlSpec => []InsertIsTold
<1>1. SqlInv => InsertIsTold
  BY InvShows
<1> QED
  BY <1>1, SqlStarts, SqlInvSteps, PTL DEF SqlSpec

(* The count, total and page of a call without writes in between are those *)
(* of the rows that match, for any table, page, size, LIMIT and OFFSET; a  *)
(* page is refused only above MaxInt, by PostgreSQL and SQLite.            *)
THEOREM PagesAreExact == SqlSpec => []ReadsAreExact
<1>1. SqlInv => ReadsAreExact
  BY InvShows
<1> QED
  BY <1>1, SqlStarts, SqlInvSteps, PTL DEF SqlSpec

-----------------------------------------------------------------------------
(* HttpZip: sums of lengths.                                               *)
SumFrom(f, w, n) == f = [k \in 0..n |-> IF k = 0 THEN 0 ELSE f[k - 1] + w[k]]

LEMMA SumExists ==
  ASSUME NEW n \in Nat, NEW w, \A k \in 1..n : w[k] \in Nat
  PROVE  \E f \in [0..n -> Nat] : SumFrom(f, w, n)
<1> DEFINE step == [k \in 1..n |-> [x \in Nat |-> x + w[k]]]
<1>1. step \in [1..n -> [Nat -> Nat]]
  OBVIOUS
<1>2. \A k \in 1..n : \A x \in Nat : step[k][x] = x + w[k]
  OBVIOUS
<1> HIDE DEF step
<1>3. PICK f \in [0..n -> Nat] : IsRecursion(f, n, 0, step)
  BY <1>1, RecursionExists
<1>4. ASSUME NEW k \in 0..n PROVE f[k] = IF k = 0 THEN 0 ELSE f[k - 1] + w[k]
  <2>1. CASE k = 0
    BY <1>3, <2>1 DEF IsRecursion
  <2>2. CASE k # 0
    <3>1. k - 1 \in 0..n /\ k \in 1..n
      BY <2>2
    <3>2. f[k] = step[k][f[k - 1]]
      BY <1>3, <2>2 DEF IsRecursion
    <3>3. f[k - 1] \in Nat
      BY <3>1
    <3> QED
      BY <3>1, <3>2, <3>3, <1>2, <2>2
  <2> QED
    BY <2>1, <2>2
<1>5. f = [k \in 0..n |-> IF k = 0 THEN 0 ELSE f[k - 1] + w[k]]
  BY <1>4
<1> QED
  BY <1>5 DEF SumFrom

LEMMA SumToIs ==
  ASSUME NEW n \in Nat, NEW w, \A k \in 1..n : w[k] \in Nat
  PROVE  \E f \in [0..n -> Nat] : SumFrom(f, w, n) /\ SumTo(w, n) = f[n]
<1>1. PICK g \in [0..n -> Nat] : SumFrom(g, w, n)
  BY SumExists
<1> DEFINE f == CHOOSE f : f = [k \in 0..n |-> IF k = 0 THEN 0 ELSE f[k - 1] + w[k]]
<1>2. f = [k \in 0..n |-> IF k = 0 THEN 0 ELSE f[k - 1] + w[k]]
  BY <1>1 DEF SumFrom
<1>3. SumTo(w, n) = f[n]
  BY DEF SumTo
<1> HIDE DEF f
<1>4. ASSUME NEW m \in 0..n PROVE f[m] = g[m]
  <2>1. f[0] = g[0]
    BY <1>1, <1>2 DEF SumFrom
  <2>2. ASSUME NEW k \in 1..m, f[k - 1] = g[k - 1] PROVE f[k] = g[k]
    <3>1. k \in 0..n /\ k # 0
      OBVIOUS
    <3>2. f[k] = f[k - 1] + w[k]
      BY <1>2, <3>1
    <3>3. g[k] = g[k - 1] + w[k]
      BY <1>1, <3>1 DEF SumFrom
    <3> QED
      BY <2>2, <3>2, <3>3
  <2>3. m \in Nat
    OBVIOUS
  <2> QED
    BY <2>1, <2>2, <2>3, SameSteps
<1>5. f = g
  <2>1. DOMAIN f = 0..n
    BY <1>2
  <2>2. \A k \in 0..n : f[k] = IF k = 0 THEN 0 ELSE f[k - 1] + w[k]
    BY <1>2
  <2>3. f = [k \in 0..n |-> f[k]]
    BY <1>2, <2>1, Zenon
  <2>4. g = [k \in 0..n |-> g[k]]
    OBVIOUS
  <2> QED
    BY <1>4, <2>3, <2>4
<1> QED
  BY <1>1, <1>3, <1>5

(* The sum goes on by one length at a time.                                *)
LEMMA SumSteps ==
  ASSUME NEW n \in Nat, NEW w, \A k \in 1..n : w[k] \in Nat
  PROVE  /\ SumTo(w, n) \in Nat
         /\ n = 0 => SumTo(w, n) = 0
         /\ n # 0 => SumTo(w, n) = SumTo(w, n - 1) + w[n]
<1>1. PICK f \in [0..n -> Nat] : SumFrom(f, w, n) /\ SumTo(w, n) = f[n]
  BY SumToIs
<1>2. n \in 0..n /\ f[n] = IF n = 0 THEN 0 ELSE f[n - 1] + w[n]
  BY <1>1 DEF SumFrom
<1>3. SumTo(w, n) \in Nat /\ (n = 0 => SumTo(w, n) = 0)
  BY <1>1, <1>2
<1>4. ASSUME n # 0 PROVE SumTo(w, n) = SumTo(w, n - 1) + w[n]
  <2>1. n - 1 \in Nat /\ \A k \in 1..(n - 1) : w[k] \in Nat
    BY <1>4
  <2>2. PICK g \in [0..(n - 1) -> Nat] : SumFrom(g, w, n - 1) /\ SumTo(w, n - 1) = g[n - 1]
    BY <2>1, SumToIs
  <2>3. f[0] = g[0]
    BY <1>1, <2>2, <2>1 DEF SumFrom
  <2>4. ASSUME NEW k \in 1..(n - 1), f[k - 1] = g[k - 1] PROVE f[k] = g[k]
    <3>1. k \in 0..n /\ k \in 0..(n - 1) /\ k # 0
      OBVIOUS
    <3>2. f[k] = f[k - 1] + w[k]
      BY <1>1, <3>1 DEF SumFrom
    <3>3. g[k] = g[k - 1] + w[k]
      BY <2>2, <3>1 DEF SumFrom
    <3> QED
      BY <2>4, <3>2, <3>3
  <2>5. f[n - 1] = g[n - 1]
    BY <2>1, <2>3, <2>4, SameSteps
  <2> QED
    BY <1>1, <1>2, <1>4, <2>2, <2>5
<1> QED
  BY <1>3, <1>4

(* A sum never falls.                                                      *)
LEMMA SumGrows ==
  ASSUME NEW n \in Nat, NEW w, \A k \in 1..n : w[k] \in Nat, NEW i \in 0..n
  PROVE  SumTo(w, i) \in Nat /\ SumTo(w, i) <= SumTo(w, n)
<1> DEFINE S == {m \in 0..(n - i) : SumTo(w, i) <= SumTo(w, i + m)}
<1>1. \A k \in 0..n : SumTo(w, k) \in Nat
  <2> TAKE k \in 0..n
  <2>1. k \in Nat /\ \A j \in 1..k : w[j] \in Nat
    OBVIOUS
  <2> QED
    BY <2>1, SumSteps
<1>2. 0 \in S
  BY <1>1
<1>3. ASSUME NEW m \in 0..((n - i) - 1), m \in S PROVE m + 1 \in S
  <2> DEFINE k == i + m + 1
  <2>1. k \in Nat /\ k # 0 /\ k - 1 = i + m /\ k \in 1..n /\ \A j \in 1..k : w[j] \in Nat
    OBVIOUS
  <2>2. SumTo(w, k) = SumTo(w, i + m) + w[k]
    <3> HIDE DEF k
    <3> QED
      BY <2>1, SumSteps
  <2>3. SumTo(w, i + m) \in Nat /\ w[k] \in Nat /\ SumTo(w, i) \in Nat
    BY <1>1, <2>1
  <2>4. SumTo(w, i) <= SumTo(w, i + m)
    BY <1>3
  <2>5. SumTo(w, i) <= SumTo(w, k)
    <3> HIDE DEF k
    <3> QED
      BY <2>2, <2>3, <2>4
  <2>6. m + 1 \in 0..(n - i) /\ i + (m + 1) = k
    OBVIOUS
  <2> QED
    BY <2>5, <2>6
<1>4. n - i \in S
  <2> HIDE DEF S
  <2>1. n - i \in Nat
    OBVIOUS
  <2>2. 0..(n - i) \subseteq S
    BY <1>2, <1>3, <2>1, UpToInduction
  <2> QED
    BY <2>1, <2>2
<1> QED
  BY <1>1, <1>4

-----------------------------------------------------------------------------
(* The layout of an archive.                                               *)
LocalLengths(a) ==
  [j \in DOMAIN a.files |-> 30 + a.files[j].name + a.files[j].local + a.files[j].packed]

HeaderLengths(a) == [j \in DOMAIN a.files |-> HeaderLen(Header(a, j))]

ExtraBlock == [id : {0, 1}, size : Nat, values : Seq(Nat)]

LEMMA FilesAre ==
  ASSUME NEW a \in Archives
  PROVE  /\ a.files \in Seq(File) /\ DOMAIN a.files = 1..Len(a.files) /\ Len(a.files) \in Nat
         /\ a.comment \in Nat /\ a.trailer \in Nat /\ a.force \in SUBSET {"size", "offset"}
         /\ \A i \in DOMAIN a.files :
              /\ a.files[i].method \in {"store", "deflate", "other"}
              /\ a.files[i].packed \in Nat /\ a.files[i].plain \in Nat
              /\ a.files[i].name \in Nat /\ a.files[i].local \in Nat /\ a.files[i].note \in Nat
              /\ a.files[i].before \in Seq(Nat) /\ a.files[i].after \in Seq(Nat)
<1>1. a \in [files : Seq(File), comment : Nat, trailer : Nat, force : SUBSET {"size", "offset"}]
  BY ZipAssumption
<1>2. a.files \in Seq(File)
  BY <1>1
<1>3. ASSUME NEW i \in DOMAIN a.files
      PROVE  /\ a.files[i].method \in {"store", "deflate", "other"}
             /\ a.files[i].packed \in Nat /\ a.files[i].plain \in Nat
             /\ a.files[i].name \in Nat /\ a.files[i].local \in Nat /\ a.files[i].note \in Nat
             /\ a.files[i].before \in Seq(Nat) /\ a.files[i].after \in Seq(Nat)
  <2>1. a.files[i] \in File
    BY <1>2
  <2> QED
    BY <2>1 DEF File
<1>4. DOMAIN a.files = 1..Len(a.files) /\ Len(a.files) \in Nat
  BY <1>2
<1>5. a.comment \in Nat /\ a.trailer \in Nat /\ a.force \in SUBSET {"size", "offset"}
  BY <1>1
<1> QED
  BY <1>2, <1>3, <1>4, <1>5

LEMMA LocalLengthsAre ==
  ASSUME NEW a \in Archives, NEW j \in 1..Len(a.files)
  PROVE  /\ LocalLengths(a)[j] \in Nat /\ LocalLengths(a)[j] > 0
         /\ LocalLengths(a)[j]
              = 30 + a.files[j].name + a.files[j].local + a.files[j].packed
<1> DEFINE x == a.files[j].name
           y == a.files[j].local
           z == a.files[j].packed
<1>1. j \in DOMAIN a.files
  BY FilesAre
<1>2. LocalLengths(a)[j] = 30 + x + y + z
  BY <1>1 DEF LocalLengths
<1>3. x \in Nat /\ y \in Nat /\ z \in Nat
  BY <1>1, FilesAre
<1> HIDE DEF x, y, z
<1>4. LocalLengths(a)[j] \in Nat /\ LocalLengths(a)[j] > 0
  BY <1>2, <1>3
<1> QED
  BY <1>2, <1>4 DEF x, y, z

(* The local headers follow each other, each with its data behind it.      *)
LEMMA LocalSteps ==
  ASSUME NEW a \in Archives
  PROVE  /\ \A i \in 1..(Len(a.files) + 1) :
              LocalAt(a, i) \in Nat /\ LocalAt(a, i) <= CdOffset(a)
         /\ \A i \in 1..Len(a.files) :
              /\ LocalAt(a, i + 1) = LocalAt(a, i) + LocalLengths(a)[i]
              /\ \A j \in (i + 1)..(Len(a.files) + 1) : LocalAt(a, i + 1) <= LocalAt(a, j)
<1> DEFINE n == Len(a.files)
           w == LocalLengths(a)
<1>1. n \in Nat /\ \A k \in 1..n : w[k] \in Nat
  BY FilesAre, LocalLengthsAre
<1>2. \A i : LocalAt(a, i) = SumTo(w, i - 1)
  BY DEF LocalAt, LocalLengths
<1>3. CdOffset(a) = SumTo(w, n)
  BY <1>1, <1>2 DEF CdOffset
<1> HIDE DEF n, w
<1>4. ASSUME NEW i \in 1..(n + 1) PROVE LocalAt(a, i) \in Nat /\ LocalAt(a, i) <= CdOffset(a)
  <2>1. i - 1 \in 0..n
    BY <1>1
  <2>2. SumTo(w, i - 1) \in Nat /\ SumTo(w, i - 1) <= SumTo(w, n)
    BY <1>1, <2>1, SumGrows
  <2> QED
    BY <1>2, <1>3, <2>2
<1>5. ASSUME NEW i \in 1..n
      PROVE  /\ LocalAt(a, i + 1) = LocalAt(a, i) + w[i]
             /\ \A j \in (i + 1)..(n + 1) : LocalAt(a, i + 1) <= LocalAt(a, j)
  <2>1. i \in Nat /\ i # 0 /\ (i + 1) - 1 = i /\ \A k \in 1..i : w[k] \in Nat
    BY <1>1
  <2>2. SumTo(w, i) = SumTo(w, i - 1) + w[i]
    BY <2>1, SumSteps
  <2>3. ASSUME NEW j \in (i + 1)..(n + 1) PROVE SumTo(w, i) <= SumTo(w, j - 1)
    <3>1. j - 1 \in Nat /\ i \in 0..(j - 1) /\ \A k \in 1..(j - 1) : w[k] \in Nat
      BY <1>1
    <3> QED
      BY <3>1, SumGrows
  <2> QED
    BY <1>2, <2>1, <2>2, <2>3
<1> QED
  BY <1>4, <1>5 DEF n, w

(* No two entries begin at the same place, and the data of each ends       *)
(* before the directory.                                                   *)
LEMMA LocalsDiffer ==
  ASSUME NEW a \in Archives, NEW i \in 1..Len(a.files)
  PROVE  /\ LocalAt(a, i) \in Nat /\ LocalAt(a, i) < CdOffset(a)
         /\ DataAt(a, i) \in Nat /\ DataAt(a, i) + a.files[i].packed <= CdOffset(a)
         /\ \A j \in 1..Len(a.files) : LocalAt(a, j) = LocalAt(a, i) => j = i
<1> DEFINE n == Len(a.files)
           x == a.files[i].name
           y == a.files[i].local
           z == a.files[i].packed
           l == LocalAt(a, i)
           e == CdOffset(a)
<1>1. n \in Nat /\ n + 1 \in (i + 1)..(n + 1) /\ i \in 1..(n + 1)
  BY FilesAre
<1>2. LocalLengths(a)[i] = 30 + x + y + z /\ x \in Nat /\ y \in Nat /\ z \in Nat
  BY LocalLengthsAre, FilesAre
<1>3. l \in Nat /\ LocalAt(a, i + 1) = l + LocalLengths(a)[i]
  BY <1>1, LocalSteps
<1>4. LocalAt(a, i + 1) <= e /\ e \in Nat
  BY <1>1, LocalSteps DEF CdOffset
<1>5. DataAt(a, i) = l + 30 + x + y
  BY DEF DataAt
<1>6. l < e /\ DataAt(a, i) \in Nat /\ DataAt(a, i) + z <= e
  <2> HIDE DEF x, y, z, l, e
  <2> QED
    BY <1>2, <1>3, <1>4, <1>5
<1>7. ASSUME NEW j \in 1..n, NEW k \in 1..n, k < j PROVE LocalAt(a, k) < LocalAt(a, j)
  <2>1. j \in (k + 1)..(n + 1) /\ k \in 1..(n + 1) /\ j \in 1..(n + 1)
    BY <1>1, <1>7
  <2>2. LocalAt(a, k + 1) = LocalAt(a, k) + LocalLengths(a)[k] /\ LocalAt(a, k + 1) <= LocalAt(a, j)
    BY <2>1, LocalSteps
  <2>3. LocalAt(a, k) \in Nat /\ LocalAt(a, j) \in Nat
    BY <2>1, LocalSteps
  <2>4. LocalLengths(a)[k] \in Nat /\ LocalLengths(a)[k] > 0
    BY LocalLengthsAre
  <2> QED
    BY <2>2, <2>3, <2>4
<1>8. ASSUME NEW j \in 1..n, LocalAt(a, j) = LocalAt(a, i) PROVE j = i
  <2>1. LocalAt(a, j) \in Nat
    BY <1>3, <1>8
  <2>2. ~(i < j) /\ ~(j < i)
    BY <1>3, <1>7, <1>8
  <2> QED
    BY <1>1, <2>2
<1> QED
  BY <1>3, <1>6, <1>8

-----------------------------------------------------------------------------
(* The extra field of a header.                                            *)
WideValues(a, i) ==
  IfWide(a.files[i].plain) \o IfWide(a.files[i].packed) \o IfWide(LocalAt(a, i))

Zip64(values) ==
  IF values = <<>> THEN <<>>
  ELSE <<[id |-> 1, size |-> 8 * Len(values), values |-> values]>>

LEMMA OthersAre ==
  ASSUME NEW sizes \in Seq(Nat)
  PROVE  /\ Others(sizes) \in Seq(ExtraBlock) /\ Len(Others(sizes)) = Len(sizes)
         /\ \A j \in 1..Len(sizes) : Others(sizes)[j].id = 0
<1>1. DOMAIN sizes = 1..Len(sizes) /\ Len(sizes) \in Nat /\ \A j \in 1..Len(sizes) : sizes[j] \in Nat
  OBVIOUS
<1>2. ASSUME NEW j \in 1..Len(sizes)
      PROVE  [id |-> 0, size |-> sizes[j], values |-> <<>>] \in ExtraBlock
  BY <1>1 DEF ExtraBlock
<1>3. Others(sizes) = [j \in 1..Len(sizes) |-> [id |-> 0, size |-> sizes[j], values |-> <<>>]]
  BY <1>1 DEF Others
<1>4. Others(sizes) \in [1..Len(sizes) -> ExtraBlock]
  BY <1>2, <1>3
<1>5. Others(sizes) \in Seq(ExtraBlock)
  BY <1>1, <1>4
<1>6. Len(Others(sizes)) = Len(sizes)
  BY <1>1, <1>3, <1>5
<1>7. \A j \in 1..Len(sizes) : Others(sizes)[j].id = 0
  BY <1>3
<1> QED
  BY <1>5, <1>6, <1>7

LEMMA IfWideIs ==
  ASSUME NEW n \in Nat
  PROVE  /\ IfWide(n) \in Seq(Nat) /\ Short(n) \in Nat
         /\ Short(n) = Sentinel <=> IfWide(n) # <<>>
         /\ Short(n) = Sentinel => IfWide(n) = <<n>>
         /\ Short(n) # Sentinel => IfWide(n) = <<>> /\ Short(n) = n
<1>1. <<n>> \in Seq(Nat) /\ <<>> \in Seq(Nat) /\ <<n>> # <<>>
  OBVIOUS
<1>2. CASE Wide(n)
  BY <1>1, <1>2, ZipAssumption DEF IfWide, Short
<1>3. CASE ~Wide(n)
  <2>1. n # Sentinel
    BY <1>3, ZipAssumption DEF Wide
  <2> QED
    BY <1>1, <1>3, <2>1 DEF IfWide, Short
<1> QED
  BY <1>2, <1>3

LEMMA WideValuesAre ==
  ASSUME NEW a \in Archives, NEW i \in 1..Len(a.files)
  PROVE  /\ WideValues(a, i) \in Seq(Nat)
         /\ WideValues(a, i) = <<>> => /\ IfWide(a.files[i].plain) = <<>>
                                       /\ IfWide(a.files[i].packed) = <<>>
                                       /\ IfWide(LocalAt(a, i)) = <<>>
<1> DEFINE s == IfWide(a.files[i].plain)
           t == IfWide(a.files[i].packed)
           u == IfWide(LocalAt(a, i))
<1>1. s \in Seq(Nat) /\ t \in Seq(Nat) /\ u \in Seq(Nat)
  BY FilesAre, LocalsDiffer, IfWideIs
<1>2. WideValues(a, i) = s \o t \o u
  BY DEF WideValues
<1> HIDE DEF s, t, u
<1>3. s \o t \o u \in Seq(Nat)
  BY <1>1
<1>4. ASSUME s \o t \o u = <<>> PROVE s = <<>> /\ t = <<>> /\ u = <<>>
  <2>1. Len(s \o t \o u) = Len(s) + Len(t) + Len(u)
    BY <1>1
  <2>2. Len(s) = 0 /\ Len(t) = 0 /\ Len(u) = 0
    BY <1>1, <1>4, <2>1
  <2> QED
    BY <1>1, <2>2
<1> QED
  BY <1>2, <1>3, <1>4 DEF s, t, u

(* Of the blocks one, behind those before it, holds the values.            *)
ValuesAt(blocks, at, values) ==
  /\ at \in 1..Len(blocks) /\ blocks[at].id = 1 /\ blocks[at].values = values
  /\ \A n \in 1..Len(blocks) : n # at => blocks[n].id = 0

LEMMA ExtraIs ==
  ASSUME NEW a \in Archives, NEW i \in 1..Len(a.files)
  PROVE  /\ Extra(a, i) \in Seq(ExtraBlock)
         /\ WideValues(a, i) # <<>> =>
              \E at \in Nat : ValuesAt(Extra(a, i), at, WideValues(a, i))
<1> DEFINE v == WideValues(a, i)
           p == Others(a.files[i].before)
           q == Zip64(v)
           r == Others(a.files[i].after)
           z == [id |-> 1, size |-> 8 * Len(v), values |-> v]
<1>1. Extra(a, i) = p \o q \o r
  BY DEF Extra, WideValues, Zip64
<1>2. /\ p \in Seq(ExtraBlock) /\ \A j \in 1..Len(p) : p[j].id = 0
      /\ r \in Seq(ExtraBlock) /\ \A j \in 1..Len(r) : r[j].id = 0
  BY FilesAre, OthersAre
<1>3. v \in Seq(Nat)
  BY WideValuesAre
<1>4. z \in ExtraBlock /\ z.id = 1 /\ z.values = v
  BY <1>3 DEF ExtraBlock
<1>5. /\ v = <<>> => q = <<>>
      /\ v # <<>> => q = <<z>>
  BY DEF Zip64
<1> HIDE DEF v, p, q, r, z
<1>6. CASE v = <<>>
  <2>1. p \o q \o r \in Seq(ExtraBlock)
    BY <1>2, <1>5, <1>6
  <2> QED
    BY <1>1, <1>6, <2>1 DEF v
<1>7. CASE v # <<>>
  <2>1. q = <<z>>
    BY <1>5, <1>7
  <2>2. p \o <<z>> \in Seq(ExtraBlock) /\ Len(p \o <<z>>) = Len(p) + 1 /\ Len(p) \in Nat /\ Len(r) \in Nat
    BY <1>2, <1>4
  <2>3. /\ (p \o <<z>>)[Len(p) + 1] = z
        /\ \A j \in 1..Len(p) : (p \o <<z>>)[j] = p[j]
    BY <1>2, <1>4
  <2> DEFINE s == p \o <<z>>
             e == s \o r
  <2>4. Extra(a, i) = e
    BY <1>1, <2>1
  <2> HIDE DEF s
  <2>5. /\ e \in Seq(ExtraBlock) /\ Len(e) = Len(p) + 1 + Len(r)
        /\ \A j \in 1..(Len(p) + 1) : e[j] = s[j]
        /\ \A j \in (Len(p) + 2)..(Len(p) + 1 + Len(r)) : e[j] = r[j - (Len(p) + 1)]
    BY <1>2, <2>2 DEF s
  <2> HIDE DEF e
  <2>6. Len(p) + 1 \in 1..Len(e) /\ e[Len(p) + 1] = z
    BY <2>2, <2>3, <2>5 DEF s
  <2>7. ASSUME NEW n \in 1..Len(e), n # Len(p) + 1 PROVE e[n].id = 0
    <3>1. CASE n \in 1..Len(p)
      <4>1. n \in 1..(Len(p) + 1)
        BY <2>2, <3>1
      <4>2. e[n] = p[n]
        BY <2>3, <2>5, <3>1, <4>1 DEF s
      <4> QED
        BY <1>2, <3>1, <4>2
    <3>2. CASE n \notin 1..Len(p)
      <4>1. /\ n \in (Len(p) + 2)..(Len(p) + 1 + Len(r))
            /\ n - (Len(p) + 1) \in 1..Len(r)
        BY <2>2, <2>5, <2>7, <3>2
      <4>2. e[n] = r[n - (Len(p) + 1)]
        BY <2>5, <4>1
      <4> QED
        BY <1>2, <4>1, <4>2
    <3> QED
      BY <3>1, <3>2
  <2>8. ValuesAt(e, Len(p) + 1, v)
    BY <1>4, <2>6, <2>7 DEF ValuesAt
  <2> QED
    BY <2>2, <2>4, <2>5, <2>8 DEF v
<1> QED
  BY <1>6, <1>7

(* An entry with these fields.                                             *)
Fields(m, p, q, o) == [method |-> m, packed |-> p, plain |-> q, offset |-> o]

Filling(e, left) == [e |-> e, left |-> left]

(* A field that is in the extra field is taken from there, in whatever     *)
(* place it is; one that is not is right as it is.                         *)
LEMMA FillPlain ==
  ASSUME NEW m, NEW p, NEW n \in Nat, NEW o, NEW rest \in Seq(Nat)
  PROVE  Fill(Filling(Fields(m, p, Short(n), o), IfWide(n) \o rest), "plain")
           = Filling(Fields(m, p, n, o), rest)
<1>1. CASE Short(n) = Sentinel
  <2>1. IfWide(n) = <<n>>
    BY <1>1, IfWideIs
  <2>2. Head(<<n>> \o rest) = n /\ Tail(<<n>> \o rest) = rest
    OBVIOUS
  <2> QED
    BY <1>1, <2>1, <2>2 DEF Fill, Filling, Fields
<1>2. CASE Short(n) # Sentinel
  <2>1. IfWide(n) = <<>> /\ Short(n) = n
    BY <1>2, IfWideIs
  <2>2. <<>> \o rest = rest
    OBVIOUS
  <2> QED
    BY <1>2, <2>1, <2>2 DEF Fill, Filling, Fields
<1> QED
  BY <1>1, <1>2

LEMMA FillPacked ==
  ASSUME NEW m, NEW q, NEW n \in Nat, NEW o, NEW rest \in Seq(Nat)
  PROVE  Fill(Filling(Fields(m, Short(n), q, o), IfWide(n) \o rest), "packed")
           = Filling(Fields(m, n, q, o), rest)
<1>1. CASE Short(n) = Sentinel
  <2>1. IfWide(n) = <<n>>
    BY <1>1, IfWideIs
  <2>2. Head(<<n>> \o rest) = n /\ Tail(<<n>> \o rest) = rest
    OBVIOUS
  <2> QED
    BY <1>1, <2>1, <2>2 DEF Fill, Filling, Fields
<1>2. CASE Short(n) # Sentinel
  <2>1. IfWide(n) = <<>> /\ Short(n) = n
    BY <1>2, IfWideIs
  <2>2. <<>> \o rest = rest
    OBVIOUS
  <2> QED
    BY <1>2, <2>1, <2>2 DEF Fill, Filling, Fields
<1> QED
  BY <1>1, <1>2

LEMMA FillOffset ==
  ASSUME NEW m, NEW p, NEW q, NEW n \in Nat
  PROVE  Fill(Filling(Fields(m, p, q, Short(n)), IfWide(n)), "offset").e = Fields(m, p, q, n)
<1>1. CASE Short(n) = Sentinel
  <2>1. IfWide(n) = <<n>>
    BY <1>1, IfWideIs
  <2>2. Head(<<n>>) = n
    OBVIOUS
  <2> QED
    BY <1>1, <2>1, <2>2 DEF Fill, Filling, Fields
<1>2. CASE Short(n) # Sentinel
  <2>1. Short(n) = n
    BY <1>2, IfWideIs
  <2> QED
    BY <1>2, <2>1 DEF Fill, Filling, Fields
<1> QED
  BY <1>1, <1>2

LEMMA FillFromIs ==
  ASSUME NEW m, NEW p \in Nat, NEW q \in Nat, NEW o \in Nat
  PROVE  FillFrom(Fields(m, Short(p), Short(q), Short(o)), IfWide(q) \o IfWide(p) \o IfWide(o))
           = Fields(m, p, q, o)
<1> DEFINE e == Fields(m, Short(p), Short(q), Short(o))
           s == IfWide(q)
           t == IfWide(p)
           u == IfWide(o)
           first  == Fill(Filling(e, s \o (t \o u)), "plain")
           second == Fill(first, "packed")
<1>1. s \in Seq(Nat) /\ t \in Seq(Nat) /\ u \in Seq(Nat)
  BY IfWideIs
<1>2. FillFrom(e, s \o (t \o u)) = Fill(second, "offset").e
  BY DEF FillFrom, Filling
<1>3. s \o t \o u = s \o (t \o u) /\ t \o u \in Seq(Nat)
  <2> HIDE DEF s, t, u
  <2> QED
    BY <1>1
<1>4. first = Filling(Fields(m, Short(p), q, Short(o)), t \o u)
  <2> DEFINE rest == t \o u
  <2>1. rest \in Seq(Nat)
    BY <1>3
  <2> HIDE DEF rest
  <2>2. Fill(Filling(Fields(m, Short(p), Short(q), Short(o)), IfWide(q) \o rest), "plain")
          = Filling(Fields(m, Short(p), q, Short(o)), rest)
    BY <2>1, FillPlain
  <2> QED
    BY <2>2 DEF rest
<1>5. second = Filling(Fields(m, p, q, Short(o)), u)
  BY <1>1, <1>4, FillPacked
<1>6. Fill(second, "offset").e = Fields(m, p, q, o)
  BY <1>5, FillOffset
<1> QED
  BY <1>2, <1>3, <1>6

LEMMA ParseIsOfValues ==
  ASSUME NEW e, NEW blocks \in Seq(ExtraBlock), NEW at \in Nat, NEW values,
         ValuesAt(blocks, at, values)
  PROVE  ParseZip64Extra(e, blocks) = FillFrom(e, values)
<1> DEFINE n == Len(blocks)
           done == FillFrom(e, values)
           Is(h) == h = [k \in 0..n |-> IF k = 0 THEN e
                                        ELSE IF blocks[k].id = 1 THEN FillFrom(h[k - 1], blocks[k].values)
                                        ELSE h[k - 1]]
           g == [k \in 0..n |-> IF k < at THEN e ELSE done]
           f == CHOOSE f : Is(f)
<1>1. n \in Nat /\ at \in 1..n
  BY DEF ValuesAt
<1>2. \A k \in 1..n : k # at => blocks[k].id = 0
  BY DEF ValuesAt
<1>3. blocks[at].id = 1 /\ blocks[at].values = values
  BY DEF ValuesAt
<1>4. ParseZip64Extra(e, blocks) = f[n]
  BY DEF ParseZip64Extra
<1> HIDE DEF n, done
<1>5. ASSUME NEW k \in 0..n
      PROVE  g[k] = IF k = 0 THEN e
                    ELSE IF blocks[k].id = 1 THEN FillFrom(g[k - 1], blocks[k].values)
                    ELSE g[k - 1]
  <2>1. CASE k = 0
    BY <1>1, <2>1
  <2>2. CASE k # 0 /\ k = at
    <3>1. g[k - 1] = e /\ g[k] = done
      BY <1>1, <2>2
    <3>2. FillFrom(g[k - 1], blocks[k].values) = done
      BY <1>3, <2>2, <3>1 DEF done
    <3> QED
      BY <1>3, <2>2, <3>1, <3>2
  <2>3. CASE k # 0 /\ k # at
    <3>1. k \in 1..n /\ k - 1 \in 0..n /\ (k < at <=> k - 1 < at)
      BY <1>1, <2>3
    <3>2. blocks[k].id = 0
      BY <1>2, <2>3, <3>1
    <3>3. g[k] = g[k - 1]
      BY <3>1
    <3> QED
      BY <2>3, <3>2, <3>3
  <2> QED
    BY <2>1, <2>2, <2>3
<1>6. Is(g)
  <2>1. DOMAIN g = 0..n /\ g = [k \in 0..n |-> g[k]]
    OBVIOUS
  <2> HIDE DEF g
  <2> QED
    BY <1>5, <2>1
<1>7. Is(f)
  <2> HIDE DEF Is, g
  <2> QED
    BY <1>6
<1>8. f[0] = g[0]
  <2>1. f[0] = e
    <3> HIDE DEF f
    <3> QED
      BY <1>1, <1>7
  <2> QED
    BY <1>1, <2>1
<1>9. ASSUME NEW k \in 1..n, f[k - 1] = g[k - 1] PROVE f[k] = g[k]
  <2>1. k \in 0..n /\ k # 0
    OBVIOUS
  <2>2. f[k] = IF blocks[k].id = 1 THEN FillFrom(f[k - 1], blocks[k].values) ELSE f[k - 1]
    <3> HIDE DEF f
    <3> QED
      BY <1>7, <2>1
  <2>3. g[k] = IF blocks[k].id = 1 THEN FillFrom(g[k - 1], blocks[k].values) ELSE g[k - 1]
    BY <1>5, <2>1
  <2> HIDE DEF f, g
  <2> QED
    BY <1>9, <2>2, <2>3
<1> HIDE DEF f, g
<1>10. f[n] = g[n]
  BY <1>1, <1>8, <1>9, SameSteps
<1>11. g[n] = done
  BY <1>1 DEF g
<1> QED
  BY <1>4, <1>10, <1>11 DEF done

(* An entry that is made of a header has the true fields.                  *)
LEMMA EntryIs ==
  ASSUME NEW a \in Archives, NEW i \in 1..Len(a.files)
  PROVE  EntryOf(Header(a, i))
           = Fields(a.files[i].method, a.files[i].packed, a.files[i].plain, LocalAt(a, i))
<1> DEFINE m == a.files[i].method
           p == a.files[i].packed
           q == a.files[i].plain
           o == LocalAt(a, i)
           e == Fields(m, Short(p), Short(q), Short(o))
           v == WideValues(a, i)
<1>1. p \in Nat /\ q \in Nat /\ o \in Nat
  BY FilesAre, LocalsDiffer
<1>2. EntryOf(Header(a, i)) = IF Sentinel \in {Short(p), Short(q), Short(o)}
                              THEN ParseZip64Extra(e, Extra(a, i)) ELSE e
  BY DEF EntryOf, Header, Fields
<1>3. v = IfWide(q) \o IfWide(p) \o IfWide(o)
  BY DEF WideValues
<1>4. FillFrom(e, v) = Fields(m, p, q, o)
  BY <1>1, <1>3, FillFromIs
<1>5. CASE Sentinel \in {Short(p), Short(q), Short(o)}
  <2>1. IfWide(p) # <<>> \/ IfWide(q) # <<>> \/ IfWide(o) # <<>>
    BY <1>1, <1>5, IfWideIs
  <2>2. v # <<>>
    BY <2>1, WideValuesAre
  <2>3. Extra(a, i) \in Seq(ExtraBlock) /\ \E at \in Nat : ValuesAt(Extra(a, i), at, v)
    BY <2>2, ExtraIs
  <2>4. ParseZip64Extra(e, Extra(a, i)) = FillFrom(e, v)
    <3> HIDE DEF e, v
    <3> QED
      BY <2>3, ParseIsOfValues
  <2> QED
    BY <1>2, <1>4, <1>5, <2>4
<1>6. CASE Sentinel \notin {Short(p), Short(q), Short(o)}
  <2>1. Short(p) = p /\ Short(q) = q /\ Short(o) = o
    BY <1>1, <1>6, IfWideIs
  <2> QED
    BY <1>2, <1>6, <2>1
<1> QED
  BY <1>5, <1>6

-----------------------------------------------------------------------------
(* The central directory.                                                  *)
LEMMA HeaderLenIs ==
  ASSUME NEW a \in Archives, NEW i \in 1..Len(a.files)
  PROVE  /\ ExtraLen(Extra(a, i)) \in Nat
         /\ HeaderLen(Header(a, i)) \in Nat /\ HeaderLen(Header(a, i)) > 0
<1> DEFINE blocks == Extra(a, i)
           w == [j \in DOMAIN blocks |-> 4 + blocks[j].size]
           x == a.files[i].name
           y == ExtraLen(blocks)
           z == a.files[i].note
<1>1. blocks \in Seq(ExtraBlock)
  BY ExtraIs
<1>2. ASSUME NEW j \in 1..Len(blocks) PROVE w[j] \in Nat
  <2>1. j \in DOMAIN blocks /\ blocks[j] \in ExtraBlock
    BY <1>1
  <2>2. blocks[j].size \in Nat
    BY <2>1 DEF ExtraBlock
  <2> DEFINE n == blocks[j].size
  <2>3. w[j] = 4 + n
    BY <2>1
  <2>4. 4 + n \in Nat
    <3> HIDE DEF n
    <3> QED
      BY <2>2 DEF n
  <2> QED
    BY <2>3, <2>4
<1>3. Len(blocks) \in Nat
  BY <1>1
<1>4. y = SumTo(w, Len(blocks))
  BY DEF ExtraLen
<1>5. y \in Nat
  <2> HIDE DEF blocks, w, y
  <2> QED
    BY <1>2, <1>3, <1>4, SumSteps
<1>6. HeaderLen(Header(a, i)) = 46 + x + y + z
  BY DEF HeaderLen, Header
<1>7. x \in Nat /\ z \in Nat
  BY FilesAre
<1> HIDE DEF x, y, z
<1>8. HeaderLen(Header(a, i)) \in Nat /\ HeaderLen(Header(a, i)) > 0
  BY <1>5, <1>6, <1>7
<1> QED
  BY <1>5, <1>8 DEF y

LEMMA HeaderSteps ==
  ASSUME NEW a \in Archives
  PROVE  /\ \A i \in 1..(Len(a.files) + 1) : HeaderAt(a, i) \in Nat
         /\ HeaderAt(a, 1) = 0
         /\ \A i \in 1..Len(a.files) :
              HeaderAt(a, i + 1) = HeaderAt(a, i) + HeaderLen(Header(a, i))
<1> DEFINE n == Len(a.files)
           w == HeaderLengths(a)
<1>1. n \in Nat /\ DOMAIN a.files = 1..n
  BY FilesAre
<1>2. ASSUME NEW k \in 1..n PROVE w[k] \in Nat /\ w[k] = HeaderLen(Header(a, k))
  BY <1>1, HeaderLenIs DEF HeaderLengths
<1>3. \A i : HeaderAt(a, i) = SumTo(w, i - 1)
  BY DEF HeaderAt, HeaderLengths
<1> HIDE DEF n, w
<1>4. ASSUME NEW i \in 1..(n + 1) PROVE HeaderAt(a, i) \in Nat
  <2>1. i - 1 \in Nat /\ \A k \in 1..(i - 1) : w[k] \in Nat
    BY <1>1, <1>2
  <2>2. SumTo(w, i - 1) \in Nat
    BY <2>1, SumSteps
  <2> QED
    BY <1>3, <2>2
<1>5. HeaderAt(a, 1) = 0
  <2>1. 0 \in Nat /\ \A k \in 1..0 : w[k] \in Nat
    OBVIOUS
  <2>2. SumTo(w, 0) = 0
    BY <2>1, SumSteps
  <2> QED
    BY <1>3, <2>2
<1>6. ASSUME NEW i \in 1..n PROVE HeaderAt(a, i + 1) = HeaderAt(a, i) + w[i]
  <2>1. i \in Nat /\ i # 0 /\ (i + 1) - 1 = i /\ \A k \in 1..i : w[k] \in Nat
    BY <1>1, <1>2
  <2>2. SumTo(w, i) = SumTo(w, i - 1) + w[i]
    BY <2>1, SumSteps
  <2> QED
    BY <1>3, <2>1, <2>2
<1> QED
  BY <1>2, <1>4, <1>5, <1>6 DEF n

(* The directory ends behind its last header.                              *)
LEMMA CdSizeIs ==
  ASSUME NEW a \in Archives
  PROVE  CdSize(a) \in Nat /\ (CdSize(a) = 0 => a.files = <<>>)
<1> DEFINE n == Len(a.files)
           t == a.trailer
           h == HeaderAt(a, n + 1)
<1>1. a.files \in Seq(File) /\ n \in Nat /\ t \in Nat
  BY FilesAre
<1>2. h \in Nat
  BY <1>1, HeaderSteps
<1>3. CdSize(a) = h + t
  BY DEF CdSize
<1>4. ASSUME n # 0 PROVE h > 0
  <2>1. n \in 1..n /\ n \in 1..(n + 1)
    BY <1>1, <1>4
  <2>2. h = HeaderAt(a, n) + HeaderLen(Header(a, n))
    BY <2>1, HeaderSteps
  <2>3. HeaderAt(a, n) \in Nat /\ HeaderLen(Header(a, n)) \in Nat /\ HeaderLen(Header(a, n)) > 0
    BY <2>1, HeaderSteps, HeaderLenIs
  <2> HIDE DEF n, h
  <2> QED
    BY <2>2, <2>3
<1>5. n = 0 => a.files = <<>>
  BY <1>1
<1> HIDE DEF n, t, h
<1>6. h + t \in Nat /\ (h + t = 0 => h = 0)
  BY <1>1, <1>2
<1> QED
  BY <1>2, <1>3, <1>4, <1>5, <1>6

Parsed(a, k) == [at |-> HeaderAt(a, k + 1), entries |-> [i \in 1..k |-> EntryOf(Header(a, i))]]

(* Every header is found where the one before it ends, so that no entry is *)
(* missed and the parser does not stop early.                              *)
LEMMA DirectoryIs ==
  ASSUME NEW a \in Archives
  PROVE  ParseCentralDirectory(a, 0) = [i \in 1..Len(a.files) |-> EntryOf(Header(a, i))]
<1> DEFINE n == Len(a.files)
           After(r, k) ==
             LET h == Header(a, k)
             IN  IF r.at = HeaderAt(a, k)
                 THEN [at      |-> r.at + 46 + h.name + ExtraLen(h.extra) + h.note,
                       entries |-> Append(r.entries, EntryOf(h))]
                 ELSE r
           Is(d) == d = [k \in 0..n |-> IF k = 0 THEN [at |-> 0, entries |-> <<>>]
                                        ELSE After(d[k - 1], k)]
           g == [k \in 0..n |-> Parsed(a, k)]
           f == CHOOSE f : Is(f)
<1>1. n \in Nat
  BY FilesAre
<1>2. ParseCentralDirectory(a, 0) = f[n].entries
  BY DEF ParseCentralDirectory
<1>3. ASSUME NEW k \in 1..n PROVE After(Parsed(a, k - 1), k) = Parsed(a, k)
  <2> DEFINE h == Header(a, k)
             es == [i \in 1..(k - 1) |-> EntryOf(Header(a, i))]
             r == Parsed(a, k - 1)
  <2>1. (k - 1) + 1 = k /\ k - 1 \in Nat /\ k \in Nat
    BY <1>1
  <2>2. r.at = HeaderAt(a, k) /\ r.entries = es
    BY <2>1 DEF Parsed
  <2>3. After(r, k) = [at      |-> r.at + 46 + h.name + ExtraLen(h.extra) + h.note,
                       entries |-> Append(r.entries, EntryOf(h))]
    BY <2>2
  <2>4. r.at + 46 + h.name + ExtraLen(h.extra) + h.note = HeaderAt(a, k + 1)
    <3> DEFINE s == HeaderAt(a, k)
               l == HeaderLen(h)
               x == h.name
               y == ExtraLen(h.extra)
               z == h.note
    <3>1. HeaderAt(a, k + 1) = s + l /\ l = 46 + x + y + z
      BY HeaderSteps DEF HeaderLen
    <3>2. x \in Nat /\ z \in Nat
      BY FilesAre DEF Header
    <3>3. s \in Nat
      <4>1. k \in 1..(n + 1)
        BY <1>1
      <4> QED
        BY <4>1, HeaderSteps
    <3>4. y \in Nat
      BY HeaderLenIs DEF Header
    <3> DEFINE t == r.at
    <3>5. t = s
      BY <2>2
    <3>6. t + 46 + x + y + z = HeaderAt(a, k + 1)
      <4> HIDE DEF s, l, x, y, z, t
      <4> QED
        BY <3>1, <3>2, <3>3, <3>4, <3>5
    <3> QED
      BY <3>6
  <2>5. Append(es, EntryOf(h)) = [i \in 1..k |-> EntryOf(Header(a, i))]
    <3> DEFINE all == [i \in 1..k |-> EntryOf(Header(a, i))]
    <3>1. Len(es) = k - 1
      BY <2>1
    <3>2. Append(es, EntryOf(h)) = [i \in 1..((k - 1) + 1) |-> IF i = (k - 1) + 1 THEN EntryOf(h) ELSE es[i]]
      BY <2>1, <3>1 
    <3>3. \A i \in 1..k : i # k => i \in 1..(k - 1)
      BY <2>1
    <3> QED
      BY <2>1, <3>2, <3>3
  <2> HIDE DEF After, es
  <2> QED
    BY <2>2, <2>3, <2>4, <2>5 DEF Parsed
<1>4. ASSUME NEW k \in 0..n
      PROVE  g[k] = IF k = 0 THEN [at |-> 0, entries |-> <<>>] ELSE After(g[k - 1], k)
  <2>1. CASE k = 0
    <3>1. Parsed(a, 0) = [at |-> 0, entries |-> <<>>]
      <4>1. HeaderAt(a, 0 + 1) = 0
        BY HeaderSteps
      <4>2. [i \in 1..0 |-> EntryOf(Header(a, i))] = <<>>
        OBVIOUS
      <4> QED
        BY <4>1, <4>2 DEF Parsed
    <3> QED
      BY <2>1, <3>1
  <2>2. CASE k # 0
    <3>1. k \in 1..n /\ k - 1 \in 0..n
      BY <1>1, <2>2
    <3>2. g[k] = Parsed(a, k) /\ g[k - 1] = Parsed(a, k - 1)
      BY <3>1
    <3> HIDE DEF g, After
    <3> QED
      BY <1>3, <2>2, <3>1, <3>2
  <2> QED
    BY <2>1, <2>2
<1>5. Is(g)
  <2>1. DOMAIN g = 0..n /\ g = [k \in 0..n |-> g[k]]
    OBVIOUS
  <2> HIDE DEF g, After, n
  <2> QED
    BY <1>4, <2>1
<1>6. Is(f)
  <2> HIDE DEF Is, g
  <2> QED
    BY <1>5
<1> HIDE DEF After
<1>7. \A k \in 0..n : f[k] = IF k = 0 THEN [at |-> 0, entries |-> <<>>] ELSE After(f[k - 1], k)
  <2> HIDE DEF f, n
  <2> QED
    BY <1>6
<1>8. f[0] = g[0]
  <2>1. 0 \in 0..n
    BY <1>1
  <2> HIDE DEF f, g, n
  <2> QED
    BY <1>4, <1>7, <2>1
<1>9. ASSUME NEW k \in 1..n, f[k - 1] = g[k - 1] PROVE f[k] = g[k]
  <2>1. k \in 0..n /\ k # 0
    BY <1>1
  <2> HIDE DEF f, g, n
  <2> QED
    BY <1>4, <1>7, <1>9, <2>1
<1>10. f[n] = g[n]
  <2> HIDE DEF f, g, n
  <2> QED
    BY <1>1, <1>8, <1>9, SameSteps
<1>11. g[n].entries = [i \in 1..n |-> EntryOf(Header(a, i))]
  BY <1>1 DEF Parsed
<1> HIDE DEF f, g, n
<1> QED
  BY <1>2, <1>10, <1>11 DEF n

-----------------------------------------------------------------------------
(* Where the records at the end are.                                       *)
LEMMA PlacesAre ==
  ASSUME NEW a \in Archives
  PROVE  /\ CdOffset(a) \in Nat /\ CdSize(a) \in Nat /\ Eocd64At(a) = CdOffset(a) + CdSize(a)
         /\ EocdAt(a) \in Nat /\ LocatorAt(a) \in Nat /\ ArchiveSize(a) \in Nat
         /\ Eocd64At(a) <= EocdAt(a) /\ EocdAt(a) + 22 <= ArchiveSize(a)
         /\ CdOffset(a) < ArchiveSize(a) /\ Eocd64At(a) < ArchiveSize(a)
         /\ In64(a) # {} => LocatorAt(a) <= EocdAt(a)
<1> DEFINE o == CdOffset(a)
           s == CdSize(a)
           c == a.comment
           e == EocdAt(a)
<1>1. o \in Nat
  <2>1. Len(a.files) + 1 \in 1..(Len(a.files) + 1)
    BY FilesAre
  <2> QED
    BY <2>1, LocalSteps DEF CdOffset
<1>2. s \in Nat /\ c \in Nat
  BY CdSizeIs, FilesAre
<1>3. Eocd64At(a) = o + s /\ LocatorAt(a) = o + s + 56 /\ ArchiveSize(a) = e + 22 + c
  BY DEF Eocd64At, LocatorAt, ArchiveSize
<1>4. e = IF In64(a) = {} THEN o + s ELSE o + s + 56 + 20
  BY DEF EocdAt, LocatorAt, Eocd64At
<1> HIDE DEF o, s, c, e
<1>5. CASE In64(a) = {}
  BY <1>1, <1>2, <1>3, <1>4, <1>5 DEF o, s, e
<1>6. CASE In64(a) # {}
  BY <1>1, <1>2, <1>3, <1>4, <1>6 DEF o, s, e
<1> QED
  BY <1>5, <1>6

(* The end record holds the sentinel exactly if it leaves a field to the   *)
(* ZIP64 end record.                                                       *)
LEMMA EocdIs ==
  ASSUME NEW a \in Archives
  PROVE  /\ Sentinel \notin {Eocd(a).size, Eocd(a).offset} <=> In64(a) = {}
         /\ In64(a) = {} => Eocd(a) = Eocd64(a)
<1>1. CdOffset(a) \in Nat /\ CdSize(a) \in Nat /\ Sentinel \in Nat
  BY PlacesAre, ZipAssumption
<1>2. In64(a) \subseteq {"size", "offset"}
  BY FilesAre DEF In64
<1>3. "size" \notin In64(a) => CdSize(a) # Sentinel
  BY <1>1 DEF In64, Wide
<1>4. "offset" \notin In64(a) => CdOffset(a) # Sentinel
  BY <1>1 DEF In64, Wide
<1> QED
  BY <1>2, <1>3, <1>4 DEF Eocd, Eocd64

-----------------------------------------------------------------------------
(* The requests.                                                           *)
EntriesAre(a, es) ==
  es = [i \in 1..Len(a.files) |->
          Fields(a.files[i].method, a.files[i].packed, a.files[i].plain, LocalAt(a, i))]

Begin(a) == IF In64(a) = {} THEN EocdAt(a) ELSE LocatorAt(a)

Excused ==
  \/ answers \ {"partial"} # {}
  \/ ArchiveSize(archive) - Begin(archive) > TailLimit
  \/ entry # 0 /\ archive.files[entry].method \notin {"store", "deflate"}

Opened == {"opened", "header", "stream", "read"}

ZipInv ==
  /\ pc # "idle" => archive \in Archives
  /\ pc \in {"idle", "head", "probe", "tail", "zip64", "directory"} => entries = <<>>
  /\ pc = "tail" => \/ size = ArchiveSize(archive)
                    \/ size = 1 /\ "no total" \in answers
  /\ pc \in {"zip64", "directory"} => size = ArchiveSize(archive)
  /\ pc = "directory" => cd = Eocd64(archive)
  /\ pc \in Opened => EntriesAre(archive, entries)
  /\ pc \in {"header", "stream", "read"} => entry \in 1..Len(archive.files)
  /\ pc \in {"stream", "read"} =>
       body = <<DataAt(archive, entry), archive.files[entry].packed>>
  /\ pc = "failed" => Excused

LEMMA EntriesHave ==
  ASSUME NEW a \in Archives, NEW es, EntriesAre(a, es)
  PROVE  /\ Len(es) = Len(a.files) /\ DOMAIN es = 1..Len(a.files)
         /\ \A i \in 1..Len(a.files) :
              /\ es[i].offset = LocalAt(a, i) /\ es[i].packed = a.files[i].packed
              /\ es[i].plain = a.files[i].plain /\ es[i].method = a.files[i].method
<1>1. Len(a.files) \in Nat
  BY FilesAre
<1>2. DOMAIN es = 1..Len(a.files)
  BY DEF EntriesAre
<1>3. Len(es) = Len(a.files)
  BY <1>1 DEF EntriesAre
<1>4. ASSUME NEW i \in 1..Len(a.files)
      PROVE  es[i] = Fields(a.files[i].method, a.files[i].packed, a.files[i].plain, LocalAt(a, i))
  BY DEF EntriesAre
<1>5. ASSUME NEW i \in 1..Len(a.files)
      PROVE  /\ es[i].offset = LocalAt(a, i) /\ es[i].packed = a.files[i].packed
             /\ es[i].plain = a.files[i].plain /\ es[i].method = a.files[i].method
  <2> DEFINE x == es[i]
             m == a.files[i].method
             p == a.files[i].packed
             q == a.files[i].plain
             o == LocalAt(a, i)
  <2>1. x = Fields(m, p, q, o)
    BY <1>4
  <2> HIDE DEF x, m, p, q, o
  <2>2. x.offset = o /\ x.packed = p /\ x.plain = q /\ x.method = m
    BY <2>1 DEF Fields
  <2> QED
    BY <2>2 DEF x, m, p, q, o
<1> QED
  BY <1>2, <1>3, <1>5

LEMMA ZipInvShows == ZipInv => EntryIsRead
<1> SUFFICES ASSUME ZipInv PROVE EntryIsRead
  OBVIOUS
<1>1. ASSUME pc \in Opened
      PROVE  /\ Len(entries) = Len(archive.files)
             /\ \A i \in DOMAIN entries :
                  /\ entries[i].offset = LocalAt(archive, i)
                  /\ entries[i].packed = archive.files[i].packed
                  /\ entries[i].plain = archive.files[i].plain
                  /\ entries[i].method = archive.files[i].method
  <2>1. archive \in Archives /\ EntriesAre(archive, entries)
    BY <1>1 DEF ZipInv, Opened
  <2> QED
    BY <2>1, EntriesHave
<1>2. pc = "read" => body = <<DataAt(archive, entry), archive.files[entry].packed>>
  BY DEF ZipInv
<1>3. pc = "failed" => Excused
  BY DEF ZipInv
<1> QED
  BY <1>1, <1>2, <1>3 DEF EntryIsRead, Excused, Begin, Opened

LEMMA ZipStarts == ZipInit => ZipInv
  BY DEF ZipInit, ZipInv, Opened

(* A request that fails has a reason.                                      *)
LEMMA FailIs ==
  ASSUME ZipInv, pc # "idle", archive' = archive, Fail,
         \/ answers' \ {"partial"} # {}
         \/ ArchiveSize(archive) - Begin(archive) > TailLimit
  PROVE  ZipInv'
<1>1. pc' = "failed" /\ entries' = entries /\ archive' \in Archives
  BY DEF Fail, ZipInv
<1>2. Excused'
  BY DEF Excused, Begin
<1> QED
  BY <1>1, <1>2 DEF ZipInv, Opened

LEMMA PartialOrWhole ==
  ASSUME NEW r \in Answers, NEW start, NEW end, Hear(r), ~Fetched(start, end, r)
  PROVE  answers' \ {"partial"} # {} \/ ~(start < ArchiveSize(archive))
  BY DEF Answers, Hear, Fetched

(* A range that is taken begins where it was asked to.                     *)
LEMMA FirstIs ==
  ASSUME NEW r, NEW start, NEW end, Fetched(start, end, r)
  PROVE  First(start, r) = start
  BY DEF Fetched, First

LEMMA OpenKeeps == ASSUME ZipInv, NEW a \in Archives, Open(a) PROVE ZipInv'
  BY DEF ZipInv, Open, Opened

LEMMA HeadKeeps == ASSUME ZipInv, HeadRequest PROVE ZipInv'
<1>1. pc = "head" /\ archive' = archive /\ archive \in Archives /\ entries = <<>>
  BY DEF HeadRequest, ZipInv
<1>2. CASE pc' = "tail" /\ size' = ArchiveSize(archive) /\ UNCHANGED <<cd, entries, entry, body, answers>>
  <2>1. size' = ArchiveSize(archive')
    BY <1>1, <1>2
  <2> QED
    BY <1>1, <1>2, <2>1 DEF ZipInv, Opened
<1>3. CASE pc' = "probe" /\ UNCHANGED <<size, cd, entries, entry, body, answers>>
  BY <1>1, <1>3 DEF ZipInv, Opened
<1>4. CASE Hear("error") /\ Fail
  <2>1. answers' \ {"partial"} # {}
    BY <1>4 DEF Hear
  <2> QED
    BY <1>1, <1>4, <2>1, FailIs
<1> QED
  BY <1>2, <1>3, <1>4 DEF HeadRequest

LEMMA ProbeKeeps == ASSUME ZipInv, Probe PROVE ZipInv'
<1>1. pc = "probe" /\ archive' = archive /\ archive \in Archives /\ entries = <<>>
  BY DEF Probe, ZipInv
<1>2. CASE pc' = "tail" /\ size' = ArchiveSize(archive) /\ UNCHANGED <<cd, entries, entry, body, answers>>
  <2>1. size' = ArchiveSize(archive')
    BY <1>1, <1>2
  <2> QED
    BY <1>1, <1>2, <2>1 DEF ZipInv, Opened
<1>3. CASE /\ pc' = "tail" /\ size' = 1 /\ Hear("no total")
           /\ UNCHANGED <<cd, entries, entry, body>>
  BY <1>1, <1>3 DEF ZipInv, Opened, Hear
<1>4. CASE Hear("error") /\ Fail
  <2>1. answers' \ {"partial"} # {}
    BY <1>4 DEF Hear
  <2> QED
    BY <1>1, <1>4, <2>1, FailIs
<1> QED
  BY <1>2, <1>3, <1>4 DEF Probe

(* The directory is within the archive; without one there are no files.    *)
LEMMA LocatedKeeps ==
  ASSUME ZipInv, pc \in {"tail", "zip64"}, archive' = archive, size = ArchiveSize(archive),
         Located(Eocd64(archive))
  PROVE  ZipInv'
<1>1. archive \in Archives /\ entries = <<>>
  BY DEF ZipInv
<1>2. ~(Eocd64(archive).offset + Eocd64(archive).size > size)
  <2>1. /\ Eocd64At(archive) = CdOffset(archive) + CdSize(archive)
        /\ Eocd64At(archive) < size /\ size \in Nat
        /\ CdOffset(archive) \in Nat /\ CdSize(archive) \in Nat
    BY <1>1, PlacesAre
  <2> QED
    BY <2>1 DEF Eocd64
<1>3. /\ cd' = Eocd64(archive)
      /\ pc' = IF CdSize(archive) = 0 THEN "opened" ELSE "directory"
      /\ UNCHANGED <<size, entries, entry, body>>
  BY <1>2 DEF Located, Eocd64
<1>4. CASE CdSize(archive) = 0
  <2>1. archive.files = <<>>
    BY <1>1, <1>4, CdSizeIs
  <2>2. EntriesAre(archive, <<>>)
    BY <2>1 DEF EntriesAre
  <2> QED
    BY <1>1, <1>3, <1>4, <2>2 DEF ZipInv, Opened
<1>5. CASE CdSize(archive) # 0
  BY <1>1, <1>3, <1>5 DEF ZipInv, Opened
<1> QED
  BY <1>4, <1>5

(* A record that is not in the tail begins too early.                      *)
LEMMA TailMisses ==
  ASSUME ZipInv, pc = "tail", size = ArchiveSize(archive)
  PROVE  /\ ~(TailStart < ArchiveSize(archive)) =>
              ArchiveSize(archive) - Begin(archive) > TailLimit
         /\ EocdAt(archive) \notin TailStart..(TailStart + (size - 1 - TailStart)) - 21 =>
              ArchiveSize(archive) - Begin(archive) > TailLimit
         /\ In64(archive) # {} /\ LocatorAt(archive) < TailStart =>
              ArchiveSize(archive) - Begin(archive) > TailLimit
<1> DEFINE n == ArchiveSize(archive)
           e == EocdAt(archive)
           l == LocatorAt(archive)
           b == Begin(archive)
           t == TailStart
<1>1. archive \in Archives
  BY DEF ZipInv
<1>2. n \in Nat /\ e \in Nat /\ l \in Nat /\ e + 22 <= n /\ (In64(archive) # {} => l <= e)
  BY <1>1, PlacesAre
<1>3. b = IF In64(archive) = {} THEN e ELSE l
  BY DEF Begin
<1>4. t = IF n > TailLimit THEN n - TailLimit ELSE 0
  BY DEF TailStart
<1>5. TailLimit \in Nat /\ size = n
  BY ZipAssumption
<1> HIDE DEF n, e, l, b, t
<1>6. ~(t < n) => n - b > TailLimit
  BY <1>2, <1>3, <1>4, <1>5
<1>7. e \notin t..(t + (n - 1 - t)) - 21 => n - b > TailLimit
  BY <1>2, <1>3, <1>4, <1>5
<1>8. In64(archive) # {} /\ l < t => n - b > TailLimit
  BY <1>2, <1>3, <1>4, <1>5
<1> QED
  BY <1>5, <1>6, <1>7, <1>8 DEF n, e, l, b, t

(* A size that is not the archive's finds no end record.                   *)
LEMMA TailOfOneByte ==
  ASSUME ZipInv, pc = "tail", size = 1
  PROVE  EocdAt(archive) \notin TailStart..(TailStart + (size - 1 - TailStart)) - 21
<1>1. archive \in Archives
  BY DEF ZipInv
<1>2. EocdAt(archive) \in Nat
  BY <1>1, PlacesAre
<1>3. TailStart \in Nat
  BY ZipAssumption DEF TailStart
<1> HIDE DEF TailStart
<1> QED
  BY <1>2, <1>3

LEMMA TailKeeps == ASSUME ZipInv, FetchTail PROVE ZipInv'
<1> DEFINE InTail == TailStart..(TailStart + (size - 1 - TailStart)) - 21
<1>1. /\ pc = "tail" /\ archive' = archive /\ archive \in Archives /\ entries = <<>>
      /\ \/ size = ArchiveSize(archive)
         \/ size = 1 /\ "no total" \in answers
  BY DEF FetchTail, ZipInv
<1>2. PICK r \in Answers :
        /\ Hear(r)
        /\ IF ~Fetched(TailStart, size - 1, r) \/ EocdAt(archive) \notin InTail
           THEN Fail
           ELSE IF Sentinel \notin {Eocd(archive).size, Eocd(archive).offset}
           THEN Located(Eocd(archive))
           ELSE IF In64(archive) = {} \/ LocatorAt(archive) < TailStart
           THEN Fail
           ELSE pc' = "zip64" /\ UNCHANGED <<size, cd, entries, entry, body>>
  <2>1. \A r \in Answers : Fetched(TailStart, size - 1, r) => First(TailStart, r) = TailStart
    BY FirstIs
  <2> QED
    BY <2>1 DEF FetchTail
<1>3. CASE size # ArchiveSize(archive)
  <2>1. Fail
    BY <1>1, <1>2, <1>3, TailOfOneByte
  <2>2. answers' \ {"partial"} # {}
    <3>1. "no total" \in answers'
      BY <1>1, <1>2, <1>3 DEF Hear
    <3>2. "no total" \notin {"partial"}
      OBVIOUS
    <3> QED
      BY <3>1, <3>2, Zenon
  <2> QED
    BY <1>1, <2>1, <2>2, FailIs
<1>4. CASE size = ArchiveSize(archive)
  <2>1. CASE ~Fetched(TailStart, size - 1, r)
    <3>1. answers' \ {"partial"} # {} \/ ~(TailStart < ArchiveSize(archive))
      BY <1>2, <2>1, PartialOrWhole
    <3> QED
      BY <1>1, <1>2, <1>4, <2>1, <3>1, TailMisses, FailIs
  <2>2. CASE EocdAt(archive) \notin InTail
    BY <1>1, <1>2, <1>4, <2>2, TailMisses, FailIs
  <2>3. CASE ~(~Fetched(TailStart, size - 1, r) \/ EocdAt(archive) \notin InTail)
    <3>1. CASE In64(archive) = {}
      <4>1. Sentinel \notin {Eocd(archive).size, Eocd(archive).offset} /\ Eocd(archive) = Eocd64(archive)
        BY <1>1, <3>1, EocdIs
      <4>2. Located(Eocd64(archive))
        BY <1>2, <2>3, <4>1
      <4> QED
        BY <1>1, <1>4, <4>2, LocatedKeeps
    <3>2. CASE In64(archive) # {}
      <4>1. Sentinel \in {Eocd(archive).size, Eocd(archive).offset}
        BY <1>1, <3>2, EocdIs
      <4>2. CASE LocatorAt(archive) < TailStart
        <5>1. Fail
          BY <1>2, <2>3, <4>1, <4>2
        <5> QED
          BY <1>1, <1>4, <3>2, <4>2, <5>1, TailMisses, FailIs
      <4>3. CASE ~(LocatorAt(archive) < TailStart)
        <5>1. pc' = "zip64" /\ UNCHANGED <<size, cd, entries, entry, body>>
          BY <1>2, <2>3, <3>2, <4>1, <4>3
        <5> QED
          BY <1>1, <1>4, <5>1 DEF ZipInv, Opened
      <4> QED
        BY <4>2, <4>3
    <3> QED
      BY <3>1, <3>2
  <2> QED
    BY <2>1, <2>2, <2>3
<1> QED
  BY <1>3, <1>4

LEMMA Zip64Keeps == ASSUME ZipInv, FetchZip64 PROVE ZipInv'
<1>1. pc = "zip64" /\ archive' = archive /\ archive \in Archives /\ size = ArchiveSize(archive)
  BY DEF FetchZip64, ZipInv
<1>2. PICK r \in Answers :
        /\ Hear(r)
        /\ IF Fetched(Eocd64At(archive), Eocd64At(archive) + 55, r) THEN Located(Eocd64(archive))
                                                                    ELSE Fail
  BY FirstIs DEF FetchZip64
<1>3. CASE Fetched(Eocd64At(archive), Eocd64At(archive) + 55, r)
  BY <1>1, <1>2, <1>3, LocatedKeeps
<1>4. CASE ~Fetched(Eocd64At(archive), Eocd64At(archive) + 55, r)
  <2>1. answers' \ {"partial"} # {}
    BY <1>1, <1>2, <1>4, PartialOrWhole, PlacesAre
  <2> QED
    BY <1>1, <1>2, <1>4, <2>1, FailIs
<1> QED
  BY <1>3, <1>4

LEMMA DirectoryKeeps == ASSUME ZipInv, FetchDirectory PROVE ZipInv'
<1>1. pc = "directory" /\ archive' = archive /\ archive \in Archives /\ cd = Eocd64(archive)
  BY DEF FetchDirectory, ZipInv
<1>2. PICK r \in Answers :
        /\ Hear(r)
        /\ IF Fetched(cd.offset, cd.offset + cd.size - 1, r)
           THEN /\ pc' = "opened"
                /\ entries' = ParseCentralDirectory(archive, First(cd.offset, r) - CdOffset(archive))
                /\ UNCHANGED <<size, cd, entry, body>>
           ELSE Fail
  BY DEF FetchDirectory
<1>3. CASE Fetched(cd.offset, cd.offset + cd.size - 1, r)
  <2>1. EntriesAre(archive, ParseCentralDirectory(archive, 0))
    BY <1>1, DirectoryIs, EntryIs DEF EntriesAre
  <2>2. pc' = "opened" /\ entries' = ParseCentralDirectory(archive, 0)
    <3>1. First(cd.offset, r) = CdOffset(archive)
      BY <1>1, <1>3, FirstIs DEF Eocd64
    <3>2. First(cd.offset, r) - CdOffset(archive) = 0
      BY <1>1, <3>1, PlacesAre
    <3> QED
      BY <1>2, <1>3, <3>2
  <2> QED
    BY <1>1, <2>1, <2>2 DEF ZipInv, Opened
<1>4. CASE ~Fetched(cd.offset, cd.offset + cd.size - 1, r)
  <2>1. cd.offset < ArchiveSize(archive)
    BY <1>1, PlacesAre DEF Eocd64
  <2>2. answers' \ {"partial"} # {}
    BY <1>2, <1>4, <2>1, PartialOrWhole
  <2> QED
    BY <1>1, <1>2, <1>4, <2>2, FailIs
<1> QED
  BY <1>3, <1>4

LEMMA OpenEntryKeeps ==
  ASSUME ZipInv, NEW i \in DOMAIN entries, OpenEntry(i)
  PROVE  ZipInv'
<1>1. archive \in Archives /\ EntriesAre(archive, entries) /\ pc = "opened"
  BY DEF OpenEntry, ZipInv, Opened
<1>2. i \in 1..Len(archive.files)
  BY <1>1, EntriesHave
<1> QED
  BY <1>1, <1>2 DEF OpenEntry, ZipInv, Opened

(* The reader is made, if the method is one it knows.                      *)
LEMMA MethodKeeps ==
  ASSUME ZipInv, pc \in {"header", "stream"}, archive' = archive,
         UNCHANGED <<size, cd, entries, entry>>,
         NEW range, Method(range),
         range = <<DataAt(archive, entry), archive.files[entry].packed>>
  PROVE  ZipInv'
<1>1. archive \in Archives /\ EntriesAre(archive, entries) /\ entry \in 1..Len(archive.files)
  BY DEF ZipInv, Opened
<1>2. entries[entry].method = archive.files[entry].method
  BY <1>1, EntriesHave
<1>3. body' = range
  BY DEF Method
<1>4. CASE archive.files[entry].method \in {"store", "deflate"}
  <2>1. pc' = "read"
    BY <1>2, <1>4 DEF Method
  <2> QED
    BY <1>1, <1>3, <2>1 DEF ZipInv, Opened
<1>5. CASE archive.files[entry].method \notin {"store", "deflate"}
  <2>1. pc' = "failed"
    BY <1>2, <1>5 DEF Method
  <2>2. entry # 0
    BY <1>1
  <2>3. Excused'
    BY <1>5, <2>2 DEF Excused
  <2> QED
    BY <1>1, <2>1, <2>3 DEF ZipInv, Opened
<1> QED
  BY <1>4, <1>5

LEMMA HeaderKeeps == ASSUME ZipInv, FetchHeader PROVE ZipInv'
<1>1. /\ pc = "header" /\ archive' = archive /\ archive \in Archives
      /\ EntriesAre(archive, entries) /\ entry \in 1..Len(archive.files)
  BY DEF FetchHeader, ZipInv, Opened
<1> DEFINE e == entries[entry]
<1>2. e.offset = LocalAt(archive, entry) /\ e.packed = archive.files[entry].packed
  BY <1>1, EntriesHave
<1>3. PICK r \in Answers :
        /\ Hear(r)
        /\ IF Fetched(e.offset, e.offset + 30 + 256, r)
           THEN /\ \E i \in DOMAIN archive.files :
                     /\ LocalAt(archive, i) = First(e.offset, r)
                     /\ LET at == e.offset + 30 + archive.files[i].name + archive.files[i].local
                        IN  IF e.packed = 0 THEN Method(<<at, 0>>)
                                            ELSE pc' = "stream" /\ body' = <<at, e.packed>>
                /\ UNCHANGED <<size, cd, entries, entry>>
           ELSE Fail
  BY DEF FetchHeader
<1>4. CASE Fetched(e.offset, e.offset + 30 + 256, r)
  <2>1. PICK i \in DOMAIN archive.files :
          /\ LocalAt(archive, i) = e.offset
          /\ LET at == e.offset + 30 + archive.files[i].name + archive.files[i].local
             IN  IF e.packed = 0 THEN Method(<<at, 0>>)
                                 ELSE pc' = "stream" /\ body' = <<at, e.packed>>
    BY <1>3, <1>4, FirstIs
  <2>2. UNCHANGED <<size, cd, entries, entry>>
    BY <1>3, <1>4
  <2>3. i \in 1..Len(archive.files)
    BY <1>1, FilesAre
  <2>4. i = entry
    BY <1>1, <1>2, <2>1, <2>3, LocalsDiffer
  <2>5. e.offset + 30 + archive.files[i].name + archive.files[i].local = DataAt(archive, entry)
    BY <1>2, <2>4 DEF DataAt
  <2>6. CASE e.packed = 0
    <3>1. Method(<<DataAt(archive, entry), 0>>)
      BY <2>1, <2>5, <2>6
    <3>2. <<DataAt(archive, entry), 0>> = <<DataAt(archive, entry), archive.files[entry].packed>>
      BY <1>2, <2>6
    <3> QED
      BY <1>1, <2>2, <3>1, <3>2, MethodKeeps
  <2>7. CASE e.packed # 0
    <3>1. pc' = "stream" /\ body' = <<DataAt(archive, entry), archive.files[entry].packed>>
      BY <1>2, <2>1, <2>5, <2>7
    <3> QED
      BY <1>1, <2>2, <3>1 DEF ZipInv, Opened
  <2> QED
    BY <2>6, <2>7
<1>5. CASE ~Fetched(e.offset, e.offset + 30 + 256, r)
  <2>1. e.offset < ArchiveSize(archive)
    <3>1. /\ LocalAt(archive, entry) < CdOffset(archive) /\ LocalAt(archive, entry) \in Nat
          /\ CdOffset(archive) < ArchiveSize(archive)
          /\ CdOffset(archive) \in Nat /\ ArchiveSize(archive) \in Nat
      BY <1>1, LocalsDiffer, PlacesAre
    <3> QED
      BY <1>2, <3>1
  <2>2. answers' \ {"partial"} # {}
    BY <1>3, <1>5, <2>1, PartialOrWhole
  <2> QED
    BY <1>1, <1>3, <1>5, <2>2, FailIs
<1> QED
  BY <1>4, <1>5

LEMMA StreamKeeps == ASSUME ZipInv, FetchStream PROVE ZipInv'
<1>1. /\ pc = "stream" /\ archive' = archive /\ archive \in Archives
      /\ entry \in 1..Len(archive.files)
      /\ body = <<DataAt(archive, entry), archive.files[entry].packed>>
  BY DEF FetchStream, ZipInv, Opened
<1>2. PICK r \in Answers :
        /\ Hear(r)
        /\ IF Fetched(body[1], body[1] + body[2] - 1, r)
           THEN Method(<<First(body[1], r), body[2]>>) /\ UNCHANGED <<size, cd, entries, entry>>
           ELSE Fail
  BY DEF FetchStream
<1>3. CASE Fetched(body[1], body[1] + body[2] - 1, r)
  <2>1. <<First(body[1], r), body[2]>> = body
    BY <1>1, <1>3, FirstIs
  <2>2. Method(body) /\ UNCHANGED <<size, cd, entries, entry>>
    BY <1>2, <1>3, <2>1
  <2> QED
    BY <1>1, <2>2, MethodKeeps
<1>4. CASE ~Fetched(body[1], body[1] + body[2] - 1, r)
  <2>1. body[1] < ArchiveSize(archive)
    <3>1. /\ DataAt(archive, entry) + archive.files[entry].packed <= CdOffset(archive)
          /\ DataAt(archive, entry) \in Nat /\ archive.files[entry].packed \in Nat
          /\ CdOffset(archive) < ArchiveSize(archive)
          /\ CdOffset(archive) \in Nat /\ ArchiveSize(archive) \in Nat
      BY <1>1, LocalsDiffer, PlacesAre, FilesAre
    <3>2. DataAt(archive, entry) < ArchiveSize(archive)
      <4> DEFINE d == DataAt(archive, entry)
                 p == archive.files[entry].packed
                 o == CdOffset(archive)
                 n == ArchiveSize(archive)
      <4> HIDE DEF d, p, o, n
      <4>1. d < n
        BY <3>1 DEF d, p, o, n
      <4> QED
        BY <4>1 DEF d, n
    <3> QED
      BY <1>1, <3>2
  <2>2. answers' \ {"partial"} # {}
    BY <1>2, <1>4, <2>1, PartialOrWhole
  <2> QED
    BY <1>1, <1>2, <1>4, <2>2, FailIs
<1> QED
  BY <1>3, <1>4

LEMMA ZipInvSteps == ZipInv /\ [ZipNext]_zipVars => ZipInv'
<1> SUFFICES ASSUME ZipInv, [ZipNext]_zipVars PROVE ZipInv'
  OBVIOUS
<1>1. ASSUME NEW a \in Archives, Open(a) PROVE ZipInv'
  BY <1>1, OpenKeeps
<1>2. ASSUME NEW i \in DOMAIN entries, OpenEntry(i) PROVE ZipInv'
  BY <1>2, OpenEntryKeeps
<1>3. CASE UNCHANGED zipVars
  BY <1>3 DEF zipVars, ZipInv, Opened, Excused
<1> QED
  BY <1>1, <1>2, <1>3, HeadKeeps, ProbeKeeps, TailKeeps, Zip64Keeps, DirectoryKeeps,
     HeaderKeeps, StreamKeeps DEF ZipNext

(* What open and the reader of an entry give is what the archive holds,    *)
(* for any number of files and any lengths, of which any may be too large  *)
(* for its field; and they fail only for the reasons that are named.       *)
THEOREM EntriesAreRead == ZipSpec => []EntryIsRead
<1>1. ZipSpec => []ZipInv
  BY ZipStarts, ZipInvSteps, PTL DEF ZipSpec
<1> QED
  BY <1>1, ZipInvShows, PTL
=============================================================================
