------------------------------ MODULE Ciphers ------------------------------
(***************************************************************************)
(* The block modes of neon-crypto (aes.rs and des.rs, CBC and ECB), their  *)
(* PKCS#7 padding (lib.rs), and AES-GCM (aes.rs).                          *)
(*                                                                         *)
(* Under one key and IV a block mode of the cipher crates is a permutation *)
(* of the buffers of whole blocks.  A ciphertext is therefore named by the *)
(* buffer it is the image of, and encrypting a buffer is leaving it alone: *)
(* what the code adds is which buffers, and which errors.                  *)
(***************************************************************************)
EXTENDS Integers, Sequences

CONSTANTS AesBlock,   \* BLOCK_SIZE of aes.rs
          DesBlock    \* BLOCK_SIZE of des.rs

ASSUME CipherAssumption == AesBlock \in 1..255 /\ DesBlock \in 1..255

Byte == 0..255

(* padding_size; DES has none to choose.                                   *)
None == -1

(* A call: the algorithm, whether key and IV have the length it wants, and *)
(* padding_size.                                                           *)
Calls(paddings) ==
  [alg : {"aes_cbc", "aes_ecb"}, key : BOOLEAN, iv : BOOLEAN, padding : paddings \cup {None}]
    \cup [alg : {"des_cbc", "des_ecb"}, key : BOOLEAN, iv : BOOLEAN, padding : {None}]

Ok(bytes) == [ok |-> TRUE, bytes |-> bytes]

Err == [ok |-> FALSE, bytes |-> <<>>]

-----------------------------------------------------------------------------
(* PKCS#7                                                                  *)

Repeat(n) == [i \in 1..n |-> n]

Pkcs7Padding(data, n) ==
  IF n \notin 1..255 THEN Err ELSE Ok(data \o Repeat(n - (Len(data) % n)))

Clamp(x, lo, hi) == IF x < lo THEN lo ELSE IF x > hi THEN hi ELSE x

(* Mutant of BadPadding: the scan begins one byte late.                    *)
BadPaddingLate(data, n) ==
  LET len    == Len(data)
      pad    == data[len]
      padLen == Clamp(pad, 1, n)
  IN  \/ pad = 0 \/ pad > n
      \/ \E i \in 0..n - 1 : i + padLen > n /\ data[len - n + i + 1] # pad

(* The flag that is gathered over the whole last block, whatever its last  *)
(* byte is.                                                                *)
BadPadding(data, n) ==
  LET len    == Len(data)
      pad    == data[len]
      padLen == Clamp(pad, 1, n)
  IN  \/ pad = 0 \/ pad > n
      \/ \E i \in 0..n - 1 : i + padLen >= n /\ data[len - n + i + 1] # pad

Pkcs7Unpadding(data, n) ==
  IF n \notin 1..255 \/ Len(data) = 0 THEN Err
  ELSE IF Len(data) % n # 0 \/ BadPadding(data, n) THEN Err
  ELSE Ok(SubSeq(data, 1, Len(data) - data[Len(data)]))

(* The padding of the cipher crate, which the CBC modes use for whole      *)
(* blocks: the same rule, declared by the buffers that it makes.           *)
LibPad(data, block) == Ok(data \o Repeat(block - (Len(data) % block)))

LibUnpad(data, block) ==
  LET texts == {k \in 0..Len(data) : LibPad(SubSeq(data, 1, k), block).bytes = data}
  IN  IF texts = {} THEN Err ELSE Ok(SubSeq(data, 1, CHOOSE k \in texts : TRUE))

-----------------------------------------------------------------------------
(* AES and DES                                                             *)

BadSize(padding) == padding = 0 \/ padding % AesBlock # 0

AesEncryptCbc(c, data) ==
  IF ~c.iv \/ ~c.key THEN Err
  ELSE IF c.padding \in {None, AesBlock} THEN LibPad(data, AesBlock)
  ELSE IF BadSize(c.padding) THEN Err
  ELSE Pkcs7Padding(data, c.padding)

AesDecryptCbc(c, data) ==
  IF ~c.iv \/ ~c.key \/ Len(data) % AesBlock # 0 THEN Err
  ELSE IF c.padding \in {None, AesBlock} THEN LibUnpad(data, AesBlock)
  ELSE IF BadSize(c.padding) THEN Err
  ELSE IF Len(data) % c.padding # 0 THEN Err
  ELSE Pkcs7Unpadding(data, c.padding)

Size(c) == IF c.padding = None THEN AesBlock ELSE c.padding

AesEncryptEcb(c, data) ==
  IF ~c.key \/ BadSize(Size(c)) THEN Err ELSE Pkcs7Padding(data, Size(c))

AesDecryptEcb(c, data) ==
  IF ~c.key \/ BadSize(Size(c)) THEN Err
  ELSE IF Len(data) % Size(c) # 0 THEN Err
  ELSE Pkcs7Unpadding(data, Size(c))

DesEncryptCbc(c, data) == IF ~c.iv \/ ~c.key THEN Err ELSE LibPad(data, DesBlock)

DesDecryptCbc(c, data) ==
  IF ~c.iv \/ ~c.key \/ Len(data) % DesBlock # 0 THEN Err ELSE LibUnpad(data, DesBlock)

DesEncryptEcb(c, data) == IF ~c.key THEN Err ELSE Pkcs7Padding(data, DesBlock)

DesDecryptEcb(c, data) ==
  IF ~c.key \/ Len(data) % DesBlock # 0 THEN Err ELSE Pkcs7Unpadding(data, DesBlock)

Encrypt(c, data) ==
  CASE c.alg = "aes_cbc" -> AesEncryptCbc(c, data)
    [] c.alg = "aes_ecb" -> AesEncryptEcb(c, data)
    [] c.alg = "des_cbc" -> DesEncryptCbc(c, data)
    [] c.alg = "des_ecb" -> DesEncryptEcb(c, data)

Decrypt(c, data) ==
  CASE c.alg = "aes_cbc" -> AesDecryptCbc(c, data)
    [] c.alg = "aes_ecb" -> AesDecryptEcb(c, data)
    [] c.alg = "des_cbc" -> DesDecryptCbc(c, data)
    [] c.alg = "des_ecb" -> DesDecryptEcb(c, data)

-----------------------------------------------------------------------------
(* AES-GCM.  A key or a nonce is its length and which one it is; a byte of *)
(* a text is a tuple of one element, to tell it from those of a tag.       *)

(* No GcmOption is one of zeros.                                           *)
GcmCalls(keys, options, nonces, aads) ==
  [alg : {"aes_gcm"}, key : keys, opt : options, nonce : nonces, aad : aads]

(* The cipher crate: no byte of a tag is that of another key, nonce, aad,  *)
(* text or place, and what is opened was sealed the same way.              *)
Seal(c, text, tagSize) == text \o [i \in 1..tagSize |-> <<c.key, c.nonce, c.aad, text, i>>]

Unseal(c, bytes, tagSize) ==
  LET text == SubSeq(bytes, 1, Len(bytes) - tagSize)
  IN  IF Len(bytes) >= tagSize /\ Seal(c, text, tagSize) = bytes THEN Ok(text) ELSE Err

ResolveGcmSizes(opt) ==
  [nonce |-> IF opt.nonce_size = 0 THEN 12 ELSE opt.nonce_size,
   tag   |-> IF opt.tag_size = 0 THEN 16 ELSE opt.tag_size]

GcmSizesOK(sizes) == sizes.nonce \in 12..16 /\ sizes.tag \in 12..16

(* The tables of gcm_op, gcm_dispatch_nonce and gcm_dispatch_tag: by a     *)
(* length a type, which is named by the length it has.                     *)
NoType == 0

GcmKeyType(len) == CASE len = 16 -> 16 [] len = 24 -> 24 [] len = 32 -> 32 [] OTHER -> NoType

GcmNonceType(len) ==
  CASE len = 12 -> 12 [] len = 13 -> 13 [] len = 14 -> 14 [] len = 15 -> 15 [] len = 16 -> 16
    [] OTHER -> NoType

(* Mutant of GcmTagType: the row of 14 has the type of the row above.      *)
GcmTagTypeRepeats(len) ==
  CASE len = 12 -> 12 [] len = 13 -> 13 [] len = 14 -> 13 [] len = 15 -> 15 [] len = 16 -> 16
    [] OTHER -> NoType

GcmTagType(len) ==
  CASE len = 12 -> 12 [] len = 13 -> 13 [] len = 14 -> 14 [] len = 15 -> 15 [] len = 16 -> 16
    [] OTHER -> NoType

(* gcm_run refuses a key or a nonce that has not the length of its type.   *)
GcmOp(c, sizes) ==
  /\ GcmSizesOK(sizes)
  /\ NoType \notin {GcmKeyType(c.key.len), GcmNonceType(sizes.nonce), GcmTagType(sizes.tag)}
  /\ c.key.len = GcmKeyType(c.key.len) /\ c.nonce.len = GcmNonceType(sizes.nonce)

AesEncryptGcm(c, text) ==
  LET sizes == ResolveGcmSizes(c.opt)
  IN  IF ~GcmOp(c, sizes) THEN Err
      ELSE [ok |-> TRUE, bytes |-> Seal(c, text, GcmTagType(sizes.tag)), tag |-> sizes.tag]

AesDecryptGcm(c, bytes) ==
  LET sizes == ResolveGcmSizes(c.opt)
  IN  IF ~GcmOp(c, sizes) THEN Err ELSE Unseal(c, bytes, GcmTagType(sizes.tag))

(* data() and tag() of a CipherText.                                       *)
DataOf(sealed) ==
  SubSeq(sealed.bytes, 1, Len(sealed.bytes) - sealed.tag)

TagOf(sealed) == SubSeq(sealed.bytes, Len(DataOf(sealed)) + 1, Len(sealed.bytes))

-----------------------------------------------------------------------------
(* A ciphertext is decrypted exactly if some text encrypts to it under the *)
(* same call, and then to that text; every valid padding_size of one       *)
(* algorithm that can decrypt it gives the same text.                      *)
Inverts(c, data, paddings) ==
  /\ \A k \in 0..Len(data) :
       LET text == SubSeq(data, 1, k)
       IN  (Decrypt(c, data) = Ok(text)) <=> (Encrypt(c, text) = Ok(data))
  /\ Decrypt(c, data).ok =>
       \E k \in 0..Len(data) : Decrypt(c, data).bytes = SubSeq(data, 1, k)
  /\ \A p \in paddings :
       LET d == [c EXCEPT !.padding = p]
       IN  Decrypt(c, data).ok /\ Decrypt(d, data).ok => Decrypt(c, data) = Decrypt(d, data)

(* What GCM seals, a call opens exactly if it has the same key, nonce, aad *)
(* and sizes, the defaults spelled out or not; it refuses everything else, *)
(* every size from 12 to 16 works with every key of AES, and the two parts *)
(* of a CipherText are the text and the tag.                               *)
GcmInverts(c, text, calls) ==
  LET sealed == AesEncryptGcm(c, text)
      Size0(size, default) == IF size = 0 THEN default ELSE size
      tag == Size0(c.opt.tag_size, 16)
      Alike(d) == /\ d.key = c.key /\ d.nonce = c.nonce /\ d.aad = c.aad
                  /\ Size0(d.opt.nonce_size, 12) = c.nonce.len
                  /\ Size0(d.opt.tag_size, 16) = tag
  IN  /\ sealed.ok <=>
           Alike(c) /\ c.key.len \in {16, 24, 32} /\ {c.nonce.len, tag} \subseteq 12..16
      /\ sealed.ok =>
           /\ DataOf(sealed) = text /\ Len(TagOf(sealed)) = tag
           /\ \A d \in calls :
                AesDecryptGcm(d, sealed.bytes) = IF Alike(d) THEN Ok(text) ELSE Err
=============================================================================
