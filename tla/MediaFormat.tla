---------------------------- MODULE MediaFormat ----------------------------
(***************************************************************************)
(* Media at the CDN: padding and encryption, the forms a key is written    *)
(* in, and what a download hands to the application.                       *)
(*                                                                         *)
(* A byte that is encrypted is the pair of key and byte, and with another  *)
(* key it is deciphered as any byte: the one that a reference names, so    *)
(* that what is deciphered may look padded.  A written key is abstracted   *)
(* to what the decoder looks at: the form it has on the outside, and the   *)
(* bytes inside.                                                           *)
(***************************************************************************)
EXTENDS Naturals, Sequences

CONSTANT
    Keys    \* AES keys

BlockSize == 16
None == [is |-> "none"]

-----------------------------------------------------------------------------
(* crypto.rs *)

\* pkcs7_pad: between one byte and a whole block of them, each their number.
Pad(data) ==
    LET n == BlockSize - (Len(data) % BlockSize)
    IN  data \o [i \in 1..n |-> n]

\* pkcs7_unpad: only the last byte is looked at.
PaddingOk(data) ==
    /\ data # <<>>
    /\ data[Len(data)] \in 1..BlockSize
    /\ data[Len(data)] <= Len(data)

Unpadded(data) == SubSeq(data, 1, Len(data) - data[Len(data)])

EncryptedSize(n) == ((n + 1 + 15) \div BlockSize) * BlockSize

\* encrypt_aes_ecb
Encrypt(data, key) == [i \in DOMAIN Pad(data) |-> [key |-> key, byte |-> Pad(data)[i]]]

Decipher(cipher, key, garbage) ==
    [i \in DOMAIN cipher |-> IF cipher[i].key = key THEN cipher[i].byte ELSE garbage]

Failed == [is |-> "error"]
Plain(data) == [is |-> "plain", data |-> data]
Cipher(data) == [is |-> "cipher", data |-> data]

\* decrypt_aes_ecb
Decrypt(cipher, key, garbage) ==
    LET data == Decipher(cipher, key, garbage)
    IN  IF Len(cipher) % BlockSize = 0 /\ PaddingOk(data) THEN Plain(Unpadded(data))
        ELSE Failed

\* Written keys: 32 hexadecimal digits, base64 of the 16 bytes, base64 of the digits
\* (the standard alphabet or the URL's), and what is none of them: base64 of another
\* number of bytes, of 32 bytes that are no digits, or no base64.
Outsides == {"hex", "base64", "urlsafe", "other"}
Insides == {"raw", "digits", "short", "binary"}
Hex(key) == [is |-> "key", outside |-> "hex", inside |-> "raw", key |-> key]
Base64(inside, key) ==
    [is |-> "key", outside |-> "base64", inside |-> inside, key |-> key]
Empty == [is |-> "empty"]

WrittenKeys ==
    [is : {"key"}, outside : Outsides, inside : Insides, key : Keys]

\* The ways in which a key is written so that it can be read.
WrittenAs(key) ==
    [is : {"key"}, outside : {"base64", "urlsafe"}, inside : {"raw", "digits"}, key : {key}]
    \cup {Hex(key)}

\* encode_aes_key_hex, encode_aes_key_base64
EncodeAesKeyHex(key) == Hex(key)
EncodeAesKeyBase64(key) == Base64("digits", key)

\* Mutant: base64 of the digits is not looked into.
DecodableRaw(written) ==
    written.outside = "hex" \/ (written.outside # "other" /\ written.inside = "raw")

\* decode_aes_key: whether there is a key in what is written.
Decodable(written) ==
    \/ written.outside = "hex"
    \/ written.outside # "other" /\ written.inside \in {"raw", "digits"}

-----------------------------------------------------------------------------
(* cdn.rs.  A reference to media has a URL or a parameter, neither, or one that the *)
(* CDN does not serve, what is stored there, and a written key, an empty one or     *)
(* none.                                                                            *)

\* The override is used when it is there, an empty one included.
KeySource(media, override) == IF override # None THEN override ELSE media.key

\* CdnClient::download.  Without a key the data are handed out as they are.
DownloadRaw(media, override) ==
    LET source == KeySource(media, override)
    IN  CASE media.at \in {"nowhere", "gone"} -> Failed
          [] media.at = "cdn" /\ source \in {None, Empty} -> Cipher(media.cipher)
          [] media.at = "cdn" /\ source \notin {None, Empty} ->
               IF Decodable(source) THEN Decrypt(media.cipher, source.key, media.garbage)
               ELSE Failed

\* The key that an item's download uses: an image has one of its own.
KeyOf(kind, item) == KeySource(item.media, IF kind = "image" THEN item.key ELSE None)

\* WechatIlinkClient::download: the first item of each kind, in this order.
Kinds == <<"image", "file", "video", "voice">>

HasMedia(msg, kind) == msg[kind] # <<>> /\ Head(msg[kind]).media # None

\* Mutant: the key is not asked for.
RequiredKeyMissingNever(kind, media) == FALSE

\* require_download_aes_key: an image's key may be with the image.
RequiredKeyMissing(kind, media) == kind # "image" /\ media.key \in {None, Empty}

Download(msg) ==
    LET having == {k \in DOMAIN Kinds : HasMedia(msg, Kinds[k])}
        kind == Kinds[CHOOSE k \in having : \A other \in having : k <= other]
        item == Head(msg[kind])
    IN  IF having = {} THEN None
        ELSE [kind |-> kind,
              result |-> IF RequiredKeyMissing(kind, item.media) THEN Failed
                         ELSE DownloadRaw(item.media,
                                          IF kind = "image" THEN item.key ELSE None)]

\* cdn_upload: what is uploaded and the reference that is sent.
Upload(data, key) ==
    [at |-> "cdn", cipher |-> Encrypt(data, key), garbage |-> 0,
     key |-> EncodeAesKeyBase64(key)]
=============================================================================
