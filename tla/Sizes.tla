------------------------------- MODULE Sizes --------------------------------
(***************************************************************************)
(* The sizes a text goes through between the page it is written on and the *)
(* wire: src/src/net.c, crypto.c and logic.c, with the constants of        *)
(* libsodium that crypto.c quotes.                                         *)
(***************************************************************************)
EXTENDS Naturals

IntSize == 4
LongSize == 8
TokenSize == 2 * IntSize + 40 + 16

MaxMessageSize == 256
MessageHeadSize == 6 * IntSize + LongSize + TokenSize
MaxMessageBodySize == MaxMessageSize - MessageHeadSize

(* cryptoEncryptedSize: a stream adds 17 bytes to each message. *)
EncryptedSize(size) == size + 17

(* cryptoAddPadding: sodium_pad fills the last block, and takes another    *)
(* one where it is full.                                                   *)
PaddingBlockSize == 8
PaddedSize(size) == (size \div PaddingBlockSize + 1) * PaddingBlockSize

maxUnencryptedMessageBodySize == MaxMessageBodySize - EncryptedSize(0)

(* logicMaxMessagePlainPayloadSize, which is the size of the page's buffer *)
MaxMessagePlainPayloadSize ==
  (maxUnencryptedMessageBodySize \div PaddingBlockSize) * PaddingBlockSize

(* What sendMessage asserts of a text... *)
Fits(size) == EncryptedSize(PaddedSize(size)) <= MaxMessageBodySize

(* ...and processReceivedMessage and cryptoRemovePadding of what comes. *)
Acceptable(encryptedSize) ==
  LET paddedSize == encryptedSize - EncryptedSize(0) IN
  /\ paddedSize > 0 /\ paddedSize <= maxUnencryptedMessageBodySize
  /\ paddedSize % PaddingBlockSize = 0
=============================================================================
